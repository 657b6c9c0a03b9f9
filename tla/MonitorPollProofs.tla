-------------------------- MODULE MonitorPollProofs ---------------------------
(***************************************************************************)
(* Proofs about MonitorPoll, for any monitors, any lists of them of any    *)
(* length, any documents, and either kind of Stop.                         *)
(*                                                                         *)
(* MonitorPoll drives a Poller, so what PollerProofs shows of every Poller *)
(* holds of it (PollsAsPoller).  The rest follows from two invariants:     *)
(* currentMonitor is in range while the Poller is started, and every       *)
(* monitor a Poll has passed is one that does not always answer well.      *)
(***************************************************************************)
EXTENDS MonitorPoll, PollerProofs

\* po.currentMonitor is a legal index whenever a Poll may run.
IndexInv ==
    /\ monitors \in Lists
    /\ cur \in Nat
    /\ started /\ monitors # <<>> => cur < Len(monitors)

\* Position i, from 0, is one of the t positions before c, going backwards
\* round a list of n.
Passed(i, c, t, n) == (c - t <= i /\ i < c) \/ i >= c - t + n

\* The monitors asked in a Poll under way are not Reliable, and they are fewer
\* than the list has.
FailoverInv ==
    SomeReliable =>
        \A l \in Loops : loop[l] = "polling" =>
            /\ tried[l] \in Nat
            /\ tried[l] < Len(monitors)
            /\ \A i \in 0 .. Len(monitors) - 1 :
                Passed(i, cur, tried[l], Len(monitors)) => monitors[i + 1] \notin Reliable

PollInv ==
    /\ PollerInv
    /\ IndexInv
    /\ tried \in [Loops -> Nat]
    /\ FailoverInv

-------------------------------------------------------------------------------
(* The Poller inside. *)

\* Every step of MonitorPoll is a step of its Poller, or leaves it alone.
LEMMA StepOfPoller == [Next]_vars => [PollerNext]_pollerVars
<1> SUFFICES ASSUME [Next]_vars
             PROVE  [PollerNext]_pollerVars
    OBVIOUS
<1>1. CASE StartPolling
    BY <1>1 DEF StartPolling, PollerNext, OwnerStep
<1>2. CASE Reconfigure
    BY <1>2 DEF Reconfigure, PollerNext, OwnerStep
<1>3. CASE PollerOnly
    BY <1>3 DEF PollerOnly, PollerNext, OwnerStep, LoopStep
<1>4. ASSUME NEW l \in Loops, PollBegins(l)
      PROVE  PollerNext
    BY <1>4 DEF PollBegins, PollerNext, LoopStep
<1>5. ASSUME NEW l \in Loops, NoMonitors(l) \/ AskSucceeds(l)
      PROVE  PollerNext
    BY <1>5 DEF NoMonitors, AskSucceeds, PollerNext, LoopStep
<1>6. ASSUME NEW l \in Loops, AskFails(l) \/ AskMisfits(l)
      PROVE  UNCHANGED pollerVars
    BY <1>6 DEF AskFails, AskMisfits
<1>7. CASE UNCHANGED vars
    BY <1>7 DEF vars
<1>8. QED
    BY <1>1, <1>2, <1>3, <1>4, <1>5, <1>6, <1>7 DEF Next, PollStep

\* The Poller that drives pollercrconfig and pollercrstates behaves as module
\* Poller says of any: Poll only takes the time between TakeTick and PollReturns.
THEOREM PollsAsPoller == Spec => PollerSpec
<1>1. Init => PollerInit
    BY DEF Init
<1>2. [Next]_vars => [PollerNext]_pollerVars
    BY StepOfPoller
<1>3. QED
    BY <1>1, <1>2, PTL DEF Spec, PollerSpec

-------------------------------------------------------------------------------
(* currentMonitor. *)

\* The index after an increment modulo a list's length is in the list, and is
\* the next one or the first.
LEMMA NextInRange ==
    ASSUME NEW n \in Nat, NEW c \in Nat, c < n
    PROVE  /\ c + 1 < n => (c + 1) % n = c + 1
           /\ c + 1 = n => (c + 1) % n = 0
<1>1. ASSUME c + 1 < n
      PROVE  (c + 1) % n = c + 1
    BY <1>1, SMT
<1>2. ASSUME c + 1 = n
      PROVE  (c + 1) % n = 0
    BY <1>2, SMT
<1>3. QED
    BY <1>1, <1>2

\* A list of monitors has a length, and is empty only if that is 0.
LEMMA ListLength ==
    ASSUME monitors \in Lists
    PROVE  /\ Len(monitors) \in Nat
           /\ monitors # <<>> <=> Len(monitors) > 0
<1>1. monitors \in Seq(Monitors)
    BY MonitorPollAssumption DEF MonitorPollAssumption
<1>2. QED
    BY <1>1

\* A request moves the index to the next position, in the same list.
LEMMA AskMoves ==
    ASSUME IndexInv, NEW l \in Loops, Ask(l)
    PROVE  /\ cur < Len(monitors)
           /\ monitors' = monitors
           /\ cur' = IF cur + 1 < Len(monitors) THEN cur + 1 ELSE 0
<1>1. cur < Len(monitors) /\ monitors' = monitors /\ cur' = (cur + 1) % Len(monitors)
    BY DEF Ask, NextMonitor
<1>2. Len(monitors) \in Nat /\ cur \in Nat
    BY ListLength DEF IndexInv
<1>3. QED
    BY <1>1, <1>2, NextInRange

\* currentMonitor stays in range: a list changes only while the Poller is
\* stopped, and Start resets the index.
LEMMA IndexStep == IndexInv /\ [Next]_vars => IndexInv'
<1> SUFFICES ASSUME IndexInv, [Next]_vars
             PROVE  IndexInv'
    OBVIOUS
<1>0. Len(monitors) \in Nat /\ (monitors # <<>> <=> Len(monitors) > 0)
    BY ListLength DEF IndexInv
<1>1. CASE StartPolling
    BY <1>0, <1>1 DEF StartPolling, Reset, IndexInv
<1>2. CASE Reconfigure
    BY <1>2 DEF Reconfigure, SetInterval, IndexInv
<1>3. ASSUME UNCHANGED <<monitors, cur>>, started' => started
      PROVE  IndexInv'
    BY <1>3 DEF IndexInv
<1>4. CASE PollerOnly
    BY <1>3, <1>4 DEF PollerOnly, pollVars, Stop, LoopBegin, TimerFires, Handshake, LoopExit
<1>5. ASSUME NEW l \in Loops, PollBegins(l) \/ NoMonitors(l)
      PROVE  IndexInv'
    BY <1>3, <1>5 DEF PollBegins, NoMonitors, TakeTick, PollReturns, pollVars
<1>6. ASSUME NEW l \in Loops, AskFails(l) \/ AskMisfits(l) \/ AskSucceeds(l)
      PROVE  IndexInv'
    <2>1. Ask(l)
        BY <1>6 DEF AskFails, AskMisfits, AskSucceeds
    <2>2. cur < Len(monitors) /\ monitors' = monitors
          /\ cur' = IF cur + 1 < Len(monitors) THEN cur + 1 ELSE 0
        BY <2>1, AskMoves
    <2>3. QED
        BY <1>0, <2>2 DEF IndexInv
<1>7. CASE UNCHANGED vars
    BY <1>3, <1>7 DEF vars, pollVars, pollerVars
<1>8. QED
    BY <1>1, <1>2, <1>4, <1>5, <1>6, <1>7 DEF Next, PollStep

-------------------------------------------------------------------------------
(* Failover. *)

\* One more request passes the position asked and no other.
LEMMA PassedGrows ==
    ASSUME NEW n \in Nat, NEW c \in Nat, c < n, NEW t \in Nat, t < n,
           NEW d, d = IF c + 1 < n THEN c + 1 ELSE 0,
           NEW i \in 0 .. n - 1, i # c, Passed(i, d, t + 1, n)
    PROVE  Passed(i, c, t, n)
<1>1. CASE c + 1 < n
    BY <1>1 DEF Passed
<1>2. CASE ~(c + 1 < n)
    BY <1>2 DEF Passed
<1>3. QED
    BY <1>1, <1>2

\* As many requests as there are monitors pass them all, wherever they begin.
LEMMA AllPassed ==
    ASSUME NEW n \in Nat, NEW c \in Nat, c < n, NEW i \in 0 .. n - 1
    PROVE  Passed(i, c, n, n)
BY DEF Passed

\* No request passes no monitor.
LEMMA NonePassed ==
    ASSUME NEW n \in Nat, NEW c \in Nat, c < n, NEW i \in 0 .. n - 1
    PROVE  ~Passed(i, c, 0, n)
BY DEF Passed

\* A goroutine in a Poll is the only active one, of a started Poller.
LEMMA PollingAlone ==
    ASSUME OnePollLoop, NEW k \in Loops, loop[k] \in {"waiting", "polling"}
    PROVE  /\ started
           /\ \A l \in Loops : loop[l] = "polling" => l = k
BY DEF OnePollLoop, Active

\* A request that fails passes one more monitor, none of them Reliable.
LEMMA FailedAskStep ==
    ASSUME PollInv, NEW l \in Loops, AskFails(l) \/ AskMisfits(l)
    PROVE  FailoverInv'
<1> DEFINE n == Len(monitors)
           t == tried[l]
<1>1. Ask(l) /\ UNCHANGED pollerVars /\ monitors[cur + 1] \notin Reliable
    BY DEF AskFails, AskMisfits, Asked
<1>2. /\ cur \in Nat /\ cur < n /\ monitors' = monitors
      /\ cur' = IF cur + 1 < n THEN cur + 1 ELSE 0
    BY <1>1, AskMoves DEF PollInv, IndexInv
<1>3. loop' = loop /\ loop[l] = "polling"
    BY <1>1 DEF pollerVars, Ask
<1>4. n \in Nat /\ monitors \in Seq(Monitors)
    BY ListLength, MonitorPollAssumption DEF PollInv, IndexInv, MonitorPollAssumption
<1>5. SUFFICES ASSUME SomeReliable
               PROVE  /\ tried'[l] \in Nat
                      /\ tried'[l] < n
                      /\ \A i \in 0 .. n - 1 :
                            Passed(i, cur', tried'[l], n) => monitors[i + 1] \notin Reliable
    BY <1>2, <1>3, PollingAlone DEF PollInv, PollerInv, FailoverInv, SomeReliable
<1>6. /\ t \in Nat /\ t < n
      /\ \A i \in 0 .. n - 1 : Passed(i, cur, t, n) => monitors[i + 1] \notin Reliable
    BY <1>3, <1>5 DEF PollInv, FailoverInv
<1>7. tried'[l] = t + 1
    BY <1>1, <1>4, <1>6 DEF Ask, TriedAtMost, PollInv
<1>8. \A i \in 0 .. n - 1 :
        Passed(i, cur', t + 1, n) => monitors[i + 1] \notin Reliable
    <2>1. ASSUME NEW i \in 0 .. n - 1, Passed(i, cur', t + 1, n), i # cur
          PROVE  monitors[i + 1] \notin Reliable
        <3>1. Passed(i, cur, t, n)
            BY <1>2, <1>4, <1>6, <2>1, PassedGrows
        <3>2. QED
            BY <1>6, <3>1
    <2>2. QED
        BY <1>1, <2>1
<1>9. t + 1 # n
    <2>1. SUFFICES ASSUME t + 1 = n
                   PROVE  FALSE
        OBVIOUS
    <2>2. PICK j \in DOMAIN monitors : monitors[j] \in Reliable
        BY <1>5 DEF SomeReliable
    <2>3. j - 1 \in 0 .. n - 1 /\ (j - 1) + 1 = j
        BY <1>4, <2>2
    <2>4. cur' \in Nat /\ cur' < n
        BY <1>2, <1>4
    <2>5. Passed(j - 1, cur', n, n)
        BY <1>4, <2>3, <2>4, AllPassed
    <2>6. QED
        BY <1>8, <2>1, <2>2, <2>3, <2>5
<1>10. QED
    BY <1>4, <1>6, <1>7, <1>8, <1>9

\* Every step keeps the monitors passed unreliable.
LEMMA FailoverStep == PollInv /\ [Next]_vars => FailoverInv'
<1> SUFFICES ASSUME PollInv, [Next]_vars
             PROVE  FailoverInv'
    OBVIOUS
<1>0. OnePollLoop /\ loop \in [Loops -> LoopState] /\ FailoverInv
    BY DEF PollInv, PollerInv, PollerTypeOK
<1>a. ASSUME UNCHANGED <<monitors, cur, tried>>,
             \A l \in Loops : loop'[l] = "polling" => loop[l] = "polling"
      PROVE  FailoverInv'
    BY <1>0, <1>a DEF FailoverInv, SomeReliable
<1>b. ASSUME \A l \in Loops : loop'[l] # "polling"
      PROVE  FailoverInv'
    BY <1>b DEF FailoverInv
<1>1. CASE StartPolling
    <2>1. \A l \in Loops : loop[l] # "polling"
        BY <1>0, <1>1 DEF StartPolling, Start, MayStart, OnePollLoop, Active
    <2>2. \A l \in Loops : loop'[l] # "polling"
        BY <1>0, <1>1, <2>1 DEF StartPolling, Start
    <2>3. QED
        BY <1>b, <2>2
<1>2. CASE Reconfigure
    BY <1>0, <1>b, <1>2 DEF Reconfigure, SetInterval, OnePollLoop, Active
<1>3. CASE PollerOnly
    <2>1. \A l \in Loops : loop'[l] = "polling" => loop[l] = "polling"
        BY <1>0, <1>3 DEF PollerOnly, Stop, LoopBegin, TimerFires, Handshake, LoopExit
    <2>2. QED
        BY <1>a, <1>3, <2>1 DEF PollerOnly, pollVars
<1>4. ASSUME NEW l \in Loops, PollBegins(l)
      PROVE  FailoverInv'
    <2>1. loop[l] = "waiting" /\ loop' = [loop EXCEPT ![l] = "polling"]
          /\ tried' = [tried EXCEPT ![l] = 0] /\ UNCHANGED <<monitors, cur>>
        BY <1>4 DEF PollBegins, TakeTick
    <2>2. started /\ \A k \in Loops : loop'[k] = "polling" => k = l
        BY <1>0, <2>1, PollingAlone
    <2>3. SUFFICES ASSUME SomeReliable
                   PROVE  /\ tried'[l] \in Nat /\ tried'[l] < Len(monitors)
                          /\ \A i \in 0 .. Len(monitors) - 1 :
                                ~Passed(i, cur, tried'[l], Len(monitors))
        BY <2>1, <2>2 DEF FailoverInv, SomeReliable
    <2>4. Len(monitors) \in Nat /\ monitors # <<>>
        BY <2>3, ListLength DEF PollInv, IndexInv, SomeReliable
    <2>5. cur \in Nat /\ cur < Len(monitors)
        BY <2>2, <2>4 DEF PollInv, IndexInv
    <2>6. tried'[l] = 0
        BY <2>1 DEF PollInv
    <2>7. QED
        BY <2>4, <2>5, <2>6, NonePassed
<1>5. ASSUME NEW l \in Loops, NoMonitors(l)
      PROVE  FailoverInv'
    BY <1>0, <1>a, <1>5 DEF NoMonitors, PollReturns, pollVars
<1>6. ASSUME NEW l \in Loops, AskFails(l) \/ AskMisfits(l)
      PROVE  FailoverInv'
    BY <1>6, FailedAskStep
<1>7. ASSUME NEW l \in Loops, AskSucceeds(l)
      PROVE  FailoverInv'
    <2>1. loop[l] = "polling" /\ loop' = [loop EXCEPT ![l] = "waiting"]
        BY <1>7 DEF AskSucceeds, PollReturns
    <2>2. \A k \in Loops : loop'[k] # "polling"
        BY <1>0, <2>1, PollingAlone
    <2>3. QED
        BY <1>b, <2>2
<1>8. CASE UNCHANGED vars
    BY <1>a, <1>8 DEF vars, pollVars, pollerVars
<1>9. QED
    BY <1>1, <1>2, <1>3, <1>4, <1>5, <1>6, <1>7, <1>8 DEF Next, PollStep

\* triedMonitors only ever counts up from 0.
LEMMA TriedStep ==
    tried \in [Loops -> Nat] /\ monitors \in Lists /\ [Next]_vars
        => tried' \in [Loops -> Nat]
<1> SUFFICES ASSUME tried \in [Loops -> Nat], monitors \in Lists, [Next]_vars
             PROVE  tried' \in [Loops -> Nat]
    OBVIOUS
<1>1. ASSUME NEW l \in Loops, Ask(l)
      PROVE  tried' \in [Loops -> Nat]
    BY <1>1 DEF Ask
<1>2. ASSUME NEW l \in Loops, PollBegins(l)
      PROVE  tried' \in [Loops -> Nat]
    BY <1>2 DEF PollBegins
<1>3. QED
    BY <1>1, <1>2 DEF Next, PollStep, StartPolling, Reconfigure, PollerOnly, NoMonitors,
        AskFails, AskMisfits, AskSucceeds, vars, pollVars

-------------------------------------------------------------------------------
(* What is decoded and published. *)

\* A Poll's object holds monitors' documents only, and so does what is
\* published in the place of the file's.
DocumentInv ==
    /\ object \in [Loops -> SUBSET Versions]
    /\ published = {FileVersion} \/ published \in SUBSET Versions

\* A Poll starts from an empty object and only adds what monitors answer.
LEMMA DocumentStep == DocumentInv /\ [Next]_vars => DocumentInv'
<1> SUFFICES ASSUME DocumentInv, [Next]_vars
             PROVE  DocumentInv'
    OBVIOUS
<1>1. ASSUME NEW l \in Loops, PollBegins(l)
      PROVE  DocumentInv'
    BY <1>1 DEF PollBegins, DocumentInv
<1>2. ASSUME NEW l \in Loops, AskMisfits(l)
      PROVE  DocumentInv'
    BY <1>2 DEF AskMisfits, DocumentInv
<1>3. ASSUME NEW l \in Loops, AskSucceeds(l)
      PROVE  DocumentInv'
    <2>1. PICK document \in Documents(Asked) : published' = object[l] \cup document
        BY <1>3 DEF AskSucceeds, Decoded
    <2>2. document \in SUBSET Versions
        BY <2>1 DEF Documents
    <2>3. UNCHANGED object
        BY <1>3 DEF AskSucceeds
    <2>4. QED
        BY <2>1, <2>2, <2>3 DEF DocumentInv
<1>4. CASE UNCHANGED <<object, published>>
    BY <1>4 DEF DocumentInv
<1>5. QED
    BY <1>1, <1>2, <1>3, <1>4 DEF Next, PollStep, StartPolling, Reconfigure, PollerOnly,
        NoMonitors, AskFails, vars, pollVars

-------------------------------------------------------------------------------
\* The strengthened invariant holds of either IPoller in use.
THEOREM PollInvariant == Spec => []PollInv
<1>1. Init => PollInv
    <2>1. PollerInit => PollerInv
        BY DEF PollerInit, PollerInv, PollerTypeOK, OnePollLoop, TimerReady, Active, LoopState
    <2>2. PollerInit => ~started /\ \A l \in Loops : loop[l] # "polling"
        BY DEF PollerInit
    <2>3. QED
        BY <2>1, <2>2 DEF Init, PollInv, IndexInv, FailoverInv
<1>2. PollInv /\ [Next]_vars => PollInv'
    <2>1. PollInv /\ [Next]_vars => PollerInv'
        BY StepOfPoller, PollerTypeStep, OnePollLoopStep, TimerReadyStep DEF PollInv, PollerInv
    <2>2. QED
        BY <2>1, IndexStep, TriedStep, FailoverStep DEF PollInv, IndexInv
<1>3. QED
    BY <1>1, <1>2, PTL DEF Spec

\* po.Monitors[po.currentMonitor] never panics: whatever lists the reloads
\* bring, a Poll finds the index in range.
THEOREM IndexAlwaysInRange == Spec => []IndexInRange
<1>1. PollInv => IndexInRange
    BY DEF PollInv, PollerInv, OnePollLoop, Active, IndexInv, IndexInRange
<1>2. QED
    BY <1>1, PollInvariant, PTL

\* With one monitor that answers well a Poll asks no monitor twice, for lists
\* of any length and wherever the last Poll left currentMonitor.
THEOREM FailoverAlwaysBounded == Spec => []FailoverBounded
<1>1. PollInv => FailoverBounded
    BY DEF PollInv, FailoverInv, FailoverBounded
<1>2. QED
    BY <1>1, PollInvariant, PTL

\* Reset never interferes with a Poll's own use of currentMonitor.
THEOREM ResetOnlyWhenQuiet == Spec => ResetWhenQuiet
<1>1. PollInv /\ [Next]_vars
        => [cur' # cur => Active(loop) = {} \/ cur' = NextMonitor]_vars
    BY DEF PollInv, PollerInv, OnePollLoop, Next, PollStep, StartPolling, Start, MayStart,
        Reconfigure, PollerOnly, PollBegins, NoMonitors, AskFails, AskMisfits, AskSucceeds,
        Ask, pollVars, vars
<1>2. QED
    BY <1>1, PollInvariant, PTL DEF Spec, ResetWhenQuiet

\* Nothing is stored into the Shared but by the step that ends a Poll.
THEOREM PublishesOnlyAtTheEnd == Spec => PublishEndsPoll
<1>1. ASSUME PollInv, NEW l \in Loops, AskSucceeds(l)
      PROVE  loop[l] = "polling" /\ loop'[l] = "waiting"
    <2>1. loop \in [Loops -> LoopState]
        BY <1>1 DEF PollInv, PollerInv, PollerTypeOK
    <2>2. PollReturns(l)
        BY <1>1 DEF AskSucceeds
    <2>3. QED
        BY <2>1, <2>2 DEF PollReturns
<1>2. ASSUME [Next]_vars, published' # published
      PROVE  \E l \in Loops : AskSucceeds(l)
    BY <1>2 DEF Next, PollStep, StartPolling, Reconfigure, PollerOnly, PollBegins, NoMonitors,
        AskFails, AskMisfits, pollVars, vars
<1>3. PollInv /\ [Next]_vars
        => [published' # published =>
                \E l \in Loops : loop[l] = "polling" /\ loop'[l] = "waiting"]_vars
    BY <1>1, <1>2
<1>4. QED
    BY <1>3, PollInvariant, PTL DEF Spec, PublishEndsPoll

\* The invariant of what is decoded holds of either IPoller.
LEMMA DocumentInvariant == Spec => []DocumentInv
<1>1. Init => DocumentInv
    BY DEF Init, DocumentInv
<1>2. QED
    BY <1>1, DocumentStep, PTL DEF Spec

\* Type correctness of the IPoller's fields, the Polls under way and the cell.
THEOREM TypeCorrect == Spec => []TypeOK
<1>1. PollInv /\ DocumentInv => TypeOK
    BY DEF PollInv, PollerInv, IndexInv, DocumentInv, TypeOK
<1>2. QED
    BY <1>1, PollInvariant, DocumentInvariant, PTL

\* No published document mixes what was read from the file with what a monitor
\* answered.
THEOREM FileIsReplacedAsAWhole == Spec => []FileNeverMixedIn
<1>1. DocumentInv => FileNeverMixedIn
    BY MonitorPollAssumption DEF MonitorPollAssumption, DocumentInv, FileNeverMixedIn
<1>2. QED
    BY <1>1, DocumentInvariant, PTL

-------------------------------------------------------------------------------
(* What the owner and the readers of Shared rely on: PollService. *)

\* The definition of PollState with the three places it tells apart.
LEMMA Places ==
    ASSUME OnePollLoop
    PROVE  /\ PollState = "off" <=> Active(loop) = {}
           /\ PollState = "busy" <=> \E l \in Loops : loop[l] = "polling"
           /\ PollState = "idle" <=>
                /\ Active(loop) # {}
                /\ \A l \in Loops : loop[l] # "polling"
<1>1. ASSUME NEW l \in Loops, loop[l] = "polling"
      PROVE  started
    BY <1>1, PollingAlone
<1>2. CASE ~started
    BY <1>1, <1>2 DEF PollState, OnePollLoop
<1>3. CASE started
    BY <1>3 DEF PollState, OnePollLoop
<1>4. QED
    BY <1>2, <1>3

\* While a loop is active, and none polls, the poller is between two polls.
LEMMA IdleLoop ==
    ASSUME OnePollLoop, NEW l \in Loops, loop[l] \in {"spawned", "waiting"}
    PROVE  PollState = "idle"
<1>1. l \in Active(loop)
    BY DEF Active
<1>2. \A k \in Loops : loop[k] # "polling"
    BY <1>1 DEF Active, OnePollLoop
<1>3. QED
    BY <1>1, <1>2, Places

\* Each step of the Poller that no Poll belongs to leaves the place it is in as
\* it was, but for the one in which a Stop meets its loop.
LEMMA PollerOnlyStep ==
    ASSUME PollInv, PollInv', PollerOnly
    PROVE  \/ PollState' = PollState
           \/ PollState = "idle" /\ PollState' = "off"
<1>0. OnePollLoop /\ OnePollLoop' /\ loop \in [Loops -> LoopState]
    BY DEF PollInv, PollerInv, PollerTypeOK
<1>1. CASE Stop
    BY <1>1 DEF Stop, PollState
<1>2. ASSUME NEW l \in Loops, LoopBegin(l)
      PROVE  PollState' = PollState
    <2>1. loop[l] = "spawned" /\ loop' = [loop EXCEPT ![l] = "waiting"] /\ started' = started
        BY <1>2 DEF LoopBegin
    <2>2. \A k \in Loops : loop'[k] = "polling" <=> loop[k] = "polling"
        BY <1>0, <2>1
    <2>3. QED
        BY <2>1, <2>2 DEF PollState
<1>3. ASSUME NEW l \in Loops, TimerFires(l)
      PROVE  PollState' = PollState
    BY <1>3 DEF TimerFires, PollState
<1>4. ASSUME NEW l \in Loops, Handshake(l)
      PROVE  PollState = "idle" /\ PollState' = "off"
    <2>1. loop[l] = "waiting" /\ ~started'
        BY <1>4 DEF Handshake
    <2>2. PollState = "idle"
        BY <1>0, <2>1, IdleLoop
    <2>3. PollState' = "off"
        BY <2>1 DEF PollState
    <2>4. QED
        BY <2>2, <2>3
<1>5. ASSUME NEW l \in Loops, LoopExit(l)
      PROVE  PollState' = PollState
    <2>1. loop[l] = "exiting" /\ loop' = [loop EXCEPT ![l] = "none"] /\ started' = started
        BY <1>5 DEF LoopExit
    <2>2. \A k \in Loops : loop'[k] = "polling" <=> loop[k] = "polling"
        BY <1>0, <2>1
    <2>3. QED
        BY <2>1, <2>2 DEF PollState
<1>6. QED
    BY <1>1, <1>2, <1>3, <1>4, <1>5 DEF PollerOnly

\* What is published after AskSucceeds is an answer under this list.
LEMMA AnswerOfThisList ==
    ASSUME PollInv, DocumentInv, NEW l \in Loops, AskSucceeds(l)
    PROVE  published' \in MayPublish[monitors]
<1>1. PICK document \in Documents(Asked) : published' = object[l] \cup document
    BY DEF AskSucceeds, Decoded
<1>2. published' \in SUBSET Versions
    BY <1>1 DEF Documents, DocumentInv
<1>3. cur < Len(monitors) /\ cur \in Nat /\ monitors \in Lists
    BY AskMoves DEF AskSucceeds, PollInv, IndexInv
<1>4. monitors # <<>>
    BY <1>3, ListLength
<1>5. QED
    BY <1>2, <1>3, <1>4 DEF MayPublish

\* The initial states and the steps of MonitorPoll are PollService's, or
\* stutters: StartPolling is SwitchOn, Reconfigure is Configure, PollBegins is
\* Begin, the two ways a Poll ends are End, and the meeting of a Stop with its
\* loop is SwitchOff.  A request that fails is a stutter.
THEOREM ImplementsPollService == Spec => PollsAsPromised
<1>1. Init => Service!Init
    BY DEF Init, PollerInit, Service!Init, PollState
<1>2. ASSUME PollInv, PollInv', DocumentInv, [Next]_vars
      PROVE  [Service!Next]_(Service!vars)
    <2>0. OnePollLoop /\ OnePollLoop' /\ loop \in [Loops -> LoopState]
        BY <1>2 DEF PollInv, PollerInv, PollerTypeOK
    <2>a. ASSUME UNCHANGED <<started, loop, monitors, published>>
          PROVE  UNCHANGED Service!vars
        BY <2>a DEF Service!vars, PollState
    <2>1. CASE StartPolling
        <3>1. PICK l \in Loops : loop' = [loop EXCEPT ![l] = "spawned"]
            BY <2>1 DEF StartPolling, Start
        <3>2. PollState = "off"
            BY <2>1 DEF StartPolling, Start, MayStart, PollState
        <3>3. PollState' = "idle"
            <4>1. loop'[l] = "spawned"
                BY <2>0, <3>1
            <4>2. \A k \in Loops : loop'[k] # "polling"
                BY <2>0, <4>1 DEF OnePollLoop, Active
            <4>3. started'
                BY <2>1 DEF StartPolling, Start
            <4>4. QED
                BY <4>2, <4>3 DEF PollState
        <3>4. UNCHANGED <<monitors, published>>
            BY <2>1 DEF StartPolling
        <3>5. QED
            BY <3>2, <3>3, <3>4 DEF Service!Next, Service!SwitchOn
    <2>2. CASE Reconfigure
        <3>1. PollState = "off" /\ PollState' = "off"
            BY <2>2 DEF Reconfigure, SetInterval, PollState
        <3>2. QED
            BY <2>2, <3>1 DEF Reconfigure, Service!Next, Service!Configure
    <2>3. CASE PollerOnly
        <3>1. UNCHANGED <<monitors, published>>
            BY <2>3 DEF PollerOnly, pollVars
        <3>2. \/ PollState' = PollState
              \/ PollState = "idle" /\ PollState' = "off"
            BY <1>2, <2>3, PollerOnlyStep
        <3>3. QED
            BY <3>1, <3>2 DEF Service!Next, Service!SwitchOff, Service!vars
    <2>4. ASSUME NEW l \in Loops, PollBegins(l)
          PROVE  Service!Begin
        <3>1. loop[l] = "waiting" /\ loop' = [loop EXCEPT ![l] = "polling"]
            BY <2>4 DEF PollBegins, TakeTick
        <3>2. PollState = "idle"
            BY <2>0, <3>1, IdleLoop
        <3>3. started' /\ loop'[l] = "polling"
            BY <2>0, <2>4, <3>1, PollingAlone DEF PollBegins, TakeTick
        <3>4. PollState' = "busy"
            BY <3>3 DEF PollState
        <3>5. QED
            BY <2>4, <3>2, <3>4 DEF PollBegins, Service!Begin
    <2>5. ASSUME NEW l \in Loops, PollReturns(l), UNCHANGED monitors,
                 published' \in MayPublish[monitors] \cup {published}
          PROVE  Service!End
        <3>1. loop[l] = "polling" /\ loop' = [loop EXCEPT ![l] = "waiting"]
              /\ started' = started
            BY <2>5 DEF PollReturns
        <3>2. started /\ \A k \in Loops : loop[k] = "polling" => k = l
            BY <2>0, <3>1, PollingAlone
        <3>3. PollState = "busy"
            BY <3>1, <3>2 DEF PollState
        <3>4. PollState' = "idle"
            BY <2>0, <3>1, <3>2 DEF PollState
        <3>5. QED
            BY <2>5, <3>3, <3>4 DEF Service!End
    <2>6. ASSUME NEW l \in Loops, PollStep(l)
          PROVE  [Service!End]_(Service!vars)
        <3>1. CASE NoMonitors(l)
            BY <2>5, <3>1 DEF NoMonitors, pollVars
        <3>2. CASE AskFails(l) \/ AskMisfits(l)
            BY <2>a, <3>2 DEF AskFails, AskMisfits, Ask, pollerVars
        <3>3. CASE AskSucceeds(l)
            BY <1>2, <2>5, <3>3, AnswerOfThisList DEF AskSucceeds, Ask
        <3>4. QED
            BY <2>6, <3>1, <3>2, <3>3 DEF PollStep
    <2>7. CASE UNCHANGED vars
        BY <2>a, <2>7 DEF vars, pollVars, pollerVars
    <2>8. QED
        BY <1>2, <2>1, <2>2, <2>3, <2>4, <2>6, <2>7 DEF Next, Service!Next
<1>3. QED
    BY <1>1, <1>2, PollInvariant, DocumentInvariant, PTL
    DEF Spec, PollsAsPromised, Service!Spec

-------------------------------------------------------------------------------
(* Where the two disagreements with the log messages of poller.go end. *)

\* Each list that names monitors names one that always answers well.
EveryListReliable ==
    \A list \in Lists : list # <<>> => \E i \in DOMAIN list : list[i] \in Reliable

\* A Poll that found nobody to ask has asked nobody.
EmptyInv ==
    monitors = <<>> => \A l \in Loops : loop[l] = "polling" => tried[l] = 0

\* Each step keeps EmptyInv: no Poll is under way when the list changes, and
\* none asks a monitor of the empty list.
LEMMA EmptyStep == PollInv /\ EmptyInv /\ [Next]_vars => EmptyInv'
<1> SUFFICES ASSUME PollInv, EmptyInv, [Next]_vars
             PROVE  EmptyInv'
    OBVIOUS
<1>0. OnePollLoop /\ loop \in [Loops -> LoopState] /\ tried \in [Loops -> Nat]
    BY DEF PollInv, PollerInv, PollerTypeOK
<1>a. ASSUME \A l \in Loops : loop'[l] # "polling"
      PROVE  EmptyInv'
    BY <1>a DEF EmptyInv
<1>b. ASSUME UNCHANGED <<monitors, tried>>,
             \A l \in Loops : loop'[l] = "polling" => loop[l] = "polling"
      PROVE  EmptyInv'
    BY <1>b DEF EmptyInv
<1>1. CASE StartPolling
    <2>1. \A l \in Loops : loop[l] # "polling"
        BY <1>0, <1>1 DEF StartPolling, Start, MayStart, OnePollLoop, Active
    <2>2. QED
        BY <1>0, <1>b, <1>1, <2>1 DEF StartPolling, Start
<1>2. CASE Reconfigure
    BY <1>0, <1>a, <1>2 DEF Reconfigure, SetInterval, OnePollLoop, Active
<1>3. CASE PollerOnly
    <2>1. \A l \in Loops : loop'[l] = "polling" => loop[l] = "polling"
        BY <1>0, <1>3 DEF PollerOnly, Stop, LoopBegin, TimerFires, Handshake, LoopExit
    <2>2. QED
        BY <1>b, <1>3, <2>1 DEF PollerOnly, pollVars
<1>4. ASSUME NEW l \in Loops, PollBegins(l)
      PROVE  EmptyInv'
    <2>1. loop[l] = "waiting" /\ loop' = [loop EXCEPT ![l] = "polling"]
          /\ tried' = [tried EXCEPT ![l] = 0]
        BY <1>4 DEF PollBegins, TakeTick
    <2>2. \A k \in Loops : loop'[k] = "polling" => k = l
        BY <1>0, <2>1, PollingAlone
    <2>3. QED
        BY <1>0, <2>1, <2>2 DEF EmptyInv
<1>5. ASSUME NEW l \in Loops, NoMonitors(l)
      PROVE  EmptyInv'
    BY <1>0, <1>b, <1>5 DEF NoMonitors, PollReturns, pollVars
<1>6. ASSUME NEW l \in Loops, AskFails(l) \/ AskMisfits(l) \/ AskSucceeds(l)
      PROVE  EmptyInv'
    <2>1. Ask(l)
        BY <1>6 DEF AskFails, AskMisfits, AskSucceeds
    <2>2. monitors' # <<>>
        BY <2>1, AskMoves, ListLength DEF PollInv, IndexInv
    <2>3. QED
        BY <2>2 DEF EmptyInv
<1>7. CASE UNCHANGED vars
    BY <1>b, <1>7 DEF vars, pollVars, pollerVars
<1>8. QED
    BY <1>1, <1>2, <1>3, <1>4, <1>5, <1>6, <1>7 DEF Next, PollStep

\* "all monitors failed ... Trying again after interval" is true of a Poll whose
\* every list names a monitor that always answers, or nobody: the run that
\* refutes it needs a list on which all of them may fail.
THEOREM RetriesEndWithAReliableMonitor ==
    EveryListReliable => (Spec => []AllFailedEndsPoll)
<1> SUFFICES ASSUME EveryListReliable
             PROVE  Spec => []AllFailedEndsPoll
    OBVIOUS
<1>1. Init => EmptyInv
    BY DEF Init, PollerInit, EmptyInv
<1>2. ASSUME PollInv, EmptyInv
      PROVE  AllFailedEndsPoll
    <2>1. CASE monitors = <<>>
        BY <1>2, <2>1 DEF EmptyInv, AllFailedEndsPoll
    <2>2. CASE monitors # <<>>
        <3>1. SomeReliable
            BY <1>2, <2>2 DEF EveryListReliable, PollInv, IndexInv, SomeReliable
        <3>2. Len(monitors) \in Nat
            BY <1>2, ListLength DEF PollInv, IndexInv
        <3>3. \A l \in Loops : loop[l] = "polling" => tried[l] \in Nat /\ tried[l] < Len(monitors)
            BY <1>2, <3>1 DEF PollInv, FailoverInv
        <3>4. QED
            BY <3>2, <3>3 DEF AllFailedEndsPoll
    <2>3. QED
        BY <2>1, <2>2
<1>3. QED
    BY <1>1, <1>2, EmptyStep, PollInvariant, PTL DEF Spec

\* An answer decodes in part.
DecodesInPart == \E l \in Loops : AskMisfits(l)

\* Up to the first one the object of a Poll stays empty to the answer that ends
\* it, whatever other requests fail and whichever monitors are asked.
OneAnswerInv ==
    /\ object = [l \in Loops |-> {}]
    /\ PublishedFromOneAnswer

\* No answer is decoded into what another left, if none decodes in part.
LEMMA OneAnswerStep ==
    OneAnswerInv /\ [Next]_vars /\ [~DecodesInPart]_vars => OneAnswerInv'
<1> SUFFICES ASSUME OneAnswerInv, [Next]_vars, [~DecodesInPart]_vars
             PROVE  OneAnswerInv'
    OBVIOUS
<1>1. ASSUME NEW l \in Loops, AskSucceeds(l)
      PROVE  OneAnswerInv'
    <2>1. PICK document \in Documents(Asked) : published' = object[l] \cup document
        BY <1>1 DEF AskSucceeds, Decoded
    <2>2. published' = document /\ object' = object
        BY <1>1, <2>1 DEF OneAnswerInv, AskSucceeds
    <2>3. document = {} \/ \E v \in Versions : document = {v}
        BY DEF Documents
    <2>4. QED
        BY <2>2, <2>3 DEF OneAnswerInv, PublishedFromOneAnswer
<1>2. ASSUME NEW l \in Loops, PollBegins(l)
      PROVE  OneAnswerInv'
    BY <1>2 DEF PollBegins, OneAnswerInv, PublishedFromOneAnswer
<1>3. CASE UNCHANGED <<object, published>>
    BY <1>3 DEF OneAnswerInv, PublishedFromOneAnswer
<1>4. ASSUME NEW l \in Loops, AskMisfits(l)
      PROVE  OneAnswerInv'
    <2>1. CASE DecodesInPart
        BY <1>3, <2>1 DEF vars, pollVars
    <2>2. QED
        BY <1>4, <2>1 DEF DecodesInPart
<1>5. QED
    BY <1>1, <1>2, <1>3, <1>4 DEF Next, PollStep, StartPolling, Reconfigure, PollerOnly,
        NoMonitors, AskFails, vars, pollVars

\* What is published is one answer, as "decoding ... trying next monitor" has it,
\* through any failover, as long as no answer decodes in part: requests may fail,
\* bodies may not be JSON, and currentMonitor may go round the list, but it takes
\* an answer with a field of another type to mix two.
THEOREM AnswersMixOnlyAfterMisfits ==
    Spec /\ [][~DecodesInPart]_vars => []PublishedFromOneAnswer
<1>1. Init => OneAnswerInv
    BY DEF Init, OneAnswerInv, PublishedFromOneAnswer
<1>2. OneAnswerInv => PublishedFromOneAnswer
    BY DEF OneAnswerInv
<1>3. QED
    BY <1>1, <1>2, OneAnswerStep, PTL DEF Spec

\* A poller that has been started asks the monitors it was started with.
MonitorsForLife == [][started => started' /\ monitors' = monitors]_vars

\* With the Stop of poller.go:64, whatever the configuration files say later,
\* the first Start of a poller fixes the monitors it ever asks.
THEOREM MonitorsAreForLife == ~StopSends => (Spec => MonitorsForLife)
<1> SUFFICES ASSUME ~StopSends
             PROVE  Spec => MonitorsForLife
    OBVIOUS
<1>1. [Next]_vars => [started => started' /\ monitors' = monitors]_vars
    <2>1. [Next]_vars => [started => monitors' = monitors]_vars
        BY DEF Next, PollStep, StartPolling, Reconfigure, SetInterval, PollerOnly, PollBegins,
            NoMonitors, AskFails, AskMisfits, AskSucceeds, Ask, pollVars, vars
    <2>2. [PollerNext]_pollerVars => (started => started')
        BY DEF PollerNext, OwnerStep, Start, Stop, SetInterval, LoopStep, LoopBegin,
            TimerFires, TakeTick, PollReturns, Handshake, LoopExit, pollerVars
    <2>3. QED
        BY <2>1, <2>2, StepOfPoller
<1>2. QED
    BY <1>1, PTL DEF Spec, MonitorsForLife
===============================================================================
