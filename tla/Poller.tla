-------------------------------- MODULE Poller --------------------------------
(***************************************************************************)
(* poller/poller.go: the Poller that calls IPoller.Poll every Interval in  *)
(* a goroutine of its own, and the Start and Stop its owner calls.         *)
(*                                                                         *)
(* The owner is one goroutine: main, which then becomes the SIGHUP loop of *)
(* srvsighupreload.  It sets Interval only while the poller is stopped.    *)
(* Poll itself is opaque here: a loop is "polling" until PollReturns.      *)
(* MonitorPoll opens it up, and states fairness and liveness.              *)
(*                                                                         *)
(* The IPoller of a Poller made by MakePoller is never nil, and stopChan   *)
(* exists as soon as a loop or a Stop can use it; neither is a variable.   *)
(***************************************************************************)
EXTENDS Naturals

CONSTANTS
    Loops,      \* identities for the goroutines running poll
    Intervals,  \* the values the configuration gives Interval, 0 for none
    StopSends   \* FALSE: Stop receives on stopChan, as poller.go:64 does.
                \* TRUE: Stop sends, so that poll's own receive can answer it.

ASSUME PollerAssumption ==
    /\ Intervals \subseteq Nat
    /\ StopSends \in BOOLEAN

VARIABLES
    interval,   \* Poller.Interval
    started,    \* Poller.started
    owner,      \* "idle", or "stopping" inside Stop's channel operation
    loop,       \* where each poll goroutine is
    timer       \* each loop's time.Timer; "fired": a tick waits in timer.C

pollerVars == <<interval, started, owner, loop, timer>>

LoopState == {"none", "spawned", "waiting", "polling", "exiting"}

PollerTypeOK ==
    /\ interval \in Intervals
    /\ started \in BOOLEAN
    /\ owner \in {"idle", "stopping"}
    /\ loop \in [Loops -> LoopState]
    /\ timer \in [Loops -> {"off", "armed", "fired"}]

\* The goroutines that have started, or will still start, a Poll.
Active(states) == {l \in Loops : states[l] \in {"spawned", "waiting", "polling"}}

PollerInit ==
    /\ interval \in Intervals
    /\ started = FALSE
    /\ owner = "idle"
    /\ loop = [l \in Loops |-> "none"]
    /\ timer = [l \in Loops |-> "off"]

-------------------------------------------------------------------------------
(* The owner's calls.  A call that returns an error changes nothing. *)

\* Mutant: the ErrAlreadyStarted check is missing.
MayStartAgain == interval # 0

\* Start's early returns: ErrNoPollInterval and ErrAlreadyStarted.
MayStart == interval # 0 /\ ~started

\* Start, where no check fails: go poll(po), a goroutine with no timer yet.
Start ==
    /\ owner = "idle"
    /\ MayStart
    /\ \E l \in Loops :
        /\ loop[l] = "none"
        /\ loop' = [loop EXCEPT ![l] = "spawned"]
    /\ started' = TRUE
    /\ UNCHANGED <<interval, owner, timer>>

\* Mutant: Stop closes stopChan, and returns before the loop has seen it.
StopAtOnce ==
    /\ owner = "idle"
    /\ started
    /\ started' = FALSE
    /\ UNCHANGED <<interval, owner, loop, timer>>

\* Stop on a started poller: the owner blocks on stopChan.  Stop on a stopped
\* one returns ErrNotStarted.
Stop ==
    /\ owner = "idle"
    /\ started
    /\ owner' = "stopping"
    /\ UNCHANGED <<interval, started, loop, timer>>

\* The assignment to Interval by an owner whose Stop has returned.
SetInterval ==
    /\ owner = "idle"
    /\ ~started
    /\ interval' \in Intervals
    /\ UNCHANGED <<started, owner, loop, timer>>

-------------------------------------------------------------------------------
(* The poll goroutine. *)

\* timer := time.NewTimer(po.Interval), the goroutine's first statement.
LoopBegin(l) ==
    /\ loop[l] = "spawned"
    /\ loop' = [loop EXCEPT ![l] = "waiting"]
    /\ timer' = [timer EXCEPT ![l] = "armed"]
    /\ UNCHANGED <<interval, started, owner>>

\* The runtime puts the tick in timer.C.
TimerFires(l) ==
    /\ timer[l] = "armed"
    /\ timer' = [timer EXCEPT ![l] = "fired"]
    /\ UNCHANGED <<interval, started, owner, loop>>

\* case <-timer.C: the loop calls IPoller.Poll.
TakeTick(l) ==
    /\ loop[l] = "waiting"
    /\ timer[l] = "fired"
    /\ loop' = [loop EXCEPT ![l] = "polling"]
    /\ timer' = [timer EXCEPT ![l] = "off"]
    /\ UNCHANGED <<interval, started, owner>>

\* Mutant: the timer is not reset after a Poll.
TimerLeftOff == "off"

\* timer.Reset(po.Interval): the timer runs again.
TimerReset == "armed"

\* Poll returns, the timer is reset and the loop selects again.
PollReturns(l) ==
    /\ loop[l] = "polling"
    /\ loop' = [loop EXCEPT ![l] = "waiting"]
    /\ timer' = [timer EXCEPT ![l] = TimerReset]
    /\ UNCHANGED <<interval, started, owner>>

\* case <-po.stopChan.  An unbuffered channel needs one sender and one
\* receiver; poll receives, so it can meet the owner only if Stop sends.
\* The owner returns from Stop with started = FALSE, the loop has yet to exit.
Handshake(l) ==
    /\ StopSends
    /\ owner = "stopping"
    /\ loop[l] = "waiting"
    /\ owner' = "idle"
    /\ started' = FALSE
    /\ loop' = [loop EXCEPT ![l] = "exiting"]
    /\ UNCHANGED <<interval, timer>>

\* if !timer.Stop() { <-timer.C }; return.  A timer that is neither running
\* nor holding a tick leaves the goroutine blocked on timer.C for ever.
LoopExit(l) ==
    /\ loop[l] = "exiting"
    /\ timer[l] # "off"
    /\ loop' = [loop EXCEPT ![l] = "none"]
    /\ timer' = [timer EXCEPT ![l] = "off"]
    /\ UNCHANGED <<interval, started, owner>>

-------------------------------------------------------------------------------
OwnerStep == Start \/ Stop \/ SetInterval

LoopStep(l) ==
    \/ LoopBegin(l)
    \/ TimerFires(l)
    \/ TakeTick(l)
    \/ PollReturns(l)
    \/ Handshake(l)
    \/ LoopExit(l)

PollerNext == OwnerStep \/ \E l \in Loops : LoopStep(l)

PollerSpec == PollerInit /\ [][PollerNext]_pollerVars

-------------------------------------------------------------------------------
(* Properties. *)

\* A started poller has exactly one goroutine that polls, a stopped one none:
\* Start and Stop, whatever the order of the calls and however long an old
\* loop takes to exit, never leave two loops polling on the same IPoller,
\* whose currentMonitor no lock protects.
OnePollLoop ==
    /\ \A k, l \in Active(loop) : k = l
    /\ started <=> Active(loop) # {}

\* A loop told to stop finds a timer it can stop or a tick it can drain, so
\* that <-timer.C in poll's exit never blocks the goroutine for ever.
DrainNeverBlocks == \A l \in Loops : loop[l] = "exiting" => timer[l] # "off"
===============================================================================
