----------------------------- MODULE PollerProofs -----------------------------
(***************************************************************************)
(* Proofs about Poller, for any set of goroutine identities, any           *)
(* intervals, and a Stop that receives, as in the source, or sends.        *)
(***************************************************************************)
EXTENDS Poller, TLAPS

\* A loop that waits in its select, or is on its way out of poll, finds its
\* timer running or holding a tick.  The part about waiting loops is what makes
\* DrainNeverBlocks inductive: Handshake turns one into the other.
TimerReady ==
    \A l \in Loops : loop[l] \in {"waiting", "exiting"} => timer[l] # "off"

\* OnePollLoop and DrainNeverBlocks, strengthened to be inductive.
PollerInv ==
    /\ PollerTypeOK
    /\ OnePollLoop
    /\ TimerReady

-------------------------------------------------------------------------------
(* Lemmas about the set of active loops. *)

\* A loop that moves among the states of a loop that polls leaves the set of
\* active loops as it was.
LEMMA ActiveKept ==
    ASSUME NEW l \in Loops, loop \in [Loops -> LoopState],
           NEW s \in LoopState,
           loop[l] \in {"spawned", "waiting", "polling"}
                <=> s \in {"spawned", "waiting", "polling"},
           loop' = [loop EXCEPT ![l] = s]
    PROVE  Active(loop') = Active(loop)
BY DEF Active, LoopState

\* A loop that is started joins the active loops.
LEMMA ActiveGrows ==
    ASSUME NEW l \in Loops, loop \in [Loops -> LoopState],
           loop' = [loop EXCEPT ![l] = "spawned"]
    PROVE  Active(loop') = Active(loop) \cup {l}
BY DEF Active, LoopState

\* A loop that meets a Stop leaves them.
LEMMA ActiveShrinks ==
    ASSUME NEW l \in Loops, loop \in [Loops -> LoopState],
           loop' = [loop EXCEPT ![l] = "exiting"]
    PROVE  Active(loop') = Active(loop) \ {l}
BY DEF Active, LoopState

-------------------------------------------------------------------------------
\* The poller's variables keep their types.
LEMMA PollerTypeStep == PollerTypeOK /\ [PollerNext]_pollerVars => PollerTypeOK'
<1> SUFFICES ASSUME PollerTypeOK, [PollerNext]_pollerVars
             PROVE  PollerTypeOK'
    OBVIOUS
<1> USE DEF PollerTypeOK, LoopState
<1>1. CASE Start
    BY <1>1 DEF Start
<1>2. CASE Stop
    BY <1>2 DEF Stop
<1>3. CASE SetInterval
    BY <1>3 DEF SetInterval
<1>4. ASSUME NEW l \in Loops, LoopBegin(l)
      PROVE  PollerTypeOK'
    BY <1>4 DEF LoopBegin
<1>5. ASSUME NEW l \in Loops, TimerFires(l)
      PROVE  PollerTypeOK'
    BY <1>5 DEF TimerFires
<1>6. ASSUME NEW l \in Loops, TakeTick(l)
      PROVE  PollerTypeOK'
    BY <1>6 DEF TakeTick
<1>7. ASSUME NEW l \in Loops, PollReturns(l)
      PROVE  PollerTypeOK'
    BY <1>7 DEF PollReturns, TimerReset
<1>8. ASSUME NEW l \in Loops, Handshake(l)
      PROVE  PollerTypeOK'
    BY <1>8 DEF Handshake
<1>9. ASSUME NEW l \in Loops, LoopExit(l)
      PROVE  PollerTypeOK'
    BY <1>9 DEF LoopExit
<1>10. CASE UNCHANGED pollerVars
    BY <1>10 DEF pollerVars
<1>11. QED
    BY <1>1, <1>2, <1>3, <1>4, <1>5, <1>6, <1>7, <1>8, <1>9, <1>10
    DEF PollerNext, OwnerStep, LoopStep

\* Every step of the owner or of a loop keeps the number of active loops in
\* agreement with Poller.started.
LEMMA OnePollLoopStep ==
    PollerTypeOK /\ OnePollLoop /\ [PollerNext]_pollerVars => OnePollLoop'
<1> SUFFICES ASSUME PollerTypeOK, OnePollLoop, [PollerNext]_pollerVars
             PROVE  OnePollLoop'
    OBVIOUS
<1>0. loop \in [Loops -> LoopState]
    BY DEF PollerTypeOK
<1>a. ASSUME Active(loop') = Active(loop), started' = started
      PROVE  OnePollLoop'
    BY <1>a DEF OnePollLoop
<1>1. CASE Start
    <2>1. PICK l \in Loops : loop' = [loop EXCEPT ![l] = "spawned"]
        BY <1>1 DEF Start
    <2>2. Active(loop) = {}
        BY <1>1 DEF Start, MayStart, OnePollLoop
    <2>3. Active(loop') = {l}
        BY <1>0, <2>1, <2>2, ActiveGrows
    <2>4. started' = TRUE
        BY <1>1 DEF Start
    <2>5. QED
        BY <2>3, <2>4 DEF OnePollLoop
<1>2. CASE Stop
    BY <1>a, <1>2 DEF Stop
<1>3. CASE SetInterval
    BY <1>a, <1>3 DEF SetInterval
<1>4. ASSUME NEW l \in Loops, LoopBegin(l)
      PROVE  OnePollLoop'
    <2>1. Active(loop') = Active(loop)
        BY <1>0, <1>4, ActiveKept DEF LoopBegin, LoopState
    <2>2. QED
        BY <1>a, <1>4, <2>1 DEF LoopBegin
<1>5. ASSUME NEW l \in Loops, TimerFires(l)
      PROVE  OnePollLoop'
    BY <1>a, <1>5 DEF TimerFires
<1>6. ASSUME NEW l \in Loops, TakeTick(l)
      PROVE  OnePollLoop'
    <2>1. Active(loop') = Active(loop)
        BY <1>0, <1>6, ActiveKept DEF TakeTick, LoopState
    <2>2. QED
        BY <1>a, <1>6, <2>1 DEF TakeTick
<1>7. ASSUME NEW l \in Loops, PollReturns(l)
      PROVE  OnePollLoop'
    <2>1. Active(loop') = Active(loop)
        BY <1>0, <1>7, ActiveKept DEF PollReturns, LoopState
    <2>2. QED
        BY <1>a, <1>7, <2>1 DEF PollReturns
<1>8. ASSUME NEW l \in Loops, Handshake(l)
      PROVE  OnePollLoop'
    <2>1. l \in Active(loop)
        BY <1>8 DEF Handshake, Active
    <2>2. Active(loop) = {l}
        BY <2>1 DEF OnePollLoop
    <2>3. Active(loop') = {}
        BY <1>0, <1>8, <2>2, ActiveShrinks DEF Handshake
    <2>4. started' = FALSE
        BY <1>8 DEF Handshake
    <2>5. QED
        BY <2>3, <2>4 DEF OnePollLoop
<1>9. ASSUME NEW l \in Loops, LoopExit(l)
      PROVE  OnePollLoop'
    <2>1. Active(loop') = Active(loop)
        BY <1>0, <1>9, ActiveKept DEF LoopExit, LoopState
    <2>2. QED
        BY <1>a, <1>9, <2>1 DEF LoopExit
<1>10. CASE UNCHANGED pollerVars
    BY <1>a, <1>10 DEF pollerVars
<1>11. QED
    BY <1>1, <1>2, <1>3, <1>4, <1>5, <1>6, <1>7, <1>8, <1>9, <1>10
    DEF PollerNext, OwnerStep, LoopStep

\* Every step leaves a waiting or exiting loop a timer it need not block on.
LEMMA TimerReadyStep ==
    PollerTypeOK /\ TimerReady /\ [PollerNext]_pollerVars => TimerReady'
<1> SUFFICES ASSUME PollerTypeOK, TimerReady, [PollerNext]_pollerVars
             PROVE  TimerReady'
    OBVIOUS
<1> USE DEF PollerTypeOK, LoopState, TimerReady
<1>1. CASE OwnerStep
    BY <1>1 DEF OwnerStep, Start, Stop, SetInterval
<1>2. ASSUME NEW l \in Loops, LoopBegin(l)
      PROVE  TimerReady'
    BY <1>2 DEF LoopBegin
<1>3. ASSUME NEW l \in Loops, TimerFires(l)
      PROVE  TimerReady'
    BY <1>3 DEF TimerFires
<1>4. ASSUME NEW l \in Loops, TakeTick(l)
      PROVE  TimerReady'
    BY <1>4 DEF TakeTick
<1>5. ASSUME NEW l \in Loops, PollReturns(l)
      PROVE  TimerReady'
    BY <1>5 DEF PollReturns, TimerReset
<1>6. ASSUME NEW l \in Loops, Handshake(l)
      PROVE  TimerReady'
    BY <1>6 DEF Handshake
<1>7. ASSUME NEW l \in Loops, LoopExit(l)
      PROVE  TimerReady'
    BY <1>7 DEF LoopExit
<1>8. CASE UNCHANGED pollerVars
    BY <1>8 DEF pollerVars
<1>9. QED
    BY <1>1, <1>2, <1>3, <1>4, <1>5, <1>6, <1>7, <1>8 DEF PollerNext, LoopStep

-------------------------------------------------------------------------------
\* The strengthened invariant holds of a Poller in use.
THEOREM PollerInvariant == PollerSpec => []PollerInv
<1>1. PollerInit => PollerInv
    BY DEF PollerInit, PollerInv, PollerTypeOK, OnePollLoop, TimerReady, Active, LoopState
<1>2. PollerInv /\ [PollerNext]_pollerVars => PollerInv'
    BY PollerTypeStep, OnePollLoopStep, TimerReadyStep DEF PollerInv
<1>3. QED
    BY <1>1, <1>2, PTL DEF PollerSpec

\* Type correctness of the Poller's fields, its goroutines and their timers.
THEOREM PollerTypeCorrect == PollerSpec => []PollerTypeOK
<1>1. PollerInv => PollerTypeOK
    BY DEF PollerInv
<1>2. QED
    BY <1>1, PollerInvariant, PTL

\* Start and Stop of poller.go never leave two goroutines polling, nor a
\* Poller that says it is started and has none.
THEOREM OneLoopPolls == PollerSpec => []OnePollLoop
<1>1. PollerInv => OnePollLoop
    BY DEF PollerInv
<1>2. QED
    BY <1>1, PollerInvariant, PTL

\* The drain of timer.C at poll's exit never blocks its goroutine for ever.
THEOREM LoopsAlwaysExit == PollerSpec => []DrainNeverBlocks
<1>1. PollerInv => DrainNeverBlocks
    BY DEF PollerInv, TimerReady, DrainNeverBlocks
<1>2. QED
    BY <1>1, PollerInvariant, PTL

-------------------------------------------------------------------------------
(* The Poller as poller.go has it: Stop receives on stopChan. *)

\* A call of Stop that has begun does not return.
StopNeverReturns == [][owner = "stopping" => owner' = "stopping"]_pollerVars

\* A Poller that has been started stays so, with the Interval it was given.
NeverStops == [][started => started' /\ interval' = interval]_pollerVars

\* What poller.go:64 comes to.  Stop and poll both receive, on a channel nobody
\* else has, so that no step of a Poller ever ends a Stop: its caller waits for
\* ever, however many loops there are and whatever they do.  ReloadBlocked shows
\* TLC's trace of it in HotReload, and the owner there is the goroutine that
\* loads certificates and configuration on a SIGHUP.
THEOREM StopBlocksItsCaller == ~StopSends => (PollerSpec => StopNeverReturns)
<1> SUFFICES ASSUME ~StopSends
             PROVE  PollerSpec => StopNeverReturns
    OBVIOUS
<1>1. [PollerNext]_pollerVars
        => [owner = "stopping" => owner' = "stopping"]_pollerVars
    BY DEF PollerNext, OwnerStep, Start, Stop, SetInterval, LoopStep, LoopBegin, TimerFires,
        TakeTick, PollReturns, Handshake, LoopExit, pollerVars
<1>2. QED
    BY <1>1, PTL DEF PollerSpec, StopNeverReturns

\* The other side of the same line: the loop is never told to stop, and since
\* its owner sets Interval only after a Stop that returned, the first Start of a
\* Poller fixes its Interval for the life of the process.
THEOREM NothingStopsThePoller == ~StopSends => (PollerSpec => NeverStops)
<1> SUFFICES ASSUME ~StopSends
             PROVE  PollerSpec => NeverStops
    OBVIOUS
<1>1. [PollerNext]_pollerVars
        => [started => started' /\ interval' = interval]_pollerVars
    BY DEF PollerNext, OwnerStep, Start, MayStart, Stop, SetInterval, LoopStep, LoopBegin,
        TimerFires, TakeTick, PollReturns, Handshake, LoopExit, pollerVars
<1>2. QED
    BY <1>1, PTL DEF PollerSpec, NeverStops
===============================================================================
