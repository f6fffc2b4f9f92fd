--------------------------- MODULE SidecarProofs ---------------------------
(***************************************************************************)
(* The watchdog disarms in time and never too early, for every timeout and *)
(* check interval, and is to the handlers what they take it for.  The pool *)
(* is locked exactly while a broadcast runs, and a broadcast that is       *)
(* acknowledged has tried every registered actuator, for any number of     *)
(* actuators and concurrent RPCs, hung actuators and dropped RPCs.         *)
(***************************************************************************)
EXTENDS Sidecar, Watchdog, TLAPS

-----------------------------------------------------------------------------
(* The watchdog. *)

\* While intake is armed, the last heartbeat was in time at the last check,
\* and has aged only as long as the loop has slept since.
AgeInv ==
  /\ check # "sleep" => due = 0
  /\ beat = "stored" => age = 0
  /\ Enabled /\ intake /\ beat = "idle" => age <= Timeout + (Interval - due)

WatchdogInv == WatchdogTypeOK /\ AgeInv

\* Every store and load of a touch and of a check, and every second, keeps it.
LEMMA NextWatchdogInv == WatchdogInv /\ [WatchdogNext]_watchdogVars => WatchdogInv'
<1> SUFFICES ASSUME WatchdogInv, [WatchdogNext]_watchdogVars PROVE WatchdogInv'
  OBVIOUS
<1> USE WatchdogAssumption DEF WatchdogInv, WatchdogTypeOK, AgeInv, Stale
<1>1. CASE TouchLastSeen
  BY <1>1 DEF TouchLastSeen
<1>2. CASE TouchArmed
  BY <1>2 DEF TouchArmed
<1>3. CASE CheckElapsed
  BY <1>3 DEF CheckElapsed, Late
<1>4. CASE CheckArmed
  BY <1>4 DEF CheckArmed
<1>5. CASE Disarm
  <2>1. due' \in 0 .. Interval /\ UNCHANGED <<age, beat>> /\ check' = "sleep"
    BY <1>5 DEF Disarm
  <2>2. ~intake' /\ intake' \in BOOLEAN
    BY <1>5 DEF Disarm
  <2> QED BY <2>1, <2>2
<1>6. CASE Second
  BY <1>6 DEF Second
<1>7. CASE UNCHANGED watchdogVars
  BY <1>7 DEF watchdogVars
<1> QED BY <1>1, <1>2, <1>3, <1>4, <1>5, <1>6, <1>7 DEF WatchdogNext, Loop

\* The ages the watchdog works with are sound in every behaviour.
THEOREM WatchdogInvariant == WatchdogSpec => []WatchdogInv
<1>1. WatchdogInit => WatchdogInv
  BY WatchdogAssumption DEF WatchdogInit, WatchdogInv, WatchdogTypeOK, AgeInv, Stale
<1> QED BY <1>1, NextWatchdogInv, PTL DEF WatchdogSpec

\* Intake is not armed longer than the timeout and one check interval after
\* the last heartbeat.
THEOREM DisarmsInTimeTheorem == WatchdogSpec => []DisarmsInTime
<1>1. WatchdogInv => DisarmsInTime
  BY WatchdogAssumption DEF WatchdogInv, WatchdogTypeOK, AgeInv, DisarmsInTime
<1> QED BY <1>1, WatchdogInvariant, PTL

\* Intake stays armed as long as no heartbeat is older than the timeout:
\* no check then gets past its first comparison.
THEOREM StaysArmedTheorem == WatchdogSpec => StaysArmed
<1> DEFINE InTime == age <= Timeout
           Quiet == intake /\ check = "sleep"
<1>1. WatchdogInit => Quiet
  BY DEF WatchdogInit
<1>2. WatchdogInv /\ InTime /\ Quiet /\ [WatchdogNext]_watchdogVars => Quiet'
  <2> SUFFICES ASSUME WatchdogInv, InTime, Quiet, [WatchdogNext]_watchdogVars PROVE Quiet'
    OBVIOUS
  <2>1. ~Late
    BY WatchdogAssumption DEF Late, WatchdogInv, WatchdogTypeOK, Stale
  <2>2. check' = "sleep"
    BY <2>1 DEF WatchdogNext, Loop, TouchLastSeen, TouchArmed, CheckElapsed, CheckArmed,
                Disarm, Second, watchdogVars
  <2>3. intake' = intake \/ intake' = TRUE
    BY DEF WatchdogNext, Loop, TouchLastSeen, TouchArmed, CheckElapsed, CheckArmed,
           Disarm, Second, watchdogVars
  <2> QED BY <2>2, <2>3
<1>3. Quiet => intake
  OBVIOUS
<1> QED BY <1>1, <1>2, <1>3, WatchdogInvariant, PTL DEF WatchdogSpec, StaysArmed

\* What the watchdog and a heartbeat's touch do to the flag is, to the
\* handlers, a Heartbeat, a WatchdogDisarms or nothing: Sidecar leaves out
\* the time, and no behaviour of the watchdog.
LEMMA WatchdogAsHandlersSeeIt ==
  ASSUME [WatchdogNext]_watchdogVars, armed = intake, armed' = intake',
         UNCHANGED <<pool, lock, rpcVars, plantVars, calm>>
  PROVE  [Heartbeat \/ WatchdogDisarms]_vars
<1>1. intake' = intake \/ intake' = TRUE \/ intake' = FALSE
  BY DEF WatchdogNext, Loop, TouchLastSeen, TouchArmed, CheckElapsed, CheckArmed,
         Disarm, Second, watchdogVars
<1> QED BY <1>1 DEF Heartbeat, WatchdogDisarms, vars, rpcVars, plantVars

-----------------------------------------------------------------------------
(* The handlers and the pool. *)

\* What a running broadcast has not tried yet it still has to do.
Covered ==
  \A r \in Rpcs : lock = r =>
    \A a \in pool : a \in todo[r] \/ call[r][a] \in Settled \cup {"sent"}

SidecarInv == SidecarTypeOK /\ LockedByBroadcast /\ Covered

LEMMA InitSidecarInv == Init => SidecarInv
<1> SUFFICES ASSUME Init PROVE SidecarInv
  OBVIOUS
<1> USE DEF Init
<1>1. SidecarTypeOK
  BY DEF SidecarTypeOK, Results, Settled
<1>2. LockedByBroadcast
  BY SidecarAssumption DEF LockedByBroadcast
<1>3. Covered
  BY SidecarAssumption DEF Covered
<1> QED BY <1>1, <1>2, <1>3 DEF SidecarInv

LEMMA TargetsAreActuators ==
  ASSUME NEW k, NEW ts \in Targets(k) PROVE ts \subseteq Actuators
BY DEF Targets

LEMMA AcceptMoves ==
  ASSUME SidecarTypeOK, NEW r \in Rpcs, NEW a \in Actuators, Accept(r, a)
  PROVE  moving' \subseteq Actuators
BY DEF SidecarTypeOK, Accept

\* Replacing one call.
LEMMA CallUpdate ==
  ASSUME SidecarTypeOK, NEW r \in Rpcs, NEW a \in Actuators,
         NEW v \in Settled \cup {"none", "sent"},
         call' = [call EXCEPT ![r][a] = v]
  PROVE  /\ call' \in [Rpcs -> [Actuators -> Settled \cup {"none", "sent"}]]
         /\ call'[r][a] = v
         /\ \A q \in Rpcs, b \in Actuators :
              q # r \/ b # a => call'[q][b] = call[q][b]
BY DEF SidecarTypeOK

LEMMA CallsStep ==
  ASSUME SidecarInv, NEW r \in Rpcs, NEW a \in Actuators,
         Execute(r, a) \/ TimeOut(r, a) \/ TransportError(r, a)
  PROVE  SidecarInv'
<1> USE DEF SidecarInv
<1>1. CASE Execute(r, a)
  <2>1. PICK v \in {"ok", "refused"} : call' = [call EXCEPT ![r][a] = v]
    BY <1>1 DEF Execute
  <2>2. v \in Settled
    BY DEF Settled
  <2>3. moving' \subseteq Actuators
    BY <1>1, AcceptMoves DEF Execute, SidecarTypeOK
  <2>4. SidecarTypeOK'
    BY <1>1, <2>1, <2>2, <2>3, CallUpdate DEF Execute, SidecarTypeOK
  <2>5. LockedByBroadcast'
    BY <1>1 DEF Execute, LockedByBroadcast
  <2>6. Covered'
    BY <1>1, <2>1, <2>2, CallUpdate DEF Execute, Covered, SidecarTypeOK
  <2> QED BY <2>4, <2>5, <2>6
<1>2. CASE GiveUp(r, a)
  <2>1. "failed" \in Settled
    BY DEF Settled
  <2>2. SidecarTypeOK'
    BY <1>2, <2>1, CallUpdate DEF GiveUp, SidecarTypeOK
  <2>3. LockedByBroadcast'
    BY <1>2 DEF GiveUp, LockedByBroadcast
  <2>4. Covered'
    BY <1>2, <2>1, CallUpdate DEF GiveUp, Covered, SidecarTypeOK
  <2> QED BY <2>2, <2>3, <2>4
<1> QED BY <1>1, <1>2 DEF TimeOut, TransportError

LEMMA BroadcastStep ==
  ASSUME SidecarInv, NEW r \in Rpcs,
         BroadcastLocks(r) \/ BroadcastDone(r) \/ \E a \in Actuators : BroadcastCalls(r, a)
  PROVE  SidecarInv'
<1> USE DEF SidecarInv
<1>1. CASE BroadcastLocks(r)
  <2>1. SidecarTypeOK'
    BY <1>1 DEF BroadcastLocks, plantVars, SidecarTypeOK
  <2>2. LockedByBroadcast'
    BY <1>1, SidecarAssumption DEF BroadcastLocks, LockedByBroadcast, SidecarTypeOK
  <2>3. Covered'
    BY <1>1 DEF BroadcastLocks, Covered, SidecarTypeOK
  <2> QED BY <2>1, <2>2, <2>3
<1>2. CASE BroadcastDone(r)
  <2>1. SidecarTypeOK'
    <3>1. calm' \in BOOLEAN
      BY <1>2 DEF BroadcastDone
    <3> QED BY <1>2, <3>1 DEF BroadcastDone, Answer, Results, plantVars, SidecarTypeOK
  <2>2. LockedByBroadcast'
    BY <1>2, SidecarAssumption DEF BroadcastDone, Answer, LockedByBroadcast, SidecarTypeOK
  <2>3. Covered'
    BY <1>2, SidecarAssumption DEF BroadcastDone, Covered
  <2> QED BY <2>1, <2>2, <2>3
<1>3. ASSUME NEW a \in Actuators, BroadcastCalls(r, a) PROVE SidecarInv'
  <2>1. SidecarTypeOK'
    <3>1. todo' \in [Rpcs -> SUBSET Actuators]
      BY <1>3 DEF BroadcastCalls, SidecarTypeOK
    <3> QED BY <1>3, <3>1, CallUpdate DEF BroadcastCalls, plantVars, SidecarTypeOK
  <2>2. LockedByBroadcast'
    BY <1>3 DEF BroadcastCalls, LockedByBroadcast
  <2>3. Covered'
    <3>1. \A q \in Rpcs : q # r => todo'[q] = todo[q]
      BY <1>3 DEF BroadcastCalls, SidecarTypeOK
    <3>2. todo'[r] = todo[r] \ {a}
      BY <1>3 DEF BroadcastCalls, SidecarTypeOK
    <3> QED BY <1>3, <3>1, <3>2, CallUpdate DEF BroadcastCalls, Covered, SidecarTypeOK
  <2> QED BY <2>1, <2>2, <2>3
<1> QED BY <1>1, <1>2, <1>3

LEMMA CancelStep ==
  ASSUME SidecarInv, NEW r \in Rpcs, Cancel(r)
  PROVE  SidecarInv'
<1> USE DEF SidecarInv, Cancel
<1>1. SidecarTypeOK'
  <2>1. call' \in [Rpcs -> [Actuators -> Settled \cup {"none", "sent"}]]
    BY DEF SidecarTypeOK, Settled
  <2>2. stray' \in SUBSET (Rpcs \X Actuators)
    BY DEF SidecarTypeOK
  <2> QED BY <2>1, <2>2 DEF SidecarTypeOK, Answer, Results, plantVars
<1>2. LockedByBroadcast'
  BY SidecarAssumption DEF SidecarTypeOK, LockedByBroadcast, Answer
<1>3. Covered'
  <2>1. \A q \in Rpcs : q # r => call'[q] = call[q] /\ todo'[q] = todo[q]
    BY DEF SidecarTypeOK
  <2> QED BY <2>1, SidecarAssumption DEF Covered
<1> QED BY <1>1, <1>2, <1>3

LEMMA HandlerStep ==
  ASSUME SidecarInv, NEW r \in Rpcs,
         LookUp(r) \/ RegisterPeer(r) \/ DeregisterPeer(r) \/ Reply(r)
  PROVE  SidecarInv'
<1> USE DEF SidecarInv
<1>1. CASE LookUp(r)
  <2>1. SidecarTypeOK'
    <3>1. call' \in [Rpcs -> [Actuators -> Settled \cup {"none", "sent"}]]
      BY <1>1 DEF LookUp, SidecarTypeOK
    <3>2. phase' \in [Rpcs -> {"unused", "waiting", "calling", "done"}] /\ result' \in [Rpcs -> Results]
      BY <1>1 DEF LookUp, Answer, Results, SidecarTypeOK
    <3> QED BY <1>1, <3>1, <3>2 DEF LookUp, plantVars, SidecarTypeOK
  <2>2. LockedByBroadcast'
    BY <1>1 DEF LookUp, Answer, LockedByBroadcast, SidecarTypeOK
  <2>3. Covered'
    BY <1>1, SidecarAssumption DEF LookUp, Covered
  <2> QED BY <2>1, <2>2, <2>3
<1>2. CASE RegisterPeer(r) \/ DeregisterPeer(r)
  <2>1. SidecarTypeOK'
    BY <1>2 DEF RegisterPeer, DeregisterPeer, Answer, Results, plantVars, SidecarTypeOK
  <2>2. LockedByBroadcast'
    BY <1>2 DEF RegisterPeer, DeregisterPeer, Answer, LockedByBroadcast, SidecarTypeOK
  <2>3. Covered'
    BY <1>2, SidecarAssumption DEF RegisterPeer, DeregisterPeer, Covered
  <2> QED BY <2>1, <2>2, <2>3
<1>3. CASE Reply(r)
  <2>1. SidecarTypeOK'
    BY <1>3 DEF Reply, Answer, Results, plantVars, SidecarTypeOK
  <2>2. LockedByBroadcast'
    BY <1>3 DEF Reply, Answer, LockedByBroadcast, SidecarTypeOK
  <2>3. Covered'
    BY <1>3 DEF Reply, Covered
  <2> QED BY <2>1, <2>2, <2>3
<1> QED BY <1>1, <1>2, <1>3

LEMMA BeginStep ==
  ASSUME SidecarInv, NEW r \in Rpcs, NEW k \in Kinds, NEW ts \in Targets(k), Begin(r, k, ts)
  PROVE  SidecarInv'
<1> USE DEF SidecarInv
<1>1. SidecarTypeOK'
  BY SidecarAssumption, TargetsAreActuators DEF Begin, Answer, Results, plantVars, SidecarTypeOK
<1>2. LockedByBroadcast'
  BY DEF Begin, Answer, LockedByBroadcast, SidecarTypeOK
<1>3. Covered'
  BY DEF Begin, Covered
<1> QED BY <1>1, <1>2, <1>3

\* The steps of the watchdog and of the plant leave RPCs and pool alone.
LEMMA OtherStep ==
  ASSUME SidecarInv,
         \/ Heartbeat \/ WatchdogDisarms
         \/ \E a \in Actuators : Hang(a) \/ Recover(a) \/ Arrive(a)
         \/ \E r \in Rpcs, a \in Actuators : ExecuteLate(r, a)
         \/ UNCHANGED vars
  PROVE  SidecarInv'
<1> USE DEF SidecarInv
<1>1. UNCHANGED <<pool, lock, kind, target, phase, todo, call, result>>
  BY DEF Heartbeat, WatchdogDisarms, Hang, Recover, Arrive, ExecuteLate, vars, rpcVars
<1>2. SidecarTypeOK'
  <2>1. hung' \in SUBSET Actuators /\ armed' \in BOOLEAN /\ calm' \in BOOLEAN
    BY DEF Heartbeat, WatchdogDisarms, Hang, Recover, Arrive, ExecuteLate, vars, plantVars,
           SidecarTypeOK
  <2>2. stray' \in SUBSET (Rpcs \X Actuators)
    BY DEF Heartbeat, WatchdogDisarms, Hang, Recover, Arrive, ExecuteLate, vars, plantVars,
           SidecarTypeOK
  <2>3. moving' \in SUBSET Actuators
    BY AcceptMoves
       DEF Heartbeat, WatchdogDisarms, Hang, Recover, Arrive, ExecuteLate, vars, plantVars,
           SidecarTypeOK
  <2> QED BY <1>1, <2>1, <2>2, <2>3 DEF SidecarTypeOK
<1>3. LockedByBroadcast'
  BY <1>1 DEF LockedByBroadcast
<1>4. Covered'
  BY <1>1 DEF Covered
<1> QED BY <1>2, <1>3, <1>4

LEMMA NextSidecarInv == SidecarInv /\ [Next]_vars => SidecarInv'
<1> SUFFICES ASSUME SidecarInv, [Next]_vars PROVE SidecarInv'
  OBVIOUS
<1>1. ASSUME NEW r \in Rpcs, NEW k \in Kinds, NEW ts \in Targets(k), Begin(r, k, ts)
      PROVE SidecarInv'
  BY <1>1, BeginStep
<1>2. ASSUME NEW r \in Rpcs, Handler(r) PROVE SidecarInv'
  BY <1>2, HandlerStep, BroadcastStep DEF Handler
<1>3. ASSUME NEW r \in Rpcs, Cancel(r) PROVE SidecarInv'
  BY <1>3, CancelStep
<1>4. ASSUME NEW r \in Rpcs, NEW a \in Actuators,
             Execute(r, a) \/ TimeOut(r, a) \/ TransportError(r, a)
      PROVE SidecarInv'
  BY <1>4, CallsStep
<1> QED BY <1>1, <1>2, <1>3, <1>4, OtherStep DEF Next

THEOREM SidecarInvariant == Spec => []SidecarInv
BY InitSidecarInv, NextSidecarInv, PTL DEF Spec

\* The variables have their types.
THEOREM SidecarTypeTheorem == Spec => []SidecarTypeOK
<1>1. SidecarInv => SidecarTypeOK
  BY DEF SidecarInv
<1> QED BY <1>1, SidecarInvariant, PTL

\* The pool is locked exactly while a broadcast runs.
THEOREM LockedByBroadcastTheorem == Spec => []LockedByBroadcast
<1>1. SidecarInv => LockedByBroadcast
  BY DEF SidecarInv
<1> QED BY <1>1, SidecarInvariant, PTL

\* A broadcast is acknowledged by BroadcastDone alone.
LEMMA AcknowledgedByDone ==
  ASSUME SidecarInv, [Next]_vars, NEW r \in Rpcs, Acknowledges(r)
  PROVE  BroadcastDone(r)
<1> USE DEF Acknowledges, SidecarInv
<1>1. ASSUME NEW q \in Rpcs, q # r, Handler(q) \/ Cancel(q) PROVE phase'[r] = phase[r]
  BY <1>1
     DEF Handler, LookUp, RegisterPeer, DeregisterPeer, Reply, BroadcastLocks, BroadcastDone,
         BroadcastCalls, Cancel, Answer, SidecarTypeOK
<1>2. ASSUME NEW q \in Rpcs, NEW k \in Kinds, NEW ts \in Targets(k), Begin(q, k, ts)
      PROVE FALSE
  BY <1>2 DEF Begin, Answer, SidecarTypeOK
<1>3. ASSUME NEW q \in Rpcs, NEW a \in Actuators,
             Execute(q, a) \/ TimeOut(q, a) \/ TransportError(q, a) \/ ExecuteLate(q, a)
      PROVE FALSE
  BY <1>3 DEF Execute, TimeOut, TransportError, GiveUp, ExecuteLate, rpcVars
<1>4. ASSUME \/ Heartbeat \/ WatchdogDisarms \/ UNCHANGED vars
             \/ \E a \in Actuators : Hang(a) \/ Recover(a) \/ Arrive(a)
      PROVE FALSE
  BY <1>4 DEF Heartbeat, WatchdogDisarms, Hang, Recover, Arrive, rpcVars, vars
<1>5. ~Cancel(r)
  BY DEF Cancel, Answer, SidecarTypeOK
<1>6. ASSUME Handler(r) PROVE BroadcastDone(r)
  <2>1. phase[r] = "calling" /\ kind[r] = "estop" /\ phase'[r] = "done"
    OBVIOUS
  <2>2. ~LookUp(r) /\ ~RegisterPeer(r) /\ ~DeregisterPeer(r) /\ ~Reply(r) /\ ~BroadcastLocks(r)
    BY <2>1 DEF LookUp, RegisterPeer, DeregisterPeer, Reply, BroadcastLocks
  <2>3. \A a \in Actuators : ~BroadcastCalls(r, a)
    BY <2>1 DEF BroadcastCalls
  <2> QED BY <1>6, <2>2, <2>3 DEF Handler
<1> QED BY <1>1, <1>2, <1>3, <1>4, <1>5, <1>6 DEF Next

\* An e-stop is acknowledged only after every registered actuator was tried.
THEOREM EStopCoversPoolTheorem == Spec => EStopCoversPool
<1> DEFINE Tried ==
      \A r \in Rpcs : Acknowledges(r) => \A a \in pool' : call[r][a] \in Settled
<1>1. SidecarInv /\ [Next]_vars => [Tried]_vars
  <2> SUFFICES ASSUME SidecarInv, [Next]_vars, NEW r \in Rpcs, Acknowledges(r),
                      NEW a \in pool'
               PROVE  call[r][a] \in Settled
    OBVIOUS
  <2>1. BroadcastDone(r)
    BY AcknowledgedByDone
  <2>2. a \in pool /\ a \in Actuators
    BY <2>1 DEF BroadcastDone, SidecarInv, SidecarTypeOK
  <2>3. a \notin todo[r] /\ call[r][a] # "sent"
    BY <2>1, <2>2 DEF BroadcastDone, NoneSent
  <2> QED BY <2>1, <2>2, <2>3 DEF BroadcastDone, SidecarInv, Covered
<1> QED BY <1>1, SidecarInvariant, PTL DEF Spec, EStopCoversPool
=============================================================================
