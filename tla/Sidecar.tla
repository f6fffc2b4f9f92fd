------------------------------ MODULE Sidecar ------------------------------
(***************************************************************************)
(* The motion, safety and registration handlers of the sidecar's gRPC      *)
(* service, the client pool they share and the actuators behind it.  Every *)
(* handler runs concurrently with the others; what one does between two    *)
(* awaits is a step.                                                       *)
(*                                                                         *)
(* A handler takes the pool's mutex to copy the clients of its targets and *)
(* releases it at once; EStopBroadcaster::broadcast keeps it while it      *)
(* aborts the actuators one after the other.  Calls to actuators time out, *)
(* except those of a broadcast.  A call given up is not undone: its        *)
(* request may still be executed.  An RPC is used once.                    *)
(***************************************************************************)
EXTENDS Naturals

CONSTANTS
  Actuators,    \* actuator ids
  Rpcs,         \* RPCs the Brain makes
  Kinds,        \* the kinds it makes, among AllKinds
  NoRpc         \* nobody holds the pool's mutex

Gated == {"command"}
Starting == {"command", "trajectory", "resume"}
Stopping == {"pause", "abort", "estop"}
Peers == {"register", "deregister"}
AllKinds == Starting \cup Stopping \cup Peers \cup {"limits"}
Results == {"none", "success", "failure", "not_found", "stale", "cancelled"}
Settled == {"ok", "refused", "failed"}

ASSUME SidecarAssumption == NoRpc \notin Rpcs /\ Kinds \subseteq AllKinds

VARIABLES
  pool,     \* ActuatorClientPool: the registered actuators
  lock,     \* who holds the mutex of the pool
  armed,    \* HeartbeatState.armed
  kind,     \* what an RPC asks
  target,   \* the actuators it names
  phase,    \* "unused", "waiting" for the pool, "calling", "done"
  todo,     \* the actuators a broadcast has not reached yet
  call,     \* an RPC's call to an actuator: "none", "sent", "ok", "refused", "failed"
  result,   \* the answer to the RPC
  stray,    \* requests whose caller is gone, which may still be executed
  hung,     \* actuators that neither execute nor answer
  moving,   \* actuators that move
  calm      \* no RPC began since a broadcast that all actuators acknowledged

rpcVars == <<kind, target, phase, todo, call, result>>
plantVars == <<stray, hung, moving>>
vars == <<pool, lock, armed, kind, target, phase, todo, call, result,
          stray, hung, moving, calm>>

Init ==
  /\ pool \in SUBSET Actuators
  /\ lock = NoRpc /\ armed = TRUE /\ calm = FALSE
  /\ kind = [r \in Rpcs |-> "none"]
  /\ target = [r \in Rpcs |-> {}]
  /\ phase = [r \in Rpcs |-> "unused"]
  /\ todo = [r \in Rpcs |-> {}]
  /\ call = [r \in Rpcs |-> [a \in Actuators |-> "none"]]
  /\ result = [r \in Rpcs |-> "none"]
  /\ stray = {} /\ hung = {} /\ moving \in SUBSET Actuators

\* A trajectory names any number of actuators, other RPCs one or, to stop
\* the machine, none.
Targets(k) ==
  CASE k = "trajectory" -> SUBSET Actuators
    [] k = "estop" -> {{}}
    [] OTHER -> {{a} : a \in Actuators}

-----------------------------------------------------------------------------
(* The watchdog: see module Watchdog for when it disarms.                  *)

Heartbeat == armed' = TRUE /\ UNCHANGED <<pool, lock, rpcVars, plantVars, calm>>

WatchdogDisarms == armed' = FALSE /\ UNCHANGED <<pool, lock, rpcVars, plantVars, calm>>

-----------------------------------------------------------------------------
(* Handlers.                                                               *)

Answer(r, res) ==
  /\ phase' = [phase EXCEPT ![r] = "done"]
  /\ result' = [result EXCEPT ![r] = res]

\* A handler starts; send_command alone looks at the watchdog.
Begin(r, k, ts) ==
  /\ phase[r] = "unused"
  /\ kind' = [kind EXCEPT ![r] = k]
  /\ target' = [target EXCEPT ![r] = ts]
  /\ IF k \in Gated /\ ~armed
       THEN Answer(r, "stale")
       ELSE phase' = [phase EXCEPT ![r] = "waiting"] /\ UNCHANGED result
  /\ calm' = FALSE
  /\ UNCHANGED <<pool, lock, armed, todo, call, plantVars>>

\* The handler locks the pool, copies the clients and unlocks it: one
\* unknown actuator and no call is made.
LookUp(r) ==
  /\ phase[r] = "waiting" /\ kind[r] \notin Peers \cup {"estop"}
  /\ lock = NoRpc
  /\ IF target[r] \subseteq pool
       THEN /\ phase' = [phase EXCEPT ![r] = "calling"]
            /\ call' = [call EXCEPT ![r] =
                          [a \in Actuators |-> IF a \in target[r] THEN "sent" ELSE "none"]]
            /\ UNCHANGED result
       ELSE Answer(r, "not_found") /\ UNCHANGED call
  /\ UNCHANGED <<pool, lock, armed, kind, target, todo, plantVars, calm>>

\* Mutant of RegisterPeer: the pool is not locked.
RegisterUnlocked(r) ==
  /\ phase[r] = "waiting" /\ kind[r] = "register"
  /\ pool' = pool \cup target[r]
  /\ Answer(r, "success")
  /\ UNCHANGED <<lock, armed, kind, target, todo, call, plantVars, calm>>

RegisterPeer(r) ==
  /\ phase[r] = "waiting" /\ kind[r] = "register"
  /\ lock = NoRpc
  /\ pool' = pool \cup target[r]
  /\ Answer(r, "success")
  /\ UNCHANGED <<lock, armed, kind, target, todo, call, plantVars, calm>>

DeregisterPeer(r) ==
  /\ phase[r] = "waiting" /\ kind[r] = "deregister"
  /\ lock = NoRpc
  /\ pool' = pool \ target[r]
  /\ Answer(r, IF target[r] \subseteq pool THEN "success" ELSE "failure")
  /\ UNCHANGED <<lock, armed, kind, target, todo, call, plantVars, calm>>

\* All calls of the handler are answered; a trajectory fails if one call did.
Reply(r) ==
  /\ phase[r] = "calling" /\ kind[r] # "estop"
  /\ \A a \in target[r] : call[r][a] \in Settled
  /\ Answer(r, IF \A a \in target[r] : call[r][a] = "ok" THEN "success" ELSE "failure")
  /\ UNCHANGED <<pool, lock, armed, kind, target, todo, call, plantVars, calm>>

\* EStopBroadcaster::broadcast: the pool stays locked from here ...
BroadcastLocks(r) ==
  /\ phase[r] = "waiting" /\ kind[r] = "estop"
  /\ lock = NoRpc /\ lock' = r
  /\ phase' = [phase EXCEPT ![r] = "calling"]
  /\ todo' = [todo EXCEPT ![r] = pool]
  /\ UNCHANGED <<pool, armed, kind, target, call, result, plantVars, calm>>

NoneSent(r) == \A a \in Actuators : call[r][a] # "sent"

\* Mutant of BroadcastCalls: an actuator known to hang is left out.
BroadcastSkips(r, a) ==
  /\ lock = r /\ NoneSent(r)
  /\ a \in todo[r]
  /\ todo' = [todo EXCEPT ![r] = @ \ {a}]
  /\ call' = [call EXCEPT ![r][a] = IF a \in hung THEN "skipped" ELSE "sent"]
  /\ UNCHANGED <<pool, lock, armed, kind, target, phase, result, plantVars, calm>>

\* ... while it calls the actuators one by one, in any order, going on
\* whatever the call before returned ...
BroadcastCalls(r, a) ==
  /\ lock = r /\ NoneSent(r)
  /\ a \in todo[r]
  /\ todo' = [todo EXCEPT ![r] = @ \ {a}]
  /\ call' = [call EXCEPT ![r][a] = "sent"]
  /\ UNCHANGED <<pool, lock, armed, kind, target, phase, result, plantVars, calm>>

\* Mutant of BroadcastDone: the pool stays locked.
BroadcastKeepsLock(r) ==
  /\ lock = r /\ NoneSent(r) /\ todo[r] = {}
  /\ Answer(r, "success")
  /\ calm' = (\A a \in pool : call[r][a] = "ok")
  /\ UNCHANGED <<pool, lock, armed, kind, target, todo, call, plantVars>>

\* ... to here.  e_stop answers success whatever the actuators answered.
BroadcastDone(r) ==
  /\ lock = r /\ NoneSent(r) /\ todo[r] = {}
  /\ lock' = NoRpc
  /\ Answer(r, "success")
  /\ calm' = (\A a \in pool : call[r][a] = "ok")
  /\ UNCHANGED <<pool, armed, kind, target, todo, call, plantVars>>

\* The Brain drops the RPC, or goes away: the server drops the handler, its
\* lock and its calls.
Cancel(r) ==
  /\ phase[r] \in {"waiting", "calling"}
  /\ Answer(r, "cancelled")
  /\ lock' = IF lock = r THEN NoRpc ELSE lock
  /\ call' = [call EXCEPT ![r] = [a \in Actuators |->
                IF call[r][a] = "sent" THEN "failed" ELSE call[r][a]]]
  /\ stray' = stray \cup {<<r, a>> : a \in {x \in Actuators : call[r][x] = "sent"}}
  /\ todo' = [todo EXCEPT ![r] = {}]
  /\ UNCHANGED <<pool, armed, kind, target, hung, moving, calm>>

-----------------------------------------------------------------------------
(* Calls to actuators.                                                     *)

\* What an actuator that accepts a request does: see module ActuatorCore.
Accept(r, a) ==
  moving' = CASE kind[r] \in Starting -> moving \cup {a}
              [] kind[r] \in Stopping -> moving \ {a}
              [] OTHER -> moving

\* An actuator refuses what it finds unsafe, but never an abort.
Refusable(r) == kind[r] \notin {"abort", "estop"}

Execute(r, a) ==
  /\ call[r][a] = "sent" /\ a \notin hung
  /\ \/ call' = [call EXCEPT ![r][a] = "ok"] /\ Accept(r, a)
     \/ Refusable(r) /\ call' = [call EXCEPT ![r][a] = "refused"] /\ UNCHANGED moving
  /\ UNCHANGED <<pool, lock, armed, kind, target, phase, todo, result, stray, hung, calm>>

GiveUp(r, a) ==
  /\ call[r][a] = "sent"
  /\ call' = [call EXCEPT ![r][a] = "failed"]
  /\ stray' = stray \cup {<<r, a>>}
  /\ UNCHANGED <<pool, lock, armed, kind, target, phase, todo, result, hung, moving, calm>>

\* Mutant of TimeOut: single commands alone have a timeout.
TimeOutCommand(r, a) == kind[r] = "command" /\ GiveUp(r, a)

\* tokio::time::timeout of 500 ms, around every call but a broadcast's.
TimeOut(r, a) == kind[r] # "estop" /\ GiveUp(r, a)

\* The connection fails; the request may have gone out.
TransportError(r, a) == GiveUp(r, a)

\* A request whose caller is gone is executed after all, or lost.
ExecuteLate(r, a) ==
  /\ <<r, a>> \in stray
  /\ stray' = stray \ {<<r, a>>}
  /\ \/ a \notin hung /\ Accept(r, a)
     \/ UNCHANGED moving
  /\ UNCHANGED <<pool, lock, armed, rpcVars, hung, calm>>

Hang(a) ==
  /\ hung' = hung \cup {a}
  /\ UNCHANGED <<pool, lock, armed, rpcVars, stray, moving, calm>>

Recover(a) ==
  /\ hung' = hung \ {a}
  /\ UNCHANGED <<pool, lock, armed, rpcVars, stray, moving, calm>>

\* A motion ends by itself.
Arrive(a) ==
  /\ a \in moving /\ moving' = moving \ {a}
  /\ UNCHANGED <<pool, lock, armed, rpcVars, stray, hung, calm>>

-----------------------------------------------------------------------------

Handler(r) ==
  \/ LookUp(r) \/ RegisterPeer(r) \/ DeregisterPeer(r) \/ Reply(r)
  \/ BroadcastLocks(r) \/ BroadcastDone(r)
  \/ \E a \in Actuators : BroadcastCalls(r, a)

Next ==
  \/ Heartbeat \/ WatchdogDisarms
  \/ \E r \in Rpcs :
       \/ \E k \in Kinds : \E ts \in Targets(k) : Begin(r, k, ts)
       \/ Handler(r)
       \/ Cancel(r)
       \/ \E a \in Actuators :
            Execute(r, a) \/ TimeOut(r, a) \/ TransportError(r, a) \/ ExecuteLate(r, a)
  \/ \E a \in Actuators : Hang(a) \/ Recover(a) \/ Arrive(a)

Spec == Init /\ [][Next]_vars

\* Handlers run on, timers expire, and an actuator that is not hung answers.
Fairness ==
  \A r \in Rpcs :
    /\ WF_vars(Handler(r))
    /\ \A a \in Actuators : WF_vars(Execute(r, a)) /\ WF_vars(TimeOut(r, a))

FairSpec == Spec /\ Fairness

-----------------------------------------------------------------------------
(* Properties.                                                             *)

SidecarTypeOK ==
  /\ pool \in SUBSET Actuators
  /\ lock \in Rpcs \cup {NoRpc}
  /\ armed \in BOOLEAN /\ calm \in BOOLEAN
  /\ kind \in [Rpcs -> AllKinds \cup {"none"}]
  /\ target \in [Rpcs -> SUBSET Actuators]
  /\ phase \in [Rpcs -> {"unused", "waiting", "calling", "done"}]
  /\ todo \in [Rpcs -> SUBSET Actuators]
  /\ call \in [Rpcs -> [Actuators -> Settled \cup {"none", "sent"}]]
  /\ result \in [Rpcs -> Results]
  /\ stray \in SUBSET (Rpcs \X Actuators)
  /\ hung \in SUBSET Actuators /\ moving \in SUBSET Actuators

Acknowledges(r) ==
  kind[r] = "estop" /\ phase[r] = "calling" /\ phase'[r] = "done" /\ result'[r] = "success"

\* An e-stop is acknowledged only after it tried every actuator that is
\* registered at that time, one registered while it ran included.
EStopCoversPool ==
  [][\A r \in Rpcs : Acknowledges(r) => \A a \in pool' : call[r][a] \in Settled]_vars

\* The pool is locked exactly while a broadcast runs: no handler that was
\* dropped or has answered keeps it, and none runs without it.
LockedByBroadcast ==
  \A r \in Rpcs : lock = r <=> kind[r] = "estop" /\ phase[r] = "calling"

\* A handler that calls actuators returns even if they hang for ever.
CallsTimeOut ==
  \A r \in Rpcs : phase[r] = "calling" /\ kind[r] # "estop" ~> phase[r] = "done"

\* If every actuator answers eventually every RPC returns: the broadcasts
\* release the pool, whatever the order in which handlers take it.
RpcsReturn ==
  <>[](hung = {}) => \A r \in Rpcs : phase[r] = "waiting" ~> phase[r] = "done"

\* estop.rs: "Send an Abort to every connected actuator."  A broadcast that
\* the Brain does not drop gets to each of them.
BroadcastReachesAll ==
  \A r \in Rpcs : \A a \in Actuators :
    lock = r /\ a \in todo[r] ~> call[r][a] # "none" \/ result[r] = "cancelled"

\* RFD-8: an e-stop is released only by an explicit mode change.  So, once
\* all actuators acknowledged one and nothing was asked since, none starts.
EStopHolds == [][calm /\ calm' => moving' \subseteq moving]_vars
=============================================================================
