----------------------------- MODULE MCSidecar -----------------------------
(***************************************************************************)
(* Instances of Sidecar and Watchdog for TLC.  Of the watchdog the         *)
(* handlers know only that intake is disarmed and armed again at any time  *)
(* (SidecarProofs), so a behaviour of the run is one of the handlers or    *)
(* one of the watchdog.                                                    *)
(***************************************************************************)
EXTENDS Sidecar, Watchdog, TLC

CONSTANT Stop   \* of the RPCs the one that, if it is used, is an e-stop
VARIABLE part   \* whose behaviour this is: "handlers" or "watchdog"

ASSUME StopAssumption == Stop \in Rpcs

Handlers == part = "handlers"
Deadman == part = "watchdog"

sidecarVars == <<part, vars, watchdogVars>>

SidecarInit ==
  /\ part \in {"handlers", "watchdog"}
  /\ Init /\ (Handlers \/ (pool = {} /\ moving = {}))
  /\ WatchdogInit

SidecarNext ==
  \/ Handlers /\ Next /\ kind'[Stop] \in {"none", "estop"} /\ UNCHANGED <<part, watchdogVars>>
  \/ Deadman /\ WatchdogNext /\ UNCHANGED <<part, vars>>

\* The fairness of Sidecar and of Watchdog, each in its behaviours.
SidecarSpec ==
  /\ SidecarInit /\ [][SidecarNext]_sidecarVars
  /\ \A r \in Rpcs :
       /\ WF_vars(Handlers /\ Handler(r))
       /\ \A a \in Actuators :
            WF_vars(Handlers /\ Execute(r, a)) /\ WF_vars(Handlers /\ TimeOut(r, a))
  /\ WF_watchdogVars(Deadman /\ Loop) /\ WF_watchdogVars(Deadman /\ TouchArmed)
=============================================================================
