------------------------------ MODULE SimPlant ------------------------------
(***************************************************************************)
(* The simulated motor (SimPlant of actuator-plant) and the backdoor       *)
(* through which scenes and test harnesses drive it.                       *)
(*                                                                         *)
(* The plant's mutex is taken once per operation, except by StepSim, which *)
(* takes it three times: unpause, tick, pause.  The physics loop and other *)
(* backdoor clients run between those critical sections.                   *)
(*                                                                         *)
(* Simplifications: position, velocity and current are left out (nothing   *)
(* here depends on them); the temperature is a level an integration may    *)
(* change to any other (StepSim takes any dt, so one integration can cool  *)
(* or heat the motor by any amount); sim time is kept only as the number   *)
(* of integrations since a step began; an indefinite torque (u64::MAX      *)
(* ticks) is never used up.                                                *)
(***************************************************************************)
EXTENDS Integers

CONSTANTS
  Clients,     \* backdoor clients, each with one request outstanding
  Hottest,     \* the level InjectFault(OverTemperature) sets
  Durations,   \* durations of external torques, 0 for indefinite
  Commands     \* motor commands the service applies (any value)

\* What the proofs assume of the parameters.
PlantAssumption == Hottest \in Nat /\ Durations \subseteq Nat

VARIABLES
  temp,         \* PlantState.temperature
  motor,        \* PlantState.commanded_mode and commanded_setpoint
  paused,       \* PlantState.paused
  torque,       \* PlantState.external_torque: is one applied?
  torqueTicks,  \* PlantState.external_torque_ticks, or Indefinite
  step,         \* progress of each client's StepSim request
  lastOp        \* history: the pause-related operation acknowledged last

vars      == <<temp, motor, paused, torque, torqueTicks, step, lastOp>>
plantVars == <<paused, torque, torqueTicks, step, lastOp>>

Indefinite == -1    \* u64::MAX ticks
Levels     == 0 .. Hottest

PlantInit ==
  /\ paused = FALSE
  /\ torque = FALSE /\ torqueTicks = 0
  /\ step = [c \in Clients |-> "none"]
  /\ lastOp = "resume"

Init == PlantInit /\ temp = 0 /\ motor \in Commands

-----------------------------------------------------------------------------
(* SimPlant::tick.                                                         *)

\* Mutants of SpendTorque: the torque outlives its last tick; the counter is
\* decremented at zero too.
SpendTorqueKeeping ==
  /\ torqueTicks' = IF torqueTicks > 0 THEN torqueTicks - 1 ELSE torqueTicks
  /\ UNCHANGED torque
SpendTorqueUnguarded ==
  /\ torqueTicks' = torqueTicks - 1
  /\ torque' = IF torqueTicks = 1 THEN FALSE ELSE torque

\* An external torque is spent tick by tick and cleared by its last one.
SpendTorque ==
  /\ torqueTicks' = IF torqueTicks > 0 THEN torqueTicks - 1 ELSE torqueTicks
  /\ torque' = IF torqueTicks = 1 THEN FALSE ELSE torque

\* Mutant of Integrate: the commanded setpoint does not survive the tick.
IntegrateDropping ==
  /\ ~ paused
  /\ SpendTorque
  /\ temp' \in Levels
  /\ motor' = [mode |-> "Torque", value |-> 0]

Integrate ==
  /\ ~ paused
  /\ SpendTorque
  /\ temp' \in Levels
  /\ UNCHANGED motor

PlantTick ==
  /\ \/ Integrate
     \/ paused /\ UNCHANGED <<temp, motor, torque, torqueTicks>>
  /\ UNCHANGED <<paused, lastOp>>

-----------------------------------------------------------------------------
(* Backdoor requests.                                                      *)

PauseSim(c) ==
  /\ step[c] = "none"
  /\ paused' = TRUE /\ lastOp' = "pause"
  /\ UNCHANGED <<torque, torqueTicks, step, temp, motor>>

\* Mutant of ResumeSim: it toggles the pause instead of ending it.
ToggleSim(c) ==
  /\ step[c] = "none"
  /\ paused' = ~ paused /\ lastOp' = "resume"
  /\ UNCHANGED <<torque, torqueTicks, step, temp, motor>>

ResumeSim(c) ==
  /\ step[c] = "none"
  /\ paused' = FALSE /\ lastOp' = "resume"
  /\ UNCHANGED <<torque, torqueTicks, step, temp, motor>>

ApplyExternalTorque(c, duration) ==
  /\ step[c] = "none"
  /\ torque' \in BOOLEAN
  /\ torqueTicks' = IF duration = 0 THEN Indefinite ELSE duration
  /\ UNCHANGED <<paused, step, lastOp, temp, motor>>

\* OverTemperature; the two other kinds touch only current and velocity.
InjectFault(c) ==
  /\ step[c] = "none"
  /\ temp' = Hottest
  /\ UNCHANGED <<plantVars, motor>>

SetPlantState(c, level) ==
  /\ step[c] = "none"
  /\ temp' = level
  /\ UNCHANGED <<plantVars, motor>>

\* StepSim, critical section by critical section.
StepUnpause(c) ==
  /\ step[c] = "none"
  /\ step' = [step EXCEPT ![c] = "unpaused"]
  /\ paused' = FALSE
  /\ UNCHANGED <<torque, torqueTicks, lastOp, temp, motor>>

StepTick(c) ==
  /\ step[c] = "unpaused"
  /\ step' = [step EXCEPT ![c] = "ticked"]
  /\ PlantTick

StepPause(c) ==
  /\ step[c] = "ticked"
  /\ step' = [step EXCEPT ![c] = "none"]
  /\ paused' = TRUE /\ lastOp' = "step"
  /\ UNCHANGED <<torque, torqueTicks, temp, motor>>

Backdoor ==
  \E c \in Clients :
    \/ PauseSim(c) \/ ResumeSim(c) \/ InjectFault(c)
    \/ \E d \in Durations : ApplyExternalTorque(c, d)
    \/ \E l \in Levels : SetPlantState(c, l)
    \/ StepUnpause(c) \/ StepTick(c) \/ StepPause(c)

\* Hardware::apply_motor_command, called by the service's tick.
ApplyMotorCommand ==
  /\ motor' \in Commands
  /\ UNCHANGED <<plantVars, temp>>

Loop == PlantTick /\ UNCHANGED step

Next == ApplyMotorCommand \/ Loop \/ Backdoor

Spec == Init /\ [][Next]_vars

-----------------------------------------------------------------------------
(* Properties.                                                             *)

PlantTypeOK ==
  /\ temp \in Levels
  /\ paused \in BOOLEAN /\ torque \in BOOLEAN
  /\ torqueTicks \in Nat \cup {Indefinite}
  /\ step \in [Clients -> {"none", "unpaused", "ticked"}]
  /\ lastOp \in {"pause", "resume", "step"}

\* No disturbance outlives its duration: a torque is applied only while
\* ticks of it remain, whichever of the loop and StepSim spends the last.
TorqueHasTicks == torque => torqueTicks # 0

\* With no StepSim in flight the plant runs exactly when the operation
\* acknowledged last is a resume (or none has been).
PauseFollowsLastOp ==
  (\A c \in Clients : step[c] = "none") => (paused <=> lastOp # "resume")

=============================================================================
