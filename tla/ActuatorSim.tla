----------------------------- MODULE ActuatorSim -----------------------------
(***************************************************************************)
(* The simulator process: AppService and SimPlant joined by the tick task  *)
(* of actuator-sim main.rs, which runs the three phases of the service's   *)
(* tick and then one plant tick, for ever, while request and backdoor      *)
(* handlers run on other tasks.                                            *)
(***************************************************************************)
EXTENDS Integers, Sequences

CONSTANTS Angles, Speeds, Torques, Segments, LimitRanges, TempLimits,
          NegInf, Inf,                    \* of ActuatorCore
          Clients, Hottest, Durations     \* of SimPlant

\* What ActuatorCore and SimPlant assume of their parameters.
ASSUME SimAssumption ==
  /\ Hottest \in Nat /\ Durations \subseteq Nat
  /\ Angles \subseteq Int /\ Speeds \subseteq Int /\ Torques \subseteq Int
  /\ TempLimits \subseteq Int /\ NegInf \in Int /\ Inf \in Int
  /\ LimitRanges \subseteq [min : Int, max : Int]
  /\ Segments \subseteq Seq([t : Int, pos : Int])
  /\ \A a \in Angles : NegInf < a /\ a < Inf
  /\ Hottest < Inf

VARIABLES
  mode, setpoint, limits, tempLimit, fault, exec, segment, elapsed, samples,
  phase, sensed, drive, temp, motor, halt,
  paused, torque, torqueTicks, step, lastOp,
  loop      \* which half of the loop body the tick task is in

\* AppService, and the plant that is its Hardware: they share the motor
\* command, which the service writes, and the temperature, which it reads.
Core  == INSTANCE ActuatorCore WITH Temps <- 0 .. Hottest
Plant == INSTANCE SimPlant WITH Commands <- {}

plantVars == <<paused, torque, torqueTicks, step, lastOp>>
coreVars == <<mode, setpoint, limits, tempLimit, fault, exec, segment,
              elapsed, samples, phase, sensed, drive, halt>>
vars     == <<coreVars, temp, motor, plantVars, loop>>

Init == Core!Init /\ Plant!PlantInit /\ temp = 0 /\ loop = "service"

\* Mutant of LoopService: the plant is ticked before the command is applied.
LoopServiceUnapplied ==
  /\ loop = "service"
  /\ Core!Tick
  /\ loop' = IF phase = "sensed" THEN "plant" ELSE loop
  /\ UNCHANGED plantVars

LoopService ==
  /\ loop = "service"
  /\ Core!Tick
  /\ loop' = IF phase = "computed" THEN "plant" ELSE loop
  /\ UNCHANGED plantVars

LoopPlant ==
  /\ loop = "plant"
  /\ Plant!Loop
  /\ loop' = "service"
  /\ UNCHANGED coreVars

Requests == Core!Request /\ UNCHANGED <<plantVars, loop>>

Scene == Plant!Backdoor /\ UNCHANGED <<coreVars, loop>>

Next == LoopService \/ LoopPlant \/ Requests \/ Scene

Spec == Init /\ [][Next]_vars

-----------------------------------------------------------------------------
(* Properties.                                                             *)

\* The simulator implements the actuator: whatever the loop, the clients and
\* the backdoor do, what the service and the motor command show is a
\* behaviour of ActuatorCore, whose invariants therefore hold here too.
ImplementsCore == Core!Spec

\* The doc of SimPlant::tick: the plant integrates after the service has
\* applied the latest setpoint, so a fault latched before the loop's plant
\* tick brakes the motor in that very integration.
PlantSeesBrake == loop = "plant" /\ fault # "None" => motor = Core!Brake

\* The invariants of SimPlant, with the loop's ticks in the order of the loop.
PlantTypeOK == Plant!PlantTypeOK

\* No external torque outlives its duration, whoever spends its ticks.
TorqueHasTicks == Plant!TorqueHasTicks

\* Without a StepSim in flight the plant runs as the last operation says.
PauseFollowsLastOp == Plant!PauseFollowsLastOp
==============================================================================
