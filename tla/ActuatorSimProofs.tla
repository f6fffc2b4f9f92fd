-------------------------- MODULE ActuatorSimProofs --------------------------
(***************************************************************************)
(* The simulator process implements ActuatorCore: the theorems of          *)
(* ActuatorCoreProofs hold of the process as it runs, backdoor included.   *)
(* And the invariants of its plant hold of the process, for any number of  *)
(* backdoor clients.                                                       *)
(***************************************************************************)
EXTENDS ActuatorSim, TLAPS

\* A plant tick, and every backdoor request, is to the control service a
\* change of the motor's temperature or nothing at all.
LEMMA PlantIsEnvironment ==
  ASSUME Plant!Loop \/ Plant!Backdoor, temp \in 0 .. Hottest
  PROVE  temp' \in 0 .. Hottest /\ motor' = motor
<1>1. CASE Plant!PlantTick
  BY <1>1 DEF Plant!PlantTick, Plant!Integrate, Plant!Levels
<1>2. CASE Plant!Backdoor
  BY <1>1, <1>2, SimAssumption
     DEF Plant!Backdoor, Plant!PauseSim, Plant!ResumeSim, Plant!InjectFault,
         Plant!ApplyExternalTorque, Plant!SetPlantState, Plant!StepUnpause,
         Plant!StepTick, Plant!StepPause, Plant!Levels
<1> QED BY <1>1, <1>2 DEF Plant!Loop

\* Every behaviour of the simulator is one of the control service.
THEOREM Implementation == Spec => ImplementsCore
<1> DEFINE TempOK == temp \in 0 .. Hottest
<1>1. Init => Core!Init /\ TempOK
  BY SimAssumption DEF Init
<1>2. TempOK /\ [Next]_vars => [Core!Next]_(Core!vars) /\ TempOK'
  <2> SUFFICES ASSUME TempOK, [Next]_vars
               PROVE  [Core!Next]_(Core!vars) /\ TempOK'
    OBVIOUS
  <2>1. CASE LoopService
    BY <2>1 DEF LoopService, Core!Next, Core!Tick, Core!TickSense,
                Core!TickCompute, Core!TickApply
  <2>2. CASE LoopPlant \/ Scene
    <3>1. temp' \in 0 .. Hottest /\ motor' = motor /\ UNCHANGED coreVars
      BY <2>2, PlantIsEnvironment DEF LoopPlant, Scene
    <3>2. Core!Environment
      BY <3>1 DEF coreVars, Core!Environment, Core!control, Core!tick
    <3> QED BY <3>1, <3>2 DEF Core!Next
  <2>3. CASE Requests
    <3>1. temp' = temp
      BY <2>3 DEF Requests, Core!Request, Core!Direct, Core!SetPosition,
           Core!SetVelocity, Core!SetTorque, Core!SetSoftLimits,
           Core!SetTemperatureLimit, Core!SetControlMode, Core!ClearFault,
           Core!ExecuteTrajectorySegment, Core!Pause, Core!Resume, Core!Abort
    <3> QED BY <2>3, <3>1 DEF Requests, Core!Next
  <2>4. CASE UNCHANGED vars
    BY <2>4 DEF vars, coreVars, Core!vars
  <2> QED BY <2>1, <2>2, <2>3, <2>4 DEF Next
<1> QED BY <1>1, <1>2, PTL DEF Spec, ImplementsCore, Core!Spec

\* When the loop ticks the plant, the service's command has been applied, so
\* a latched fault is braked in the very integration that follows it.  The
\* invariant adds FaultBrakes of the service and that no tick is in progress
\* while the plant integrates.
THEOREM PlantSeesBrakeTheorem == Spec => []PlantSeesBrake
<1> DEFINE Inv == /\ Core!FaultBrakes
                  /\ loop = "plant" => phase = "idle"
<1>1. Init => Inv
  BY DEF Init, Core!Init, Core!FaultBrakes
<1>2. Inv /\ [Next]_vars => Inv'
  <2> SUFFICES ASSUME Inv, [Next]_vars PROVE Inv'
    OBVIOUS
  <2> USE DEF Core!FaultBrakes
  <2>1. CASE LoopService
    <3>1. Core!TickCompute => fault' = "None" \/ drive' = Core!Brake
      BY DEF Core!TickCompute, Core!TickBrake, Core!TickFollow,
             Core!TickSetpoint, Core!Braking
    <3> QED BY <2>1, <3>1 DEF LoopService, Core!Tick, Core!TickSense,
                 Core!TickCompute, Core!TickApply, Core!control
  <2>2. CASE LoopPlant \/ Scene
    <3>1. Plant!PlantTick \/ Plant!Backdoor => motor' = motor
      BY DEF Plant!PlantTick, Plant!Integrate, Plant!Backdoor,
           Plant!PauseSim, Plant!ResumeSim, Plant!InjectFault,
           Plant!ApplyExternalTorque, Plant!SetPlantState,
           Plant!StepUnpause, Plant!StepTick, Plant!StepPause
    <3> QED BY <2>2, <3>1 DEF LoopPlant, Scene, Plant!Loop, coreVars
  <2>3. CASE Requests
    <3>1. UNCHANGED <<phase, drive, motor>> /\ fault' \in {fault, "None"}
      BY <2>3 DEF Requests, Core!Request, Core!Direct, Core!SetPosition,
           Core!SetVelocity, Core!SetTorque, Core!SetSoftLimits,
           Core!SetTemperatureLimit, Core!SetControlMode, Core!ClearFault,
           Core!ExecuteTrajectorySegment, Core!Pause, Core!Resume,
           Core!Abort, Core!tick
    <3> QED BY <2>3, <3>1 DEF Requests
  <2>4. CASE UNCHANGED vars
    BY <2>4 DEF vars, coreVars
  <2> QED BY <2>1, <2>2, <2>3, <2>4 DEF Next
<1>3. Inv => PlantSeesBrake
  BY DEF PlantSeesBrake, Core!FaultBrakes
<1> QED BY <1>1, <1>2, <1>3, PTL DEF Spec

-----------------------------------------------------------------------------
(* The plant of the simulator.                                             *)

\* What one integration leaves of the types and of the external torque.
LEMMA TickEffect ==
  ASSUME Plant!PlantTypeOK, Plant!TorqueHasTicks, Plant!PlantTick
  PROVE  /\ temp' \in Plant!Levels
         /\ torque' \in BOOLEAN /\ torqueTicks' \in Nat \cup {Plant!Indefinite}
         /\ torque' => torqueTicks' # 0
         /\ UNCHANGED <<paused, lastOp>>
<1>1. CASE paused /\ UNCHANGED <<temp, motor, torque, torqueTicks>>
  BY <1>1 DEF Plant!PlantTick, Plant!PlantTypeOK, Plant!TorqueHasTicks
<1>2. CASE Plant!Integrate
  <2>1. /\ torque' \in BOOLEAN /\ torqueTicks' \in Nat \cup {Plant!Indefinite}
        /\ torque' => torqueTicks' # 0
    <3>1. /\ torqueTicks' \in Nat \cup {Plant!Indefinite}
          /\ torqueTicks' = 0 => torqueTicks \in {0, 1}
      BY <1>2
         DEF Plant!Integrate, Plant!SpendTorque, Plant!PlantTypeOK,
             Plant!Indefinite
    <3>2. torque' = FALSE \/ (torqueTicks # 1 /\ torque' = torque)
      BY <1>2, Zenon DEF Plant!Integrate, Plant!SpendTorque
    <3>3. torque \in BOOLEAN /\ (torque => torqueTicks # 0)
      BY DEF Plant!PlantTypeOK, Plant!TorqueHasTicks
    <3>4. CASE torque' = FALSE
      BY <3>1, <3>4
    <3>5. CASE torqueTicks # 1 /\ torque' = torque
      <4>1. torque => torqueTicks' # 0
        BY <3>1, <3>3, <3>5
      <4> QED BY <3>1, <3>3, <3>5, <4>1, Zenon
    <3> QED BY <3>2, <3>4, <3>5
  <2> QED BY <1>2, <2>1 DEF Plant!Integrate, Plant!PlantTick
<1> QED BY <1>1, <1>2 DEF Plant!PlantTick

\* The three invariants are inductive together: Plant!TorqueHasTicks needs the
\* counter's type, Plant!PauseFollowsLastOp needs nothing of the torque.
PlantInv ==
  /\ Plant!PlantTypeOK
  /\ Plant!TorqueHasTicks
  /\ Plant!PauseFollowsLastOp

LEMMA BackdoorStep == PlantInv /\ Plant!Backdoor => PlantInv'
<1> SUFFICES ASSUME PlantInv, NEW c \in Clients,
                    \/ Plant!PauseSim(c) \/ Plant!ResumeSim(c)
                    \/ Plant!InjectFault(c)
                    \/ \E d \in Durations : Plant!ApplyExternalTorque(c, d)
                    \/ \E l \in Plant!Levels : Plant!SetPlantState(c, l)
                    \/ Plant!StepUnpause(c) \/ Plant!StepTick(c)
                    \/ Plant!StepPause(c)
             PROVE  PlantInv'
  BY DEF Plant!Backdoor
<1> USE DEF PlantInv
<1>1. CASE Plant!PauseSim(c) \/ Plant!ResumeSim(c)
  <2>1. Plant!PauseFollowsLastOp'
    <3>1. \/ paused' = TRUE /\ lastOp' = "pause"
          \/ paused' = FALSE /\ lastOp' = "resume"
      BY <1>1 DEF Plant!PauseSim, Plant!ResumeSim
    <3> QED BY <3>1 DEF Plant!PauseFollowsLastOp
  <2>2. paused' \in BOOLEAN /\ lastOp' \in {"pause", "resume", "step"}
    BY <1>1, Zenon DEF Plant!PauseSim, Plant!ResumeSim
  <2>3. UNCHANGED <<temp, torque, torqueTicks, step>>
    BY <1>1 DEF Plant!PauseSim, Plant!ResumeSim
  <2> QED BY <2>1, <2>2, <2>3, Zenon
             DEF Plant!PlantTypeOK, Plant!TorqueHasTicks
<1>2. CASE Plant!InjectFault(c)
        \/ \E l \in Plant!Levels : Plant!SetPlantState(c, l)
  BY <1>2, SimAssumption
     DEF Plant!InjectFault, Plant!SetPlantState, Plant!plantVars,
         Plant!PlantTypeOK, Plant!TorqueHasTicks,
         Plant!PauseFollowsLastOp, Plant!Levels
<1>3. CASE \E d \in Durations : Plant!ApplyExternalTorque(c, d)
  BY <1>3, SimAssumption
     DEF Plant!ApplyExternalTorque, Plant!PlantTypeOK, Plant!TorqueHasTicks,
         Plant!PauseFollowsLastOp, Plant!Indefinite
<1>4. CASE Plant!StepUnpause(c)
  <2>1. step'[c] = "unpaused" /\ step' \in [Clients -> {"none", "unpaused",
                                                        "ticked"}]
    BY <1>4 DEF Plant!StepUnpause, Plant!PlantTypeOK
  <2> QED BY <1>4, <2>1
     DEF Plant!StepUnpause, Plant!PlantTypeOK, Plant!TorqueHasTicks,
         Plant!PauseFollowsLastOp
<1>5. CASE Plant!StepTick(c)
  <2>1. step'[c] = "ticked" /\ step' \in [Clients -> {"none", "unpaused",
                                                      "ticked"}]
    BY <1>5 DEF Plant!StepTick, Plant!PlantTypeOK
  <2> QED BY <1>5, <2>1, TickEffect
     DEF Plant!StepTick, Plant!PlantTypeOK, Plant!TorqueHasTicks,
         Plant!PauseFollowsLastOp
<1>6. CASE Plant!StepPause(c)
  <2>1. step' \in [Clients -> {"none", "unpaused", "ticked"}]
    BY <1>6 DEF Plant!StepPause, Plant!PlantTypeOK
  <2> QED BY <1>6, <2>1
     DEF Plant!StepPause, Plant!PlantTypeOK, Plant!TorqueHasTicks,
         Plant!PauseFollowsLastOp
<1> QED BY <1>1, <1>2, <1>3, <1>4, <1>5, <1>6

\* The plant's own steps keep the plant's invariant, and so do the steps of
\* the service: neither its tick nor a request touches what the plant keeps.
LEMMA PlantInvariant == Spec => []PlantInv
<1>1. Init => PlantInv
  <2>1. Init => temp \in Plant!Levels /\ torqueTicks \in Nat
    BY SimAssumption DEF Init, Plant!PlantInit, Plant!Levels
  <2>2. Init => paused \in BOOLEAN /\ torque \in BOOLEAN
    BY DEF Init, Plant!PlantInit
  <2>3. Init => Plant!PlantTypeOK
    BY <2>1, <2>2, Zenon DEF Init, Plant!PlantInit, Plant!PlantTypeOK
  <2>4. Init => Plant!TorqueHasTicks /\ Plant!PauseFollowsLastOp
    BY DEF Init, Plant!PlantInit, Plant!TorqueHasTicks,
           Plant!PauseFollowsLastOp
  <2> QED BY <2>3, <2>4 DEF PlantInv
<1>2. PlantInv /\ [Next]_vars => PlantInv'
  <2> SUFFICES ASSUME PlantInv, [Next]_vars PROVE PlantInv'
    OBVIOUS
  <2>1. CASE LoopService \/ Requests \/ UNCHANGED vars
    <3>1. UNCHANGED <<temp, plantVars>>
      BY <2>1 DEF LoopService, Core!Tick, Core!TickSense, Core!TickCompute,
           Core!TickApply, Requests, Core!Request, Core!Direct,
           Core!SetPosition, Core!SetVelocity, Core!SetTorque,
           Core!SetSoftLimits, Core!SetTemperatureLimit, Core!SetControlMode,
           Core!ClearFault, Core!ExecuteTrajectorySegment, Core!Pause,
           Core!Resume, Core!Abort, vars
    <3> QED BY <3>1 DEF plantVars, PlantInv, Plant!PlantTypeOK,
                        Plant!TorqueHasTicks, Plant!PauseFollowsLastOp
  <2>2. CASE LoopPlant
    BY <2>2, TickEffect
       DEF LoopPlant, Plant!Loop, PlantInv, Plant!PlantTypeOK,
           Plant!TorqueHasTicks, Plant!PauseFollowsLastOp
  <2> QED BY <2>1, <2>2, BackdoorStep DEF Next, Scene
<1> QED BY <1>1, <1>2, PTL DEF Spec

\* Every variable of the plant keeps its type, for any number of clients,
\* whatever the service commands.
THEOREM PlantTypeCorrect == Spec => []PlantTypeOK
<1>1. PlantInv => PlantTypeOK
  BY DEF PlantInv, PlantTypeOK
<1> QED BY <1>1, PlantInvariant, PTL

\* However the loop's ticks and the steps of the clients share the counter,
\* no external torque outlives the ticks it was given.
THEOREM TorqueHasTicksTheorem == Spec => []TorqueHasTicks
<1>1. PlantInv => TorqueHasTicks
  BY DEF PlantInv, TorqueHasTicks
<1> QED BY <1>1, PlantInvariant, PTL

\* However many StepSim requests overlap, when the last of them is done the
\* plant runs exactly if the operation acknowledged last is a resume.
THEOREM PauseFollowsLastOpTheorem == Spec => []PauseFollowsLastOp
<1>1. PlantInv => PauseFollowsLastOp
  BY DEF PlantInv, PauseFollowsLastOp
<1> QED BY <1>1, PlantInvariant, PTL
==============================================================================
