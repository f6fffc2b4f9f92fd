---------------------------- MODULE ActuatorCore ----------------------------
(***************************************************************************)
(* The control state of one smart actuator: AppService of actuator-core.   *)
(*                                                                         *)
(* Requests arrive on any number of connection tasks; each handler takes   *)
(* the control mutex once, so a handler is one action.  The physics loop   *)
(* is a single task whose tick is NOT atomic: it samples the hardware      *)
(* without the mutex, decides under the mutex, and applies the decision    *)
(* to the motor after releasing it.  Requests fall between those phases.   *)
(*                                                                         *)
(* Simplifications: angles, speeds, torques and temperatures are integers; *)
(* time is counted in ticks (every tick of the loop advances a segment by  *)
(* the same dt); of the tracking statistics only the number of samples is  *)
(* kept; the current limit is left out because the code stores it and      *)
(* never reads it.  A handler that refuses changes nothing, so a refusal   *)
(* is the absence of a step.                                               *)
(***************************************************************************)
EXTENDS Integers, Sequences

CONSTANTS
  Angles,       \* position targets clients ask for
  Speeds,       \* velocity targets
  Torques,      \* torque targets
  Segments,     \* trajectory segments: sequences of points [t, pos]
  LimitRanges,  \* soft-limit pairs [min, max] clients set
  TempLimits,   \* temperature limits clients set
  Temps,        \* temperatures the sensor can report
  NegInf, Inf   \* stand for f64::NEG_INFINITY and f64::INFINITY

Point == [t : Int, pos : Int]

ASSUME ValuesAssumption ==
  /\ Angles \subseteq Int /\ Speeds \subseteq Int /\ Torques \subseteq Int
  /\ Temps \subseteq Int /\ TempLimits \subseteq Int
  /\ NegInf \in Int /\ Inf \in Int
  /\ LimitRanges \subseteq [min : Int, max : Int]
ASSUME SegmentsAssumption == Segments \subseteq Seq(Point)
ASSUME InfAssumption ==
  /\ \A a \in Angles : NegInf < a /\ a < Inf
  /\ \A c \in Temps : c < Inf

VARIABLES
  mode,       \* ControlState.mode: "None" or the enforced control mode
  setpoint,   \* ControlState.setpoint: the last commanded setpoint
  limits,     \* SafetyConfig.soft_limit_min / soft_limit_max
  tempLimit,  \* SafetyConfig.temperature_limit
  fault,      \* ControlState.fault: "None" or "OverTemperature"
  exec,       \* TrajectoryExecutor.state
  segment,    \* TrajectoryExecutor.segment; << >> stands for None
  elapsed,    \* TrajectoryExecutor.elapsed_s, in ticks
  samples,    \* TrajectoryExecutor.errors_count
  phase,      \* where the tick task is: "idle", "sensed", "computed"
  sensed,     \* the temperature the current tick has read
  drive,      \* the motor command the current tick has decided
  temp,       \* the temperature of the motor (environment)
  motor,      \* the motor command last applied to the hardware
  halt        \* history variable: how far the last acknowledged abort got

control == <<mode, setpoint, limits, tempLimit, fault, exec, segment,
             elapsed, samples>>
tick    == <<phase, sensed, drive>>
vars    == <<mode, setpoint, limits, tempLimit, fault, exec, segment, elapsed,
             samples, phase, sensed, drive, temp, motor, halt>>

-----------------------------------------------------------------------------
(* Data.                                                                   *)

ControlMode   == {"Position", "Velocity", "Torque"}   \* Impedance is refused
ExecutorState == {"Idle", "Running", "Paused", "Aborted"}
Hold          == [kind |-> "Hold", value |-> 0]
Setpoint      == [kind : ControlMode, value : Int] \cup {Hold}
MotorCommand  == [mode : ControlMode, value : Int]
Brake         == [mode |-> "Velocity", value |-> 0]

\* Mutant of ToHardware: the setpoint itself is handed to the hardware.
ToHardwareUnconverted(sp) == sp

ToHardware(sp) ==
  IF sp = Hold THEN Brake ELSE [mode |-> sp.kind, value |-> sp.value]

InLimits(angle) == limits.min <= angle /\ angle <= limits.max

\* Gate check applied before every direct motion command.
AdmitMotion(requested) ==
  /\ fault = "None"
  /\ mode \in {"None", requested}
  /\ exec # "Running"

\* TrajectorySegment::interpolate returns None once the segment is over ...
Complete(seg, e) == seg = << >> \/ e >= seg[Len(seg)].t

\* ... and otherwise interpolates linearly around the first later point.
Upper(seg, e) ==
  CHOOSE i \in DOMAIN seg :
    seg[i].t > e /\ \A j \in 1 .. (i - 1) : seg[j].t <= e

\* Mutant of Interpolate: the fraction is not relative to the lower point.
InterpolateFromZero(seg, e) ==
  LET upper == Upper(seg, e)
      lo    == seg[upper - 1]
      hi    == seg[upper]
  IN IF upper = 1
       THEN hi.pos
       ELSE lo.pos + ((e * (hi.pos - lo.pos)) \div (hi.t - lo.t))

Interpolate(seg, e) ==
  LET upper == Upper(seg, e)
      lo    == seg[upper - 1]
      hi    == seg[upper]
  IN IF upper = 1
       THEN hi.pos
       ELSE lo.pos + (((e - lo.t) * (hi.pos - lo.pos)) \div (hi.t - lo.t))

-----------------------------------------------------------------------------
Init ==
  /\ mode = "None" /\ setpoint = Hold
  /\ limits = [min |-> NegInf, max |-> Inf] /\ tempLimit = Inf
  /\ fault = "None"
  /\ exec = "Idle" /\ segment = << >> /\ elapsed = 0 /\ samples = 0
  /\ phase = "idle" /\ sensed \in Temps /\ drive = Brake
  /\ temp = sensed
  /\ motor = [mode |-> "Position", value |-> 0]   \* PlantState::default
  /\ halt = "none"

-----------------------------------------------------------------------------
(* Request handlers.                                                       *)

Direct(sp) ==
  /\ AdmitMotion(sp.kind)
  /\ setpoint' = sp
  /\ halt' = "none"
  /\ UNCHANGED <<mode, limits, tempLimit, fault, exec, segment, elapsed,
                 samples, tick, temp, motor>>

SetPosition(angle) ==
  InLimits(angle) /\ Direct([kind |-> "Position", value |-> angle])
SetVelocity(v) == Direct([kind |-> "Velocity", value |-> v])
SetTorque(t)   == Direct([kind |-> "Torque", value |-> t])

SetSoftLimits(range) ==
  /\ range.min < range.max
  /\ limits' = range
  /\ UNCHANGED <<mode, setpoint, tempLimit, fault, exec, segment, elapsed,
                 samples, tick, temp, motor, halt>>

SetTemperatureLimit(max) ==
  /\ tempLimit' = max
  /\ UNCHANGED <<mode, setpoint, limits, fault, exec, segment, elapsed,
                 samples, tick, temp, motor, halt>>

\* Mutant of SetControlMode: the old setpoint survives the mode change.
SetControlModeKeepingSetpoint(m) ==
  /\ exec # "Running"
  /\ mode' = m
  /\ UNCHANGED <<setpoint, limits, tempLimit, fault, exec, segment, elapsed,
                 samples, tick, temp, motor, halt>>

SetControlMode(m) ==
  /\ exec # "Running"
  /\ mode' = m
  /\ setpoint' = Hold
  /\ UNCHANGED <<limits, tempLimit, fault, exec, segment, elapsed, samples,
                 tick, temp, motor, halt>>

ClearFault ==
  /\ fault' = "None"
  /\ UNCHANGED <<mode, setpoint, limits, tempLimit, exec, segment, elapsed,
                 samples, tick, temp, motor, halt>>

\* Mutants of ExecuteTrajectorySegment: the tracking statistics are not
\* reset; a latched fault does not refuse the segment.
ExecuteKeepingSamples(seg) ==
  /\ Len(seg) >= 2
  /\ fault = "None"
  /\ segment' = seg /\ elapsed' = 0 /\ exec' = "Running"
  /\ halt' = "none"
  /\ UNCHANGED <<mode, setpoint, limits, tempLimit, fault, samples, tick,
                 temp, motor>>
ExecuteDespiteFault(seg) ==
  /\ Len(seg) >= 2
  /\ segment' = seg /\ elapsed' = 0 /\ exec' = "Running" /\ samples' = 0
  /\ halt' = "none"
  /\ UNCHANGED <<mode, setpoint, limits, tempLimit, fault, tick, temp, motor>>

\* Neither the mode, nor the soft limits, nor a running segment stop it.
ExecuteTrajectorySegment(seg) ==
  /\ Len(seg) >= 2
  /\ fault = "None"
  /\ segment' = seg /\ elapsed' = 0 /\ exec' = "Running" /\ samples' = 0
  /\ halt' = "none"
  /\ UNCHANGED <<mode, setpoint, limits, tempLimit, fault, tick, temp, motor>>

Pause ==
  /\ exec = "Running"
  /\ exec' = "Paused"
  /\ UNCHANGED <<mode, setpoint, limits, tempLimit, fault, segment, elapsed,
                 samples, tick, temp, motor, halt>>

\* Mutant of Resume: the executor need not be paused.
ResumeAnything ==
  /\ exec' = "Running"
  /\ UNCHANGED <<mode, setpoint, limits, tempLimit, fault, segment, elapsed,
                 samples, tick, temp, motor, halt>>

Resume ==
  /\ exec = "Paused"
  /\ exec' = "Running"
  /\ UNCHANGED <<mode, setpoint, limits, tempLimit, fault, segment, elapsed,
                 samples, tick, temp, motor, halt>>

\* Mutant of Abort: the loop falls back to the setpoint it had.
AbortKeepingSetpoint ==
  /\ exec' = "Aborted"
  /\ halt' = "asked"
  /\ UNCHANGED <<mode, setpoint, limits, tempLimit, fault, segment, elapsed,
                 samples, tick, temp, motor>>

Abort ==
  /\ exec' = "Aborted"
  /\ setpoint' = Hold
  /\ halt' = "asked"
  /\ UNCHANGED <<mode, limits, tempLimit, fault, segment, elapsed, samples,
                 tick, temp, motor>>

-----------------------------------------------------------------------------
(* The physics tick, phase by phase.                                       *)

\* Phase 1: read the hardware, no lock held.
TickSense ==
  /\ phase = "idle"
  /\ phase' = "sensed"
  /\ sensed' = temp
  /\ UNCHANGED <<control, drive, temp, motor, halt>>

Overheated == sensed > tempLimit

\* Phase 2: under the lock, in the code's order: latch the thermal fault,
\* then brake, follow the segment, finish it, or drive to the setpoint.
LatchFault ==
  fault' = IF Overheated /\ fault = "None" THEN "OverTemperature" ELSE fault

\* Mutant of Braking: decided before the fault of this tick is latched.
BrakingOnOldFault == fault # "None"

Braking == fault' # "None"

TickBrake ==
  /\ Braking
  /\ drive' = Brake
  /\ UNCHANGED <<exec, elapsed, samples>>

\* Mutant of TickFollow: the elapsed time of the segment is not advanced.
TickFollowStalled ==
  /\ ~Braking /\ exec = "Running"
  /\ UNCHANGED <<elapsed, samples>>
  /\ IF Complete(segment, elapsed)
       THEN exec' = "Idle" /\ drive' = ToHardware(setpoint)
       ELSE /\ drive' = [mode |-> "Position", value |-> Interpolate(segment, elapsed)]
            /\ UNCHANGED exec

TickFollow ==
  /\ ~Braking /\ exec = "Running"
  /\ elapsed' = elapsed + 1
  /\ IF Complete(segment, elapsed')
       THEN /\ exec' = "Idle"
            /\ drive' = ToHardware(setpoint)
            /\ UNCHANGED samples
       ELSE /\ drive' = [mode |-> "Position",
                         value |-> Interpolate(segment, elapsed')]
            /\ samples' = samples + 1
            /\ UNCHANGED exec

TickSetpoint ==
  /\ ~Braking /\ exec # "Running"
  /\ drive' = ToHardware(setpoint)
  /\ UNCHANGED <<exec, elapsed, samples>>

TickCompute ==
  /\ phase = "sensed"
  /\ phase' = "computed"
  /\ LatchFault
  /\ TickBrake \/ TickFollow \/ TickSetpoint
  /\ UNCHANGED <<mode, setpoint, limits, tempLimit, segment, sensed, temp,
                 motor, halt>>

\* Phase 3: apply_motor_command, no lock held.
TickApply ==
  /\ phase = "computed"
  /\ phase' = "idle"
  /\ motor' = drive
  /\ halt' = CASE halt = "none" -> "none"
               [] halt # "none" /\ drive = Brake -> "effective"
               [] halt = "asked" /\ drive # Brake -> "late"
               [] OTHER -> "overrun"
  /\ UNCHANGED <<control, sensed, drive, temp>>

\* The motor heats up or cools down while the service runs.
Environment ==
  /\ temp' \in Temps
  /\ UNCHANGED <<control, tick, motor, halt>>

-----------------------------------------------------------------------------
Request ==
  \/ \E a \in Angles : SetPosition(a)
  \/ \E v \in Speeds : SetVelocity(v)
  \/ \E t \in Torques : SetTorque(t)
  \/ \E r \in LimitRanges : SetSoftLimits(r)
  \/ \E l \in TempLimits : SetTemperatureLimit(l)
  \/ \E m \in ControlMode : SetControlMode(m)
  \/ ClearFault
  \/ \E s \in Segments : ExecuteTrajectorySegment(s)
  \/ Pause
  \/ Resume
  \/ Abort

Tick == TickSense \/ TickCompute \/ TickApply

Next == Request \/ Tick \/ Environment

Spec == Init /\ [][Next]_vars

\* The tick task is spawned once and loops for ever (actuator-sim main.rs);
\* nothing obliges a client to send anything.
FairSpec == Spec /\ WF_vars(Tick)

-----------------------------------------------------------------------------
(* Properties.                                                             *)

\* Every variable keeps its type.
TypeOK ==
  /\ mode \in ControlMode \cup {"None"}
  /\ setpoint \in Setpoint
  /\ limits \in [min : Int, max : Int]
  /\ tempLimit \in Int
  /\ fault \in {"None", "OverTemperature"}
  /\ exec \in ExecutorState
  /\ segment \in Seq(Point)
  /\ elapsed \in Nat /\ samples \in Nat
  /\ phase \in {"idle", "sensed", "computed"}
  /\ sensed \in Temps /\ temp \in Temps
  /\ drive \in MotorCommand /\ motor \in MotorCommand
  /\ halt \in {"none", "asked", "late", "effective", "overrun"}

\* While a fault is latched the motor is braked: the command waiting to be
\* applied is the brake, and once it has been applied the motor holds it.
\* Requests accepted between the phases of a tick cannot break this.
FaultBrakes ==
  fault # "None" => (IF phase = "computed" THEN drive ELSE motor) = Brake

\* An acknowledged abort lets at most the one motor command through that
\* the tick in flight had already decided; from the next command on the
\* motor is braked until a client commands motion again.
AbortHolds ==
  /\ halt # "overrun"
  /\ halt = "effective" =>
       motor = Brake /\ (phase = "computed" => drive = Brake)

\* Once a control mode is enforced, the setpoint the loop falls back to
\* (when idle, and again when a segment ends or is paused) is of that mode:
\* no setpoint of another mode outlives a change of mode.
SetpointMatchesMode ==
  mode # "None" => setpoint.kind \in {mode, "Hold"}

\* The executor never follows a missing or finished segment: the tick may
\* unwrap the segment, and pausing, faults and resuming leave the elapsed
\* time inside it.
ExecutorInsideSegment ==
  exec \in {"Running", "Paused"} =>
    /\ Len(segment) >= 2
    /\ elapsed > 0 => elapsed < segment[Len(segment)].t

\* Every reference the executor drives to lies between two points of the
\* segment, whatever the order of their times: interpolation never
\* extrapolates.
ReferencesInHull ==
  exec \in {"Running", "Paused"} /\ elapsed > 0 =>
    \E i, j \in DOMAIN segment :
      /\ segment[i].pos <= Interpolate(segment, elapsed)
      /\ Interpolate(segment, elapsed) <= segment[j].pos

\* One tracking sample per followed tick: the samples of the segment being
\* executed are never those of an earlier one, and none is lost or doubled.
SamplesCountTicks ==
  exec \in {"Running", "Paused"} => samples = elapsed

\* A latched fault freezes the trajectory from the very tick that latches
\* it: no step that leaves a fault latched advances, completes or replaces
\* the segment.
FaultFreezesTrajectory ==
  [][fault' # "None" =>
       /\ UNCHANGED <<elapsed, segment, samples>>
       /\ exec' = "Idle" => exec = "Idle"]_vars

\* An acknowledged abort takes effect: the motor is braked, or a client has
\* commanded motion since.
AbortTakesEffect == halt = "asked" ~> halt \in {"effective", "none"}

\* A trajectory does not run for ever: unless clients keep interfering for
\* ever, the executor stops running or sits behind a latched fault.
TrajectoryEnds ==
  \/ []<><<Request>>_vars
  \/ <>[](exec # "Running" \/ fault # "None")
=============================================================================
