------------------------- MODULE ActuatorCoreProofs -------------------------
(***************************************************************************)
(* Theorems about ActuatorCore, for every set of targets, segments, limits *)
(* and temperatures.                                                       *)
(***************************************************************************)
EXTENDS ActuatorCore, WellFoundedInduction, TLAPS

-----------------------------------------------------------------------------
(* Interpolation.                                                          *)

Below == {ss \in Nat \X Nat : ss[1] < ss[2]}

\* Every non-empty set of naturals has a least element.
LEMMA LeastElement ==
  ASSUME NEW T \in SUBSET Nat, T # {}
  PROVE  \E x \in T : \A y \in T : x <= y
<1>1. IsWellFoundedOn(Below, Nat)
  BY NatLessThanWellFounded DEF OpToRel, Below
<1>2. PICK x \in T : \A y \in T : ~ (<<y, x>> \in Below)
  BY <1>1, WFMin
<1>3. ASSUME NEW y \in T PROVE x <= y
  <2>1. x \in Nat /\ y \in Nat /\ <<y, x>> \in Nat \X Nat
    OBVIOUS
  <2>2. ~ (y < x)
    BY <1>2, <2>1 DEF Below
  <2> QED BY <2>1, <2>2
<1> QED BY <1>3

\* The points of a segment have integer times and positions.
LEMMA PointsTyped ==
  ASSUME NEW seg \in Seq(Point), NEW i \in DOMAIN seg
  PROVE  seg[i].t \in Int /\ seg[i].pos \in Int
<1>1. seg[i] \in Point
  OBVIOUS
<1> QED BY <1>1 DEF Point

\* Before the last point's time there is a first point later than e, so the
\* index that interpolate looks up exists.
LEMMA UpperExists ==
  ASSUME NEW seg \in Seq(Point), NEW e \in Int, ~ Complete(seg, e)
  PROVE  /\ Upper(seg, e) \in DOMAIN seg
         /\ seg[Upper(seg, e)].t > e
         /\ \A j \in 1 .. (Upper(seg, e) - 1) : seg[j].t <= e
<1> DEFINE Later == {i \in DOMAIN seg : seg[i].t > e}
<1>1. Len(seg) \in Nat /\ DOMAIN seg = 1 .. Len(seg) /\ seg # << >>
  BY DEF Complete
<1>2. Len(seg) \in DOMAIN seg
  BY <1>1
<1>3. \A i \in DOMAIN seg : seg[i].t \in Int
  BY PointsTyped
<1>4. Len(seg) \in Later
  BY <1>2, <1>3 DEF Complete
<1>5. Later \in SUBSET Nat
  BY <1>1
<1>6. PICK i \in Later : \A y \in Later : i <= y
  BY <1>4, <1>5, LeastElement
<1>7. \A j \in 1 .. (i - 1) : seg[j].t <= e
  BY <1>1, <1>3, <1>6
<1> QED BY <1>6, <1>7 DEF Upper

\* A fraction below one of a distance stays between zero and the distance.
LEMMA FractionBounds ==
  ASSUME NEW k \in Nat, NEW n \in Int, k < n, NEW d \in Int
  PROVE  /\ (k * d) \div n \in Int
         /\ d >= 0 => 0 <= (k * d) \div n /\ (k * d) \div n <= d
         /\ d <= 0 => d <= (k * d) \div n /\ (k * d) \div n <= 0
<1> DEFINE q == (k * d) \div n
<1>1. k * d \in Int /\ n > 0
  OBVIOUS
<1>2. q \in Int /\ n * q <= k * d /\ k * d < n * q + n
  BY <1>1
<1> HIDE DEF q
<1>3. ASSUME d >= 0 PROVE 0 <= q /\ q <= d
  <2>1. k * d >= 0 /\ k * d <= n * d
    BY <1>3
  <2>2. q >= 0
    BY <1>1, <1>2, <2>1, SMTT(20)
  <2>3. q <= d
    BY <1>1, <1>2, <1>3, <2>1, SMTT(20)
  <2> QED BY <2>2, <2>3
<1>4. ASSUME d <= 0 PROVE d <= q /\ q <= 0
  <2>1. k * d <= 0 /\ n * d <= k * d
    BY <1>4
  <2>2. q <= 0
    BY <1>1, <1>2, <2>1, SMTT(20)
  <2>3. d <= q
    BY <1>1, <1>2, <1>4, <2>1, SMTT(20)
  <2> QED BY <2>2, <2>3
<1> QED BY <1>2, <1>3, <1>4 DEF q

\* Interpolation lies between two points of the segment, whatever the order
\* of the points' times.
LEMMA InterpolateInHull ==
  ASSUME NEW seg \in Seq(Point), NEW e \in Int, ~ Complete(seg, e)
  PROVE  /\ Interpolate(seg, e) \in Int
         /\ \E i, j \in DOMAIN seg : /\ seg[i].pos <= Interpolate(seg, e)
                                     /\ Interpolate(seg, e) <= seg[j].pos
<1> DEFINE u == Upper(seg, e)
<1>1. /\ u \in DOMAIN seg /\ seg[u].t > e
      /\ \A j \in 1 .. (u - 1) : seg[j].t <= e
  BY UpperExists
<1>2. \A i \in DOMAIN seg : seg[i].t \in Int /\ seg[i].pos \in Int
  BY PointsTyped
<1>3. Len(seg) \in Nat /\ DOMAIN seg = 1 .. Len(seg)
  OBVIOUS
<1>4. CASE u = 1
  <2>1. Interpolate(seg, e) = seg[u].pos
    BY <1>4 DEF Interpolate
  <2> QED BY <1>1, <1>2, <2>1
<1>5. CASE u # 1
  <2> DEFINE k == e - seg[u - 1].t
             n == seg[u].t - seg[u - 1].t
             d == seg[u].pos - seg[u - 1].pos
             q == (k * d) \div n
  <2>1. u - 1 \in DOMAIN seg /\ seg[u - 1].t <= e
    BY <1>1, <1>3, <1>5
  <2>2. k \in Nat /\ n \in Int /\ k < n /\ d \in Int
    BY <1>1, <1>2, <2>1
  <2>3. Interpolate(seg, e) = seg[u - 1].pos + q
    BY <1>5 DEF Interpolate
  <2>4. /\ q \in Int
        /\ d >= 0 => 0 <= q /\ q <= d
        /\ d <= 0 => d <= q /\ q <= 0
    <3> HIDE DEF k, n, d
    <3> QED BY <2>2, FractionBounds
  <2> HIDE DEF q
  <2>5. seg[u].pos \in Int /\ seg[u - 1].pos \in Int
    BY <1>1, <1>2, <2>1
  <2>6. Interpolate(seg, e) \in Int
    BY <2>3, <2>4, <2>5
  <2>7. CASE d >= 0
    <3>1. /\ seg[u - 1].pos <= Interpolate(seg, e)
          /\ Interpolate(seg, e) <= seg[u].pos
      BY <2>3, <2>4, <2>5, <2>7
    <3> QED BY <1>1, <2>1, <2>6, <3>1
  <2>8. CASE d <= 0
    <3>1. /\ seg[u].pos <= Interpolate(seg, e)
          /\ Interpolate(seg, e) <= seg[u - 1].pos
      BY <2>3, <2>4, <2>5, <2>8
    <3> QED BY <1>1, <2>1, <2>6, <3>1
  <2> QED BY <2>2, <2>7, <2>8
<1> QED BY <1>4, <1>5

-----------------------------------------------------------------------------
(* Type correctness.                                                       *)

\* The motor command of every setpoint is well formed.
LEMMA ToHardwareType ==
  ASSUME NEW sp \in Setpoint
  PROVE  ToHardware(sp) \in MotorCommand
BY DEF ToHardware, Setpoint, MotorCommand, Brake, Hold, ControlMode

\* Init establishes the types.
LEMMA InitTypeOK == Init => TypeOK
BY ValuesAssumption
   DEF Init, TypeOK, Setpoint, Hold, MotorCommand, Brake, ControlMode,
       ExecutorState

\* Every request handler keeps the types.
LEMMA RequestTypeOK == TypeOK /\ Request => TypeOK'
<1> SUFFICES ASSUME TypeOK, Request PROVE TypeOK'
  OBVIOUS
<1> USE DEF TypeOK, tick
<1>1. ASSUME NEW sp \in [kind : ControlMode, value : Int], Direct(sp)
      PROVE  TypeOK'
  BY <1>1 DEF Direct, Setpoint
<1>2. ASSUME NEW a \in Angles, SetPosition(a) PROVE TypeOK'
  <2>1. [kind |-> "Position", value |-> a] \in [kind : ControlMode, value : Int]
    BY ValuesAssumption DEF ControlMode
  <2> QED BY <1>1, <1>2, <2>1 DEF SetPosition
<1>3. ASSUME NEW v \in Speeds, SetVelocity(v) PROVE TypeOK'
  <2>1. [kind |-> "Velocity", value |-> v] \in [kind : ControlMode, value : Int]
    BY ValuesAssumption DEF ControlMode
  <2> QED BY <1>1, <1>3, <2>1 DEF SetVelocity
<1>4. ASSUME NEW t \in Torques, SetTorque(t) PROVE TypeOK'
  <2>1. [kind |-> "Torque", value |-> t] \in [kind : ControlMode, value : Int]
    BY ValuesAssumption DEF ControlMode
  <2> QED BY <1>1, <1>4, <2>1 DEF SetTorque
<1>5. ASSUME NEW r \in LimitRanges, SetSoftLimits(r) PROVE TypeOK'
  <2>1. r \in [min : Int, max : Int]
    BY ValuesAssumption
  <2> QED BY <1>5, <2>1 DEF SetSoftLimits
<1>6. ASSUME NEW l \in TempLimits, SetTemperatureLimit(l) PROVE TypeOK'
  BY <1>6, ValuesAssumption DEF SetTemperatureLimit
<1>7. ASSUME NEW m \in ControlMode, SetControlMode(m) PROVE TypeOK'
  BY <1>7 DEF SetControlMode, Setpoint
<1>8. ASSUME NEW s \in Segments, ExecuteTrajectorySegment(s) PROVE TypeOK'
  BY <1>8, SegmentsAssumption DEF ExecuteTrajectorySegment, ExecutorState
<1>9. CASE ClearFault
  BY <1>9 DEF ClearFault
<1>10. CASE Pause
  BY <1>10 DEF Pause, ExecutorState
<1>11. CASE Resume
  BY <1>11 DEF Resume, ExecutorState
<1>12. CASE Abort
  BY <1>12 DEF Abort, ExecutorState, Setpoint
<1> QED
  BY <1>2, <1>3, <1>4, <1>5, <1>6, <1>7, <1>8, <1>9, <1>10, <1>11, <1>12
     DEF Request

\* Every phase of the tick keeps the types.
LEMMA TickTypeOK == TypeOK /\ Tick => TypeOK'
<1> SUFFICES ASSUME TypeOK, Tick PROVE TypeOK'
  OBVIOUS
<1> USE DEF TypeOK, control
<1>1. CASE TickSense
  BY <1>1 DEF TickSense
<1>2. CASE TickCompute
  <2>1. fault' \in {"None", "OverTemperature"}
    BY <1>2 DEF TickCompute, LatchFault
  <2>2. ToHardware(setpoint) \in MotorCommand
    BY ToHardwareType
  <2>3. CASE TickBrake
    BY <1>2, <2>1, <2>3 DEF TickCompute, TickBrake, Brake, MotorCommand, ControlMode
  <2>4. CASE TickSetpoint
    BY <1>2, <2>1, <2>2, <2>4 DEF TickCompute, TickSetpoint
  <2>5. CASE TickFollow /\ Complete(segment, elapsed')
    BY <1>2, <2>1, <2>2, <2>5 DEF TickCompute, TickFollow, ExecutorState
  <2>6. CASE TickFollow /\ ~ Complete(segment, elapsed')
    <3>1. elapsed' = elapsed + 1 /\ elapsed + 1 \in Nat /\ samples + 1 \in Nat
      BY <2>6 DEF TickFollow
    <3>2. Interpolate(segment, elapsed + 1) \in Int
      BY <2>6, <3>1, InterpolateInHull
    <3>3. drive' \in MotorCommand
      BY <2>6, <3>1, <3>2 DEF TickFollow, MotorCommand, ControlMode
    <3> QED BY <1>2, <2>1, <2>6, <3>1, <3>3 DEF TickCompute, TickFollow
  <2> QED BY <1>2, <2>3, <2>4, <2>5, <2>6 DEF TickCompute
<1>3. CASE TickApply
  BY <1>3 DEF TickApply
<1> QED BY <1>1, <1>2, <1>3 DEF Tick

\* Every variable keeps its type: the handlers of service.rs, its tick and
\* the environment store only well-formed values.
THEOREM TypeCorrect == Spec => []TypeOK
<1>1. TypeOK /\ [Next]_vars => TypeOK'
  <2>1. TypeOK /\ Environment => TypeOK'
    BY DEF TypeOK, Environment, control, tick
  <2>2. TypeOK /\ UNCHANGED vars => TypeOK'
    BY DEF TypeOK, vars
  <2> QED BY <2>1, <2>2, RequestTypeOK, TickTypeOK DEF Next
<1> QED BY <1>1, InitTypeOK, PTL DEF Spec

-----------------------------------------------------------------------------
(* A latched fault brakes the motor.                                       *)

\* A tick either brakes or has latched no fault.
LEMMA ComputeOutcome ==
  TickCompute => fault' = "None" \/ drive' = Brake
BY DEF TickCompute, TickBrake, TickFollow, TickSetpoint, Braking

\* FaultBrakes is inductive as it stands: only TickCompute latches a fault,
\* and it decides the brake in the same critical section.
LEMMA FaultBrakesStep == FaultBrakes /\ [Next]_vars => FaultBrakes'
<1> SUFFICES ASSUME FaultBrakes, [Next]_vars PROVE FaultBrakes'
  OBVIOUS
<1> USE DEF FaultBrakes
<1>1. CASE Request
  <2>1. UNCHANGED <<phase, drive, motor>> /\ fault' \in {fault, "None"}
    BY <1>1 DEF Request, SetPosition, SetVelocity, SetTorque, Direct,
       SetSoftLimits, SetTemperatureLimit, SetControlMode, ClearFault,
       ExecuteTrajectorySegment, Pause, Resume, Abort, tick
  <2> QED BY <2>1
<1>2. CASE TickSense
  BY <1>2 DEF TickSense, control
<1>3. CASE TickCompute
  BY <1>3, ComputeOutcome DEF TickCompute
<1>4. CASE TickApply
  BY <1>4 DEF TickApply, control
<1>5. CASE Environment
  BY <1>5 DEF Environment, control, tick
<1>6. CASE UNCHANGED vars
  BY <1>6 DEF vars
<1> QED BY <1>1, <1>2, <1>3, <1>4, <1>5, <1>6 DEF Next, Tick

\* From the tick that latches a fault until ClearFault, the command about to
\* be applied, or the one applied last, is the brake.
THEOREM FaultBrakesTheorem == Spec => []FaultBrakes
<1>1. Init => FaultBrakes
  BY DEF Init, FaultBrakes
<1> QED BY <1>1, FaultBrakesStep, PTL DEF Spec

-----------------------------------------------------------------------------
(* An abort takes hold after at most one command.                          *)

\* The inductive strengthening of AbortHolds: while an abort is pending or
\* in force the executor is aborted and the setpoint is Hold, so every tick
\* that starts now decides the brake; and after the one late command the
\* next command in flight is the brake.
AbortInv ==
  /\ halt # "overrun"
  /\ halt # "none" => exec = "Aborted" /\ setpoint = Hold
  /\ halt = "late" => (phase = "computed" => drive = Brake)
  /\ halt = "effective" => motor = Brake /\ (phase = "computed" => drive = Brake)

\* An acknowledged abort lets at most one decided command through; then the
\* motor stays braked until a client commands motion again.
THEOREM AbortHoldsTheorem == Spec => []AbortHolds
<1>1. Init => AbortInv
  BY DEF Init, AbortInv
<1>2. TypeOK /\ AbortInv /\ [Next]_vars => AbortInv'
  <2> SUFFICES ASSUME TypeOK, AbortInv, [Next]_vars PROVE AbortInv'
    OBVIOUS
  <2> USE DEF AbortInv
  <2>1. CASE Request
    <3>1. UNCHANGED <<phase, drive, motor>>
      BY <2>1 DEF Request, SetPosition, SetVelocity, SetTorque, Direct,
         SetSoftLimits, SetTemperatureLimit, SetControlMode, ClearFault,
         ExecuteTrajectorySegment, Pause, Resume, Abort, tick
    <3>2. \/ halt' = "none"
          \/ halt' = "asked" /\ exec' = "Aborted" /\ setpoint' = Hold
          \/ halt' = halt /\ exec' = exec /\ setpoint' \in {setpoint, Hold}
          \/ halt' = halt /\ exec # "Aborted"
      BY <2>1 DEF Request, SetPosition, SetVelocity, SetTorque, Direct,
         SetSoftLimits, SetTemperatureLimit, SetControlMode, ClearFault,
         ExecuteTrajectorySegment, Pause, Resume, Abort
    <3> QED BY <3>1, <3>2 DEF TypeOK
  <2>2. CASE TickSense
    BY <2>2 DEF TickSense, control
  <2>3. CASE TickCompute
    <3>1. UNCHANGED <<halt, motor, setpoint>>
      BY <2>3 DEF TickCompute
    <3>2. CASE halt = "none"
      BY <3>1, <3>2
    <3>3. CASE halt # "none"
      <4>1. exec = "Aborted" /\ exec' = "Aborted" /\ drive' = Brake
        BY <2>3, <3>3 DEF TickCompute, TickBrake, TickFollow, TickSetpoint,
           ToHardware
      <4> QED BY <3>1, <4>1
    <3> QED BY <3>2, <3>3
  <2>4. CASE TickApply
    <3>1. halt \in {"none", "asked", "late", "effective"}
      BY DEF TypeOK
    <3> QED BY <2>4, <3>1 DEF TickApply, control
  <2>5. CASE Environment
    BY <2>5 DEF Environment, control, tick
  <2>6. CASE UNCHANGED vars
    BY <2>6 DEF vars
  <2> QED BY <2>1, <2>2, <2>3, <2>4, <2>5, <2>6 DEF Next, Tick
<1>3. AbortInv => AbortHolds
  BY DEF AbortInv, AbortHolds
<1> QED BY <1>1, <1>2, <1>3, TypeCorrect, PTL DEF Spec

-----------------------------------------------------------------------------
(* The executor and the setpoint.                                          *)

\* No setpoint of another control mode outlives a change of mode.
THEOREM SetpointMatchesModeTheorem == Spec => []SetpointMatchesMode
<1>1. Init => SetpointMatchesMode
  BY DEF Init, SetpointMatchesMode
<1>2. SetpointMatchesMode /\ [Next]_vars => SetpointMatchesMode'
  <2> SUFFICES ASSUME SetpointMatchesMode, [Next]_vars
               PROVE  SetpointMatchesMode'
    OBVIOUS
  <2> USE DEF SetpointMatchesMode
  <2>1. ASSUME NEW sp, Direct(sp) PROVE SetpointMatchesMode'
    BY <2>1 DEF Direct, AdmitMotion
  <2>2. ASSUME NEW m, SetControlMode(m) PROVE SetpointMatchesMode'
    BY <2>2 DEF SetControlMode, Hold
  <2>3. CASE Abort
    BY <2>3 DEF Abort, Hold
  <2>4. CASE UNCHANGED <<mode, setpoint>>
    BY <2>4
  <2>5. Request =>
          \/ \E sp : Direct(sp)
          \/ \E m : SetControlMode(m)
          \/ Abort
          \/ UNCHANGED <<mode, setpoint>>
    BY DEF Request, SetPosition, SetVelocity, SetTorque, SetSoftLimits,
       SetTemperatureLimit, ClearFault, ExecuteTrajectorySegment, Pause, Resume
  <2>6. Tick \/ Environment \/ UNCHANGED vars => UNCHANGED <<mode, setpoint>>
    BY DEF Tick, TickSense, TickCompute, TickApply, Environment, vars, control
  <2> QED BY <2>1, <2>2, <2>3, <2>4, <2>5, <2>6 DEF Next
<1> QED BY <1>1, <1>2, PTL DEF Spec

\* The executor's own invariant: inside its segment, one sample per tick.
ExecutorInv == ExecutorInsideSegment /\ SamplesCountTicks

\* Every step keeps the executor inside its segment with its samples in
\* step; only TickFollow advances it.
LEMMA ExecutorStep == TypeOK /\ ExecutorInv /\ [Next]_vars => ExecutorInv'
<1> SUFFICES ASSUME TypeOK, ExecutorInv, [Next]_vars PROVE ExecutorInv'
  OBVIOUS
<1> USE DEF ExecutorInv, ExecutorInsideSegment, SamplesCountTicks
<1>1. CASE /\ UNCHANGED <<segment, elapsed, samples>>
           /\ exec' \in {"Running", "Paused"} => exec \in {"Running", "Paused"}
  BY <1>1
<1>2. ASSUME NEW s \in Segments, ExecuteTrajectorySegment(s)
      PROVE  ExecutorInv'
  BY <1>2 DEF ExecuteTrajectorySegment
<1>3. CASE TickFollow /\ UNCHANGED segment
  <2>1. CASE Complete(segment, elapsed')
    BY <1>3, <2>1 DEF TickFollow
  <2>2. CASE ~ Complete(segment, elapsed')
    <3>1. Len(segment) >= 2 /\ samples = elapsed /\ elapsed' = elapsed + 1
          /\ samples' = samples + 1
      BY <1>3, <2>2 DEF TickFollow
    <3>2. Len(segment) \in Nat /\ Len(segment) \in DOMAIN segment
      BY <3>1 DEF TypeOK
    <3>3. segment[Len(segment)].t \in Int
      BY <3>2, PointsTyped DEF TypeOK
    <3>4. elapsed' < segment[Len(segment)].t
      BY <2>2, <3>1, <3>3 DEF Complete, TypeOK
    <3> QED BY <1>3, <3>1, <3>4
  <2> QED BY <2>1, <2>2
<1>4. Request => (\E s \in Segments : ExecuteTrajectorySegment(s)) \/ <1>1!1
  BY DEF Request, SetPosition, SetVelocity, SetTorque, Direct, SetSoftLimits,
     SetTemperatureLimit, SetControlMode, ClearFault, Pause, Resume, Abort
<1>5. Tick => (TickFollow /\ UNCHANGED segment) \/ <1>1!1
  BY DEF Tick, TickSense, TickCompute, TickBrake, TickSetpoint, TickApply, control
<1>6. Environment \/ UNCHANGED vars => <1>1!1
  BY DEF Environment, control, vars
<1> QED BY <1>1, <1>2, <1>3, <1>4, <1>5, <1>6 DEF Next

\* ExecutorInv is an invariant.
LEMMA ExecutorInvariant == Spec => []ExecutorInv
<1>1. Init => ExecutorInv
  BY DEF Init, ExecutorInv, ExecutorInsideSegment, SamplesCountTicks
<1> QED BY <1>1, ExecutorStep, TypeCorrect, PTL DEF Spec

\* The tick never unwraps a missing segment, and a paused or resumed segment
\* is never past its end.
THEOREM ExecutorInsideSegmentTheorem == Spec => []ExecutorInsideSegment
<1>1. ExecutorInv => ExecutorInsideSegment
  BY DEF ExecutorInv
<1> QED BY <1>1, ExecutorInvariant, PTL

\* The tracking report of the segment counts each followed tick once.
THEOREM SamplesCountTicksTheorem == Spec => []SamplesCountTicks
<1>1. ExecutorInv => SamplesCountTicks
  BY DEF ExecutorInv
<1> QED BY <1>1, ExecutorInvariant, PTL

\* No reference leaves the hull of the segment's points.
THEOREM ReferencesInHullTheorem == Spec => []ReferencesInHull
<1>1. TypeOK /\ ExecutorInv => ReferencesInHull
  <2> SUFFICES ASSUME TypeOK, ExecutorInv, exec \in {"Running", "Paused"},
                      elapsed > 0
               PROVE  ~ Complete(segment, elapsed)
    BY InterpolateInHull DEF ReferencesInHull, TypeOK
  <2>1. Len(segment) >= 2 /\ elapsed < segment[Len(segment)].t
    BY DEF ExecutorInv, ExecutorInsideSegment
  <2>2. Len(segment) \in DOMAIN segment
    BY <2>1 DEF TypeOK
  <2>3. segment[Len(segment)].t \in Int
    BY <2>2, PointsTyped DEF TypeOK
  <2> QED BY <2>1, <2>3 DEF Complete, TypeOK
<1> QED BY <1>1, ExecutorInvariant, TypeCorrect, PTL

\* A latched fault freezes the trajectory.
THEOREM FaultFreezesTrajectoryTheorem == Spec => FaultFreezesTrajectory
<1> DEFINE Freezes == fault' # "None" =>
                        /\ UNCHANGED <<elapsed, segment, samples>>
                        /\ exec' = "Idle" => exec = "Idle"
<1>1. [Next]_vars => [Freezes]_vars
  <2> SUFFICES ASSUME Next, fault' # "None"
               PROVE  /\ UNCHANGED <<elapsed, segment, samples>>
                      /\ exec' = "Idle" => exec = "Idle"
    OBVIOUS
  <2>1. CASE Request
    BY <2>1 DEF Request, SetPosition, SetVelocity, SetTorque, Direct,
       SetSoftLimits, SetTemperatureLimit, SetControlMode, ClearFault,
       ExecuteTrajectorySegment, Pause, Resume, Abort
  <2>2. CASE Tick
    BY <2>2 DEF Tick, TickSense, TickCompute, TickBrake, TickFollow,
       TickSetpoint, Braking, TickApply, control
  <2>3. CASE Environment
    BY <2>3 DEF Environment, control
  <2> QED BY <2>1, <2>2, <2>3 DEF Next
<1> QED BY <1>1, PTL DEF Spec, FaultFreezesTrajectory
=============================================================================
