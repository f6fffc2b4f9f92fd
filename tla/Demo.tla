-------------------------------- MODULE Demo --------------------------------
(***************************************************************************)
(* The live demo of the public site: the control panel and the motor of    *)
(* ActuatorDemo, the hook useActuatorSim, and the web worker that runs the *)
(* WebAssembly build of the actuator (actuator-wasm).  The page and the    *)
(* worker talk over two ordered queues of messages.                        *)
(*                                                                         *)
(* The worker handles INIT asynchronously: what arrives while the wasm     *)
(* file is being compiled is dropped.  COMMAND_RESULT and ERROR messages   *)
(* are ignored by the hook and not modelled.  A set point is a mode and a  *)
(* number; the plant is reduced to its temperature and its gains.          *)
(***************************************************************************)
EXTENDS Integers, Sequences, SequencesExt

CONSTANTS Depth,        \* RING_DEPTH: samples kept by the sparklines
          MaxValue,     \* set points and gains are 0 .. MaxValue
          MaxCommands,  \* bound: user commands
          MaxFrames     \* bound: frames of the worker's loop

VARIABLES
  ready,      \* the hook has seen READY
  shown,      \* the fault of the latest STATE
  history,    \* the ring buffers, as the numbers of the frames
  panel,      \* the panel's mode, targets and gains
  toWorker,   \* messages posted to the worker
  toPage,     \* messages posted by the worker
  wasm,       \* "idle", "compiling", "built" or "failed"
  running,    \* the frame loop
  core,       \* the AppService: mode, set point, executor, latched fault
  fault,      \* WasmActuator::fault, the string read_state reports
  plant,      \* temperature and gains
  sent, frames  \* counters of the bounds

page   == <<ready, shown, history, panel>>
worker == <<wasm, running, core, fault, plant>>
vars   == <<ready, shown, history, panel, toWorker, toPage, wasm, running, core,
            fault, plant, sent, frames>>

Mode    == {"Position", "Velocity", "Torque"}
Values  == 0 .. MaxValue
Faults  == {"", "OverTemperature", "OverCurrent", "refused"}
Hold    == [mode |-> "Hold", value |-> 0]
Ambient == 25
Hot     == 100000    \* what inject_fault makes the temperature
TemperatureLimit == 1000000   \* SafetyConfig::default: infinity

Init ==
  /\ ready = FALSE /\ shown = "" /\ history = << >>
  /\ panel = [mode |-> "Position", target |-> [m \in Mode |-> 0], gains |-> 0]
  /\ toWorker = <<[type |-> "INIT", arg |-> 0, live |-> FALSE]>>
  /\ toPage = << >>
  /\ wasm = "idle" /\ running = FALSE
  /\ core = [mode |-> "None", setpoint |-> Hold, exec |-> "Idle",
             latched |-> FALSE]
  /\ fault = "" /\ plant = [temp |-> Ambient, gains |-> 0]
  /\ sent = 0 /\ frames = 0

-----------------------------------------------------------------------------
(* The page.  "live" remembers whether the panel said LIVE on sending.     *)

Command(type, arg) == [type |-> type, arg |-> arg, live |-> ready]

send(commands) ==
  /\ sent < MaxCommands
  /\ sent' = sent + 1
  /\ toWorker' = toWorker \o commands
  /\ UNCHANGED <<ready, shown, history, toPage, worker, frames>>

\* SET_POSITION, SET_VELOCITY or SET_TORQUE.
SetPoint(m, v) == Command("SET", [mode |-> m, value |-> v])

\* Back in position mode the panel's target is sent again, else zero.
handleModeChange(m) ==
  LET v == IF m = "Position" THEN panel.target[m] ELSE 0
  IN /\ panel' = [panel EXCEPT !.mode = m, !.target[m] = v]
     /\ send(<<Command("SET_CONTROL_MODE", m), SetPoint(m, v)>>)

ModeButton == ready /\ \E m \in Mode : handleModeChange(m)

\* The one slider shown is the one of the panel's mode.
PositionSlider(v) ==
  /\ panel.mode = "Position"
  /\ panel' = [panel EXCEPT !.target["Position"] = v]
  /\ send(<<SetPoint("Position", v)>>)

SpeedOrTorqueSlider(v) ==
  /\ panel.mode # "Position"
  /\ panel' = [panel EXCEPT !.target[panel.mode] = v]
  /\ send(<<SetPoint(panel.mode, v)>>)

GainSlider(v) ==
  /\ panel' = [panel EXCEPT !.gains = v]
  /\ send(<<Command("UPDATE_GAINS", v)>>)

\* Dragging the motor sends a position whatever the mode is.
handleJog(v) ==
  /\ panel' = [panel EXCEPT !.target["Position"] = v]
  /\ send(<<SetPoint("Position", v)>>)

DragMotor(v) == ready /\ handleJog(v)

TrajectoryButtons ==
  /\ ready
  /\ \E type \in {"EXECUTE_TRAJECTORY", "PAUSE_TRAJECTORY", "ABORT_TRAJECTORY"} :
       send(<<Command(type, 0)>>)
  /\ UNCHANGED panel

DisturbanceButtons ==
  /\ \/ ready /\ send(<<Command("APPLY_EXTERNAL_TORQUE", 0)>>)
     \/ ready /\ \E kind \in {"OverTemperature", "OverCurrent"} :
                    send(<<Command("INJECT_FAULT", kind)>>)
     \/ shown # "" /\ send(<<Command("CLEAR_FAULT", 0)>>)
     \/ ready /\ send(<<Command("SET_PLANT_STATE", 0)>>)
  /\ UNCHANGED panel

\* Mutant of push: the oldest sample is not shifted out.
Keep(samples, n) == Append(samples, n)

push(samples, n) ==
  LET longer == Append(samples, n)
  IN IF Len(longer) > Depth THEN Tail(longer) ELSE longer

OnMessage ==
  /\ toPage # << >>
  /\ toPage' = Tail(toPage)
  /\ \/ /\ Head(toPage).type = "READY"
        /\ ready' = TRUE
        /\ toWorker' = Append(toWorker, [type |-> "START_LOOP", arg |-> 0,
                                         live |-> TRUE])
        /\ UNCHANGED <<shown, history>>
     \/ /\ Head(toPage).type = "STATE"
        /\ shown' = Head(toPage).fault
        /\ history' = push(history, Head(toPage).frame)
        /\ UNCHANGED <<ready, toWorker>>
  /\ UNCHANGED <<panel, worker, sent, frames>>

-----------------------------------------------------------------------------
(* The worker and actuator-wasm.                                           *)

\* Mutant of init: READY is posted before the actuator is made.
AnnounceFirst ==
  /\ wasm = "idle" /\ wasm' = "compiling"
  /\ toPage' = Append(toPage, [type |-> "READY", fault |-> "", frame |-> 0])

\* init up to its await ...
init ==
  /\ wasm = "idle" /\ wasm' = "compiling"
  /\ UNCHANGED toPage

\* ... and after it: the wasm file is there, or cannot be had.
Compiled ==
  /\ wasm = "compiling"
  /\ \/ /\ wasm' = "built"
        /\ toPage' = Append(toPage, [type |-> "READY", fault |-> "", frame |-> 0])
     \/ wasm' = "failed" /\ UNCHANGED toPage
  /\ UNCHANGED <<page, toWorker, running, core, fault, plant, sent, frames>>

AdmitMotion(m) ==
  /\ ~core.latched
  /\ core.mode \in {"None", m}
  /\ core.exec # "Running"

\* set_position, set_velocity, set_torque: success clears the string.
Set(sp) ==
  /\ IF AdmitMotion(sp.mode)
       THEN core' = [core EXCEPT !.setpoint = sp] /\ fault' = ""
       ELSE fault' = "refused" /\ UNCHANGED core
  /\ UNCHANGED plant

set_control_mode(m) ==
  /\ core' = IF core.exec = "Running" THEN core
             ELSE [core EXCEPT !.mode = m, !.setpoint = Hold]
  /\ UNCHANGED <<fault, plant>>

clear_fault ==
  /\ core' = [core EXCEPT !.latched = FALSE]
  /\ fault' = ""
  /\ UNCHANGED plant

\* The string is set here; whether the core latches is for its tick.
inject_fault(kind) ==
  /\ fault' = kind
  /\ plant' = IF kind = "OverTemperature" THEN [plant EXCEPT !.temp = Hot]
              ELSE plant
  /\ UNCHANGED core

Trajectory(type) ==
  /\ core' = CASE type = "EXECUTE_TRAJECTORY" /\ ~core.latched ->
                    [core EXCEPT !.exec = "Running"]
               [] type = "PAUSE_TRAJECTORY" /\ core.exec = "Running" ->
                    [core EXCEPT !.exec = "Paused"]
               [] type = "ABORT_TRAJECTORY" ->
                    [core EXCEPT !.exec = "Aborted", !.setpoint = Hold]
               [] OTHER -> core
  /\ UNCHANGED <<fault, plant>>

\* The message handler once there is an actuator.
Dispatch(c) ==
  \/ c.type = "SET" /\ Set(c.arg)
  \/ c.type = "SET_CONTROL_MODE" /\ set_control_mode(c.arg)
  \/ c.type = "CLEAR_FAULT" /\ clear_fault
  \/ c.type = "INJECT_FAULT" /\ inject_fault(c.arg)
  \/ Trajectory(c.type) /\ c.type \in {"EXECUTE_TRAJECTORY",
                                       "PAUSE_TRAJECTORY", "ABORT_TRAJECTORY"}
  \/ /\ c.type = "UPDATE_GAINS"
     /\ plant' = [plant EXCEPT !.gains = c.arg] /\ UNCHANGED <<core, fault>>
  \/ /\ c.type = "SET_PLANT_STATE"
     /\ plant' = [plant EXCEPT !.temp = Ambient] /\ UNCHANGED <<core, fault>>
  \/ c.type = "APPLY_EXTERNAL_TORQUE" /\ UNCHANGED <<core, fault, plant>>

startLoop(c) == running' = (running \/ c.type = "START_LOOP")

WorkerMessage ==
  /\ toWorker # << >>
  /\ toWorker' = Tail(toWorker)
  /\ LET c == Head(toWorker)
     IN \/ /\ c.type = "INIT" /\ init
           /\ UNCHANGED <<running, core, fault, plant>>
        \/ /\ c.type # "INIT" /\ wasm # "built"     \* dropped
           /\ UNCHANGED <<toPage, wasm, running, core, fault, plant>>
        \/ /\ c.type = "START_LOOP" /\ wasm = "built" /\ startLoop(c)
           /\ UNCHANGED <<toPage, wasm, core, fault, plant>>
        \/ /\ wasm = "built" /\ Dispatch(c)
           /\ UNCHANGED <<toPage, wasm, running>>
  /\ UNCHANGED <<page, sent, frames>>

\* A batch of 1 ms steps, then one STATE: the core may latch the thermal
\* fault, a trajectory may end, the motor may cool down.
frame ==
  /\ running /\ frames < MaxFrames
  /\ frames' = frames + 1
  /\ \E exec \in {core.exec} \cup (IF core.exec = "Running" THEN {"Idle"} ELSE {}) :
       core' = [core EXCEPT !.exec = exec,
                            !.latched = @ \/ plant.temp > TemperatureLimit]
  /\ \E t \in {plant.temp, Ambient} : plant' = [plant EXCEPT !.temp = t]
  /\ toPage' = Append(toPage, [type |-> "STATE", fault |-> fault,
                               frame |-> frames'])
  /\ UNCHANGED <<page, toWorker, wasm, running, fault, sent>>

-----------------------------------------------------------------------------
Next ==
  \/ ModeButton
  \/ \E v \in Values : \/ PositionSlider(v) \/ SpeedOrTorqueSlider(v)
                       \/ GainSlider(v) \/ DragMotor(v)
  \/ TrajectoryButtons
  \/ DisturbanceButtons
  \/ OnMessage
  \/ Compiled
  \/ WorkerMessage
  \/ frame

Spec == Init /\ [][Next]_vars

-----------------------------------------------------------------------------
(* Properties.                                                             *)

\* Every variable keeps its type.
TypeOK ==
  /\ ready \in BOOLEAN /\ running \in BOOLEAN
  /\ shown \in Faults /\ fault \in Faults
  /\ history \in Seq(1 .. MaxFrames)
  /\ panel \in [mode : Mode, target : [Mode -> Values], gains : Values]
  /\ wasm \in {"idle", "compiling", "built", "failed"}
  /\ core.mode \in Mode \cup {"None"}
  /\ core.exec \in {"Idle", "Running", "Paused", "Aborted"}
  /\ plant \in [temp : {Ambient, Hot}, gains : Values]

\* The sparklines show the latest frames and nothing else: no frame is
\* missing between two samples, and there are at most Depth of them.
HistoryIsTail ==
  /\ Len(history) <= Depth
  /\ \A i \in 2 .. Len(history) : history[i] = history[i - 1] + 1

\* What is sent while the panel says LIVE is never dropped: no such command
\* waits for a worker that has no actuator yet.
LiveCommandsReach ==
  wasm = "built" \/ \A i \in DOMAIN toWorker : ~toWorker[i].live
=============================================================================
