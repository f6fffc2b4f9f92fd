# A verification project for Smart Actuator

TLA+ modules that model the control, communication and run-keeping code of this
repository and its web interfaces, TLC configurations that check them on small
instances, and theorems about them proved with TLAPS. Paths below are relative to
the repository's root (`smart-actuator/…` is the Rust workspace, `brain/…` the
Python service, `ui/…` the operator's interface, `public-ui/…` the public site).

    tlc -config ActuatorCore.cfg MCActuatorCore     # any run of the table below
    tlapm ActuatorCoreProofs.tla                    # any module of proofs

## 1. The system

A machine is a set of *smart actuators*, a *sidecar* that talks to all of them,
and a *Brain* that serves users and runs programs.

    page ──REST, WebSocket──> Brain ──gRPC──> sidecar ──wire frames──> actuator
    (React)                    (Python)        (Rust, tokio)  (TCP/UART) (Rust)

| Component | State it keeps | Operations | Module |
|---|---|---|---|
| Actuator control service: `actuator-core` `service.rs`, `types.rs` | control mode, setpoint, limits, latched fault, trajectory executor | 11 requests; a physics tick in three phases | `ActuatorCore` |
| Simulated motor: `actuator-plant/src/lib.rs`, `actuator-sim/src/backdoor.rs` | temperature, command, pause flag, external torque and its ticks | tick; pause, resume, step, torque, fault injection | `SimPlant` |
| Simulator process: `actuator-sim` `main.rs`, `server.rs` | the two above | one loop task, a task per connection, backdoor tasks | `ActuatorSim` |
| Wire client: `actuator-proto/src/wire.rs` | one stream behind a mutex | call, reconnect, resend; dropped by callers' timeouts | `WireClient` |
| Sidecar watchdog: `controller-sidecar/src/watchdog.rs` | two atomics: last heartbeat, armed | touch; check loop | `Watchdog` |
| Sidecar handlers, pool, e-stop: `grpc.rs`, `client_pool.rs`, `estop.rs` | registered clients behind a mutex | nine kinds of RPC; broadcast | `Sidecar` |
| Program runs: `brain/brain/service/program_service.py` with its repository | runs in memory, rows, events, executor tasks | start, stop, execute, save, crash and restart | `ProgramRun`, abstractly `RunRegister` |
| Workspace page: `App.tsx`, `useJointState`, `useWorkspace`, `useActiveJoints`, `WorkspaceMenu`, `CartesianJogPanel`, `MachineCard` | state socket, joint rows and buffers, overlay, jog target | reconnect, jog, e-stop, overlay, edit | `MachineControl`, `JointViews`, `Workspace`, `JogPanel` |
| Teach sessions: `TeachPage`, `useTeachSession`, `ArmCanvas`, `teach_service.py` | session at the Brain and on the page, drags | record, capture, delete, save, abort; drag | `Teach`, `Drag` |
| Calibration: `InteractiveJob`, `useCalibrationJob`, `calibration_service.py` | jobs, their sweep tasks, the panel's job | start, advance, abort, complete, reload | `Calibration` |
| Shell and sign-in: `App.tsx`, `AuthContext`, `authClient`, `AppToolbar` | token, status, route, search for a machine | sign in and out, other tabs, retries | `AppShell` |
| Program editors: `ProgramsPage`, `programAst`, `StepRow`, `ProgramListView` | draft, saved list | load, save, delete, run, edit | `Programs`, `ProgramList` |
| G-code page: `GCodePage`, `gcodeApi` | chosen source, preview, program | generate, upload, preview, translate, run | `GCode`, `PathPreview` |
| Run panel: `ProgramRunPanel`, `ProgramRunView`, `useProgramRun` | run shown | start, follow, stop, close | `RunView` |
| Onboarding: `OnboardingWizard` | template, machine, bindings | pick, build, bind | `Onboarding` |
| Machine editor: `MachineEditor`, `KinematicsTab`, `useMachineIK`, `dh.ts` | geometry, solver settings, end effector | edit, apply, put, try | `DhEdit`, `EditKinematics` |
| Geometry: `fk.ts`, `ArmCanvas`, `dh_fk.py` | — | forward kinematics, quaternions, angles | `Kinematics`, `Orientation` |
| Public site: `public-ui` with `actuator-wasm` | page and worker of the demo, history, queue of telemetry | commands, frames, navigation, errors | `Demo`, `PublicSite` |
| Machine modes and e-stop: `lifecycle_service.py`, `safety_service.py` | mode per machine, persisted | mode changes, e-stop and its release | in part, in `MachineControl` |
| Sidecar bridge, joint state: `sidecar_bridge.py`, `state_service.py` | stream tasks, last states, mode | heartbeats, state batches, reconnection | only as environment of `Watchdog`, `ProgramRun`, `MachineControl` |
| Simulator and hardware bindings; inverse kinematics, collision, G-code translation; users, files, templates; firmware drivers; drawing; CAD | — | — | not modelled (section 7) |

How they interact:

* Requests reach an actuator on connection tasks and share one control mutex
  with the physics tick, which lets go of it between sampling, deciding and
  applying. In the simulator the same loop then integrates the plant, which a
  backdoor changes under the plant's own mutex.
* The sidecar shares one wire client per actuator among its handlers, its
  aggregator and its e-stop broadcast. Callers drop calls by timeout.
* The Brain heartbeats the sidecar; without heartbeats the watchdog disarms
  command intake. An e-stop goes from the Brain to the sidecar's broadcast to an
  Abort at every actuator.
* The Brain is one asyncio event loop: code between two awaits is atomic, and
  everything read before an await may be stale after it. Runs are kept in
  memory, saved in sessions of their own and published as events, in that order.
* A page is one JavaScript event loop: handlers are atomic between awaits, and an
  answer finds the page in whatever state it is by then. REST answers overtake each
  other; a socket keeps its order but may break, and what it carries may be newer
  or older than an answer. The demo's page and worker talk over two ordered queues.

What is hard here: requests that fall between the phases of a tick; futures
dropped at any await; streams that break and are replaced with answers still in
them; two atomics without an order; a mutex kept across awaits; saves that
overlap; crashes between memory and table; answers that come after the page has
moved on; several copies of one geometry. `PROJECT.json` lists each such hazard at
its line with the properties that would notice it going wrong.

What makes each component correct:

* *Actuator*: a latched fault brakes and stays braked until cleared; an
  acknowledged abort stops the motor whatever was in flight; the executor stays
  inside its segment and ends; nothing set in one mode acts in another.
* *Simulator*: it is an actuator; the plant integrates after the command is
  applied; overlapping backdoor steps leave a definite state.
* *Wire client*: a call returns its own answer, is executed a bounded number of
  times, and returns.
* *Sidecar*: intake is armed exactly as long as heartbeats justify; an
  acknowledged e-stop covered every registered actuator; no handler waits for
  ever.
* *Program runs*: a run that is over stays over, stops within its step, is never
  reported over before it is, is never listed as running without a task, and ends.
* *Teach and calibration*: a recording keeps the order of its poses; a job that is
  over stays over, and a joint has at most one that is not.
* *Pages*: what is shown is what the page is about now, an editor at rest shows
  what the Brain stored, loading and saving changes no step, what is run is what was
  saved, and the page never stops trying to see the machine.
* *Geometry*: page, scene and Brain compute the same machine.

Not all of this holds: section 5 has what does not.

## 2. The order of the work

The most important behaviour first; all of it exists.

1. `ActuatorCore`, `MCActuatorCore`, `ActuatorCoreProofs`: the control state.
2. `SimPlant`, then `ActuatorSim`, which composes both and is shown to implement
   `ActuatorCore`; `ActuatorSimProofs`.
3. `WireClient`, `WireClientProofs`.
4. `Watchdog`.
5. `Sidecar`; `MCSidecar` and `SidecarProofs` for both.
6. `ProgramRun`, `MCProgramRun`; `RunRegister`, what its runs look like from
   outside, which it is shown to implement; `ProgramRunProofs`.
7. The twenty modules of the web interfaces with the handlers of the Brain they
   call; `MachinePages`, `ProgramPages` and `PublicPages`, which instantiate them,
   `Web`, which puts them side by side, and `MCWeb`.
8. `MachinePagesProofs`, `OtherPagesProofs` (the pages of programs) and `WebProofs`: the
   invariants of the parts, those of the public site in the last, and what follows of
   the whole.

What is left:

* *Brain modes*: OFFLINE, IDLE, ESTOPPED and the rest as `LifecycleService` and
  `SafetyService` keep them, composed with `ProgramRun` (the executor sends commands
  without looking at the mode) and with `Sidecar` (an e-stop is two steps, and when
  the second fails a retry is a no-op, `brain/brain/service/safety_service.py:407`).
* *Bindings*: simulators and hardware slots against the sidecar's pool, with
  processes that die and the recovery at start.
* *Bridge and joint state*: reconnection of streams, the scheduled transition from
  OFFLINE to IDLE.
* Abstract specifications worth stating beyond the two proved: a call that is
  executed once or, after a failure, twice, which `WireClient` should implement until
  an exchange is dropped; a register of jobs, which `Calibration` should implement as
  `ProgramRun` implements `RunRegister`.
* Theorems worth proving next: those two refinements. Every safety property of a
  passing run is proved already.

## 3. The modules

**ActuatorCore.** One action per handler of `AppService`; each takes the control
mutex once. The tick is `TickSense` (sensor read, no mutex), `TickCompute` (under
the mutex: latch a fault, then brake, follow the segment or hold the setpoint) and
`TickApply` (after the mutex). `setpoint`, `limits`, `fault`, `exec`, `segment`,
`elapsed`, `samples` are the fields of `ControlState`, `SafetyConfig` and
`TrajectoryExecutor`; `drive` is the decision not yet applied, `motor` the one
applied; `halt` is a history variable that follows an acknowledged abort.
Time is counted in ticks and values are integers; interpolation rounds down, which
keeps it between its two points as floating point does. Interpolation includes
unsorted and equal times, which the service accepts.

**SimPlant** and **ActuatorSim.** Every critical section of the plant is an
action; `StepSim` is three. Position, velocity and current are left out; the
temperature is a level that an integration may change to any other. `ActuatorSim`
is the loop of `main.rs`: three phases of the service, then one plant tick, with
requests and backdoor operations in between. The service's motor command and the
plant's are one variable, so are the temperature it reads and the plant's.

**WireClient.** `pc` is where a task is in `call_raw`: waiting for the mutex,
connecting, in the first or in the second exchange. `Serve` is the actuator's
handler of one connection, also of one the client has dropped: what is left in it
is still executed. `TimeOut` drops a call anywhere; the mutex goes with it, the
connection stays. A frame is written at once and is whole or absent.

**Watchdog.** The loads of a check and the stores of a touch are steps of their
own. `age` is the difference the code computes, counted up to `Stale`, beyond
which nothing depends on it. The wall clock is never set. `intake` is
`HeartbeatState.armed`, which `Sidecar`, where the handlers read it, calls `armed`.

**Sidecar.** An RPC begins, waits for the pool, copies its clients, calls each
and answers. Only `command` looks at `armed`. A broadcast holds the pool across
its calls, which have no timeout. A call that is given up leaves a request in
`stray` that may be executed at any later time. The Brain may drop an RPC.
Actuators hang, recover, refuse and lose connections.

**ProgramRun.** `mem`, `db` and `shown` are the status a run has in memory, in
its row and in the last event; `save` is where each caller is in
`_persist_and_publish` (SELECT, COMMIT of the columns that changed, event);
`task`, `at` and `sent` are the executor. A step is the number of joint commands
it sends, 0 for a WAIT. A failed command, an unbound joint and a failed inverse
kinematics have one effect. `Crash` loses all but `db`; `LoadRun` is what `start()`
does with the rows. `late` counts commands sent for a run that is not running.

**RunRegister** is what `ProgramRun` promises, without tasks, sessions and events: the
runs as the API reports them (`reported`, which is `mem`) and the copy that is kept of
them (`kept`, which is `db`). A run starts once, goes through the steps one at a time,
is completed from its last step, or is stopped or faulted in the step it is in; each
column of the kept copy stays, takes what is reported, or goes back to "running" by a
save that comes late; a crash loses what is reported; a run kept as running is kept as
interrupted before it is reported again, any other is reported as it was kept, and the
service is up when all are. `ImplementsRegister` is the refinement.

**Teach** is a session seen from the browser and from the Brain. A request is a
record that goes from "sent" over "await" (the session was read, the machine or
the program's row is awaited), "saving" and "answered" to its arrival, so the whole
of `TeachService` between two awaits is one step and requests overtake each other
at every stage. The page's buttons, keys and dialog are actions of their own, since
each has its own guard. **Drag** is the pointer's half of the page: the listeners
of `ArmCanvas`, and the end-effector loop that `ikInFlight` and `pendingDelta`
serialise.

**Calibration** has the same stages of a request; the sweep is a task that
completes the job some time later, and jobs persisted by an earlier Brain are there
from the start, one in mid-sweep included, which no task completes. The panel's hook
keeps its state and its `unmounted` flag from one job to the next, reads without
looking at the answer's status (`BadBody` is an error's body taken for a state), and
closes a failing socket for good. `behind` is a history variable: the reasons why
the panel may be behind its job.

**MachineControl** (socket, reconnection with doubling delay, palette, space bar,
and of the Brain the modes IDLE and ESTOPPED: a move is not refused by mode),
**JogPanel** (a click asks for a solution, then sends the joints there),
**Workspace** (overlay fetches that carry a number, the editor opened in place; an
answer carries the geometry the Brain computed the hull of, and `missed` has the
geometries for which the page did not ask anew or the Brain could not compute; the
end effector's part in the hull is left out),
**JointViews** (what each render derives from the newest message, and the timers
that put a joint's flag out; ring buffers are kept by place in a message, not by
joint, which is why their property speaks of places).

**AppShell** (tokens of this and of another tab, the search for a machine with its
retries, guarded routes, toolbar and password dialog), **Onboarding** (a machine built twice
keeps the results of the first in the binding step; a binding whose connection is
lost goes on at the Brain; `strayed` says which of the two came between results and
machine; texts of errors are left out), **EditKinematics** (one loading flag for reads
and writes, "Apply" beside them, the editor closed and opened again), **DhEdit** (sliders
and table over one set of values, aliases as the page and the Brain read them).
`get_machine` and `_persist` of the two are steps of their own: the Brain reads a
machine's whole description, awaits, and writes its copy back.

**Programs** and **ProgramList** hold the two conversions between steps and nodes
and the whole life of a draft. A node of `Programs` has a kind, a value and the names
of its attributes, those included which the editor does not know; a stored program
also has or has not a description. No page mounts `ProgramListView`; it is modelled
as written. **GCode** and **PathPreview** are the G-code page and the way its preview
is cut into lines.

**RunView** is the panel of a run and the part of `ProgramService` it watches: a run
is changed in memory, its row saved and then published, by the executor and by "Stop"
each for itself; a restart reads the rows. The socket sends its snapshot before it
subscribes, drops what its queue has no room for, and may fail; a read may be refused,
and its body is then taken for the state. `behind` has the reasons why the panel may
be behind, so that the property can say that there is no other.

**Kinematics** and **Orientation** are exact: angles are quarter turns and lengths
integers, where the sines and cosines are 0 and ±1; a quaternion is taken up to a
factor. The three chains are each translated from its own source; they are compared
as they are (`MirrorsAgree`) and with the one offset left out in which they differ
(`ThreeCopiesAgree`). **Demo** is page, worker and WASM wrapper with their two queues;
**PublicSite** the site's history, error boundary and telemetry queue.

**MachinePages**, **ProgramPages** and **PublicPages** instantiate the parts, each with
constants and variables of its own that carry its letters (`pr_store` is `store` of
`Programs`). **Web** puts them side by side: `part`, chosen in the initial state, says
whose behaviour this is. The router shows one page at a time and the library
functions have no state, so the parts do not interact, and what they share at the
Brain (programs, machines) each module has in itself. MC modules give values to
constants and define symmetry; they hold no behaviour of their own. `MCSidecar` has a
`part` in the same way, for `Sidecar` and `Watchdog`.
A definition whose comment begins "Mutant of" is a plausible bug of the
definition it names, used to see that each property can fail; nothing else
refers to it.

## 4. The runs

| Run | Asks | Distinct states |
|---|---|---|
| `core` | With requests between the phases of the tick: does a fault brake and freeze, an abort stop, the executor stay inside its segment, a trajectory end? Holds. | 317k |
| `sim` | Does the simulator process implement the actuator, and do the plant's own invariants hold under its loop? Holds. | 505k |
| `wire` | Does every call return, with its own answer until an exchange is dropped, executed at most twice? Holds. | 285k |
| `wire_stale` | Is the start clean after a dropped exchange? Violated. | – |
| `sidecar` | Of the handlers: does an acknowledged e-stop cover the pool, and do handlers return, with hung actuators and without? Of the watchdog: is intake disarmed in time, never too early, and armed again? Holds. | 294k |
| `sidecar_hung` | Does a broadcast get to every actuator? Violated. | – |
| `sidecar_estop` | Does nothing start after an acknowledged e-stop? Violated. | – |
| `program` | Are the runs a register that takes its steps in order, ends once and comes back from a crash as it was kept? Is a run stopped within its step, never reported ahead, always executed, and does it end? Holds. | 127k |
| `web` | Do the pages and the Brain's handlers behind them keep what section 1 asks of them? Holds, see below. | 1650k |
| `teach_capture` | Does a capture append its waypoint? Violated. | – |
| `overlay_edit` | Is the overlay of the geometry that was applied? Violated. | – |
| `geometry` | Are the pages' frames the Brain's? Violated. | – |

Every property of a passing run has a mutant of the code that violates it
(`PROJECT.json`, "mutants"). The properties of `web` are conjunctions
of what the modules state, one conjunct per part (`Web`):

| Property of `web` | Made of |
|---|---|
| `PagesTypeOK` | the type invariants of the parts |
| `DragLoopSound` | `Drag` |
| `RecordingSound` | `Teach`: `WaypointsInOrder`, `SocketFollowsSession` |
| `WorkspaceSound` | `MachineControl`: `AlwaysReconnecting`, `BusyIsOneRequest`; `JointViews`: `LitFlagGoesOut`, `ShownIsNewest` |
| `LateAnswersHarmless` | `Workspace`: `OverlaySettles`; `AppShell`: `SpinnerIsSearch`; `RunView`: `PanelCurrent`; `GCode`: `RunShowsItsSteps`; `Calibration`: `PanelFollowsJob`, `JobsSound` |
| `CalibrationJobs` | `Calibration`: `JobsFinal` |
| `RunsWhatItSaved` | `Programs`: `RunsWhatItSaved`; `ProgramList`: `RunsSavedOrSaysSo` |
| `LoadThenSaveKeeps` | `Programs` |
| `GeometryAgrees` | `Kinematics`: `ThreeCopiesAgree`, `QuatTurnsAlike`; `Orientation`: `QuatFollowsTurns`, `EulerAwayFromPole`; `PathPreview`: `EachMoveDrawnOnce` |
| `EditsMatchStore` | `DhEdit`: `SlidersMatchParameters`; `EditKinematics`: `ShownIsStored`; `Onboarding`: `ResultsAreBindings`; `JogPanel`: `TargetIsCommanded` |
| `SiteSound` | `Demo`: `HistoryIsTail`, `LiveCommandsReach`; `PublicSite`: `EventsInOrder` |

`PROJECT.json` names one mutant for each of the eleven. The modules hold further ones, at least one for every part that has a conjunct, so that each part can be
seen to fail by itself: for example `DropsQueued` (`PublicSite`), `RunBesideSave`
(`ProgramList`), `FlagOnce` (`JointViews`), `SolverAnyTime` (`EditKinematics`),
`BindAnyTime` (`Onboarding`), `CompleteAnyway` and `FreeWhileSweeping`
(`Calibration`), `StepsShownNow` (`GCode`).

### Bounds, and why they are enough

* `core`: two position targets, one inside and one outside the limits; limits
  that include an inverted pair; one temperature limit with a temperature below
  and one above; four segments: one refused, one that ends between ticks of its
  only piece, one with two pieces, one with equal times. Requests are not
  bounded in number.
* `sim`: two backdoor clients, the fewest whose steps overlap; indefinite torques
  and torques of one tick; two temperatures; one segment. The service's own
  values are the business of `core`.
* `wire`: two tasks, three calls, three connections: enough for a call that is
  dropped, one that takes its answer and a third that shows the shift, and for a
  resend on a connection that breaks in its turn.
* `sidecar`: two actuators (one of the broadcast's list and one behind it) and two
  RPCs, one of which is an e-stop if it is used, since handlers meet in the pool's
  lock alone and only a broadcast keeps that; the other is a command, a trajectory, an
  e-stop, or a change of the pool. The kinds left out do to an actuator what those do,
  or nothing. The watchdog has a timeout that is several intervals long and no
  multiple of them; ages are counted to the point where they stop to matter, so time
  is not bounded. `EStopCoversPool` is proved for all RPCs and kinds, `DisarmsInTime`
  and `StaysArmed` for all timeouts.
* `program`: two runs, which interact only through the reading of rows at start;
  a step of two commands, so that a stop falls between them, and a WAIT; one
  crash. Failing saves and failing calls are not bounded.
* `web`: the bounds are in `MCWeb.cfg`, by the letters of the part. Two requests
  under way wherever they can overtake each other, three for the overlay, and as
  many in all as it takes to start, overtake and start again (five for a calibration
  job: two starts, two advances and an abort); two joints, two templates, two machines
  built and two bindings; an "Apply" beside a setting, in two openings of the editor;
  two or three programs of at most two steps; one run of one step; chains of two
  joints of every kind with every length and angle of 0 and 1, where every branch of
  the kinematics and of the quaternion is taken.
* `teach_capture`: four requests, two of them under way. `overlay_edit` and
  `geometry` have the bounds of `web`.

Deadlock is checked for `core` and `sim`, whose loops never stop. `wire`, `sidecar`,
`program` and `web` may rightly come to rest, when the bounded calls, RPCs, runs and
requests are over, so their configurations switch the check off; the liveness properties of
the first three say that nothing rests too early.

### Fairness, and why the code justifies it

* `core`: WF of `Tick`. The physics loop is spawned once and loops for ever
  (`smart-actuator/crates/actuator-sim/src/main.rs`). No fairness for requests.
* `wire`: WF of a task's own step and of the actuator's service of a connection.
  Tokio runs a task that is ready and its mutex is fair. No fairness for calls,
  breaks and timeouts: `CallsReturn` needs none of the timeouts.
* `sidecar`, `sidecar_hung`: WF of handlers, of timers and of the execution of a call
  by an actuator that is not hung. Of the watchdog WF of the loop and of the second
  store of a touch; no heartbeats are owed: `StaysArmed` and `Rearms` say under which
  they hold.
* `program`: WF of the executor between steps, of sending or failing, of a step's
  timeout (a WAIT's end), and of each caller's save, which succeeds or fails. No
  fairness for convergence, requests or the restart of the Brain.
* `web`: none. An answer may never come and a user owes nothing, so the pages have
  safety properties only; where a page must come to rest, the property says what it
  shows whenever nothing is under way.

## 5. What the runs found

Six places where the code does other than its docs or comments say; the
quotations are in `PROJECT.json`, "findings".

1. `wire_stale`: a call dropped while it waits leaves its answer in the stream;
   the next call returns it, and every later one is one behind. The comment on the
   reconnect describes this very case, but the reconnect happens only on an error,
   and a whole stale frame is none.
2. `sidecar_hung`: the calls of a broadcast have no timeout, so one silent
   actuator keeps the Abort from those after it and the pool from everybody.
3. `sidecar_estop`: a command in flight when an e-stop is acknowledged is executed
   afterwards.
4. `teach_capture`: a capture writes back the session it read before it awaited the
   machine. Of two that overlap one waypoint is lost, and a session aborted in
   between is recording again.
5. `overlay_edit`: the refetch after "Apply" is that of the render in which it was
   clicked. Applied with the overlay off, and answered when it is on, it fetches
   nothing, and the old hull stays over the new arm.
6. `geometry`: the pages drop the offset `d` of a prismatic joint along x or y, which
   the Brain applies, though each file says it mirrors the others.

Five more have no run of their own. The models have them, and four are named by the
property that would hold without them; for each of these a history variable notes
the step at which it happens:

* Solver settings, end effector and geometry of a machine are written with all of the
  description that was read (`machine_service.py:363-367, 377-381, 424-488`), as a
  capture writes a session: of two requests that overlap one is undone, though both
  are to "persist" (`ShownIsStored`; `behind` of `EditKinematics`).
* So are bindings (`machine_service.py:233-262`), although RFD-4 says that each slot "is
  bound independently" (line 75). When a connection is lost the wizard goes on with the
  next slot while the Brain binds the first, and one of the two may be lost
  (`ResultsAreBindings`; `strayed`).
* The calibration panel's hook keeps its state, and takes a late read of the job
  before for the new job's (`useCalibrationJob.ts:57-63`), while the panel's `jobId` is
  "the job to observe" (`PanelFollowsJob`; `behind` of `Calibration`).
* What is published between the snapshot of a run and the subscription of its socket
  is not streamed, though `programs.py:141` promises "every subsequent update";
  `calibrations.py:106` promises the same and has the same window (`PanelCurrent`,
  `PanelFollowsJob`).
* `WatchdogConfig` documents its timeout as the time "before the watchdog triggers an
  E-stop" (`config.rs:102`), while `watchdog.rs` documents and does a disarming of
  command intake that leaves the actuators moving; `Watchdog` models the code.

Behaviours the models have and TLC reaches, which no text of the repository
forbids, so that no property is stated: requests left on a dropped connection are
served after newer ones; `send_command` looks at `armed` before it waits for the
pool; a trajectory that fails on one actuator has started on others; a save that
reads its row after a stop was committed writes "running" over it, so that a
restart calls a stopped run interrupted; "running" may be published after
"stopped"; a run whose first save fails is listed as running, without a task,
until the next restart (`RunningIsExecuted` and `RunsEnd` name it as their
exception). Of the Actuator and the sidecar: a segment's points are not compared
with the soft limits, and only `send_command` asks whether intake is armed.

Of the web interfaces, in the same way: a panel of a run or of a calibration job can
stay behind when its socket fails, since it is never reopened, when an earlier update
overtakes a later one, when a read older than a frame comes after it, and shows
the body of a refused read as a state; a second "Build machine" answered while the
first machine is bound makes the step about the second and keeps the results of the
first (`ResultsAreBindings` names it as an exception); a program saved from the editor loses its
description and what G-code adds to its poses, and an empty one gets a move
(`LoadThenSaveKeeps` says so); the compact editor runs what the Brain had when its save
fails; a calibration job reloaded in mid-sweep keeps its joint from a new job until it
is aborted; two teach saves make two programs; ring buffers follow the place of a
joint in a message, so after a change of the chain or of the pool's order they mix
joints; at a pitch of a quarter turn the angles shown do not determine the orientation
(`EulerAwayFromPole`).

## 6. The proofs

| Module | Theorems (`Spec => []…`) | Argument |
|---|---|---|
| `ActuatorCoreProofs` | `TypeOK`, `FaultBrakes`, `AbortHolds`, `SetpointMatchesMode`, `ExecutorInsideSegment`, `SamplesCountTicks`, `ReferencesInHull`, `FaultFreezesTrajectory` | below |
| `ActuatorSimProofs` | `ImplementsCore`, `PlantSeesBrake`; of the plant under the simulator's loop `PlantTypeOK`, `TorqueHasTicks`, `PauseFollowsLastOp` | refinement, then `FaultBrakes` carried along; `PlantInv` is the three together, inductive as they stand |
| `WireClientProofs` | `AnswersOwnCall`, `OneInFlight`, `ExecutedAtMostTwice`, `NoAnswerTwice` | below |
| `SidecarProofs`, of `Watchdog` | `DisarmsInTime`, `StaysArmed` | `AgeInv`: the age never exceeds the timeout by more than the part of the interval slept |
| `SidecarProofs`, of `Sidecar` | `SidecarTypeOK`, `LockedByBroadcast`, `EStopCoversPool` | below |
| `ProgramRunProofs` | `TypeOK`, `StopsWithinStep`, `NothingAhead`, `RunningIsExecuted`, `TerminalIsFinal`, `ImplementsRegister` | an invariant and a refinement, below |
| `WebProofs`, from `MachinePagesProofs` and `OtherPagesProofs` | `PagesTypeOK`, `DragLoopSound`, `RecordingSound`, `WorkspaceSound`, `LateAnswersHarmless`, `EditsMatchStore`, `SiteSound`, `LoadThenSaveKeeps`, `CalibrationJobs`, `RunsWhatItSaved`, `GeometryAgrees` | an invariant for each part, below |

They hold for every value of the constants under the modules' named assumptions:
`ValuesAssumption`, `SegmentsAssumption` and `InfAssumption` (targets are
integers, or finite, and below the infinities), `PlantAssumption`,
`SimAssumption`, `WireAssumption`, `WatchdogAssumption`, `SidecarAssumption`,
`ProgramAssumption`, `DragAssumption`, `MachinePagesAssumption`, `SlidersAssumption`,
`ProgramPagesAssumption`, `PublicPagesAssumption`. Most of them are types
and the distinctness of null values; of the geometry they say that lengths and turns
are integers. Those of the pages also say that some bounds are
not zero, because the first state already holds as much: a token and a request
(`as_MaxTokens`, `as_MaxSent`: the page is loaded signed in, or asks who it is), a load
of the wizard (`ob_MaxLoads`), a joint to show and a sample of it (`jv_Joints`,
`jv_MAX`), an opening of the editor (`ek_MaxOpens`), a joint and a job (`ca_Joints`, `ca_MaxJobs`), an entry of the browser's
history (`ps_MaxHistory`), a program in the list of runs (`rv_MaxPrograms`), and, of the
program editors, the stored program 1 with its two nodes and their values beside the
draft that is program 2 (`pr_`, `pl_MaxPrograms`, `MaxSteps` and `MaxValue`). `SlidersAssumption` says that the
sliders the Brain calls easy are sliders.

The invariants are not inductive as they stand:

* *Abort.* `AbortHolds` speaks of the motor, but the command that could break it is
  `drive`, decided before the abort. `AbortInv` adds what the state of the
  executor and the setpoint are after an abort (aborted, and Hold), so that the next
  decision is the brake, and what an applied or pending command is at each stage.
* *Executor.* `ExecutorInv` joins `ExecutorInsideSegment` and `SamplesCountTicks`:
  that the elapsed time stays inside the segment is what the tick preserves, and
  the two are counted by the same step. `ReferencesInHull` follows from it and
  `InterpolateInHull`, a lemma on linear interpolation between points in any order.
* *Refinement.* Every step of the simulator is a step of `ActuatorCore` or a
  stutter: the loop's half is hidden, and a plant tick is a change of temperature.
* *Wire.* `WireInv`: the mutex's holder is the one task in an exchange (`LockInv`),
  streams not yet opened are clean (`OpenedInv`), and a sound stream in use carries
  exactly the holder's request or its response, a broken one no response
  (`StreamInv`); so the frame read is the holder's own. `UntilDropped` is `WireInv`
  as long as no call was dropped in mid-exchange, which is inductive.
* *At most twice.* `OnceInv` needs no such condition. What a call has spent is its
  executions and the requests for it that wait on any connection: one for the
  exchange on the connection there was, one for the resend (`SpentInv`). A connection
  carries a call once, as a request or as a response (`FrameInv`), only the one in
  use holds responses (`LiveInv`), and what was returned is in no stream in use and
  in no task's hands (`FreshInv`), so no response answers twice.
* *Watchdog.* `StaysArmed` is a safety property under an assumption that always holds:
  while heartbeats are in time the loop never leaves its first comparison. `Sidecar` has
  of the watchdog only that the flag may be set or cleared at any time;
  `WatchdogAsHandlersSeeIt` shows that this leaves out none of its steps.
* *E-stop.* An action property over a loop: the invariant (`Covered`) says that
  every registered actuator is still to be tried or was tried, which registration
  during the broadcast cannot break because it waits for the lock
  (`LockedByBroadcast`).
* *Runs.* `ProgramInv` is `TypeOK` and, for each run, `ExecutorOK` (what each place
  of the executor says of memory), `SavesOK` (what each caller's save in flight may
  carry) and `RecordsOK` (what row and event may be ahead of). A row can only be
  ahead of memory through a save in flight, so `NothingAhead` needs all three.
* *Register.* That `ProgramRun` implements `RunRegister` needs more than `ProgramInv`:
  `OrderOK` says that a save in flight is about the step its run is in, that a row once
  inserted stays, that the save of a start is in flight only in the first step, and that
  the executor at the top of its loop is one step after the one memory shows, or at the
  first. `Row`, what a commit may leave in a row whatever it selected before, is where
  the overlapping sessions are dealt with; each action then is a step of the register or
  leaves it alone (`…Refines`). `TerminalIsFinal`, a theorem of its own, is what
  the register says of a run that is over.

* *Drag.* The three conjuncts of `DragLoopSound` hold each other: the flag admits a
  loop only when there is none, a loop that ends resets it, and a delta is kept only
  while it is set. Whatever the pointer, a session's end or a failed solution do,
  they touch the delta alone, and only to drop it.

The pages: `WebInv` says that the part in use has its invariant; a step of the whole is
one of that part (the lemmas named `…Part`), so each invariant is shown inductive for
its part alone (`…First`, `…Next`) and holds what the run checks (`…Shows`). Every one
types the requests under way with all that their answers carry, because an answer
is believed when it comes. Beyond types:

| Part | Invariant | What it adds to the property, to be inductive |
|---|---|---|
| `AppShell` | `ShellInv` | of the search of this sign-in exactly one request or timer is under way while the spinner shows; who is not signed in searches for nothing |
| `Onboarding` | `WizardInv` | at most one binding is the step's own, of the slot shown as being bound; while nothing strayed it is of the machine on screen, the bindings it read are the machine's, and its answer, like a result, is what the machine's slot has |
| `MachineControl` | `ControlInv` | the palette waits exactly while one request of its own is in the set |
| `JogPanel` | `JogInv` | one jog at a time; the one moved is what the machine was sent to last |
| `Workspace` | `OverlayInv` | the requests' numbers; while the Brain's geometry was not missed and no edit that made it is to be answered, the newest answer, and what is shown once it came, is of that geometry |
| `JointViews` | `ViewsInv` | a message names a joint once; each buffer ends with the newest message; a lit flag has a timer |
| `Calibration` | `CalibInv` | each job kept at its place with the step its status needs; whatever a request, a message or the panel holds of a job has its id and its joint, or is an error's body; unless the panel is behind for a reason, the last of the messages, or what is shown when all are taken, is the job; `CalibGrow`: a step keeps a job's joint, and a job that is over |
| `EditKinematics` | `KineInv` | one request of the hook at most, while the tab is loading; the answer that the tab waits for has the Brain's settings, unless a stale copy was written |
| `DhEdit` | `SlidersInv` | a target that no edit overlapped reads the same in the draft and at the Brain |
| `Teach` | `TeachInv` | every list anywhere, in a session, a request, a message or a program, is an ascending one of poses taken so far; a capture that waits is newer than all it read; starts under way are at most the ids left |
| `Programs` | `EditorInv` | at most one save lives, from its request to the answer of its list, while `saving` is set; from the save's answer on the Brain has its steps, unless the program was deleted; stored nodes have the attribute their kind is read by; the draft is what `Parsed` makes of the nodes loaded as long as it is not edited |
| `ProgramList` | `CompactInv` | the same; here nothing is deleted, and nodes of other kinds may be stored |
| `GCode` | `GcodeInv` | a call's source is one that can be shown |
| `RunView` | `RunInv` | `RunTypes`; `RunHook`: the socket is that of the run shown, and its frames are taken; `RunFrames`: when the socket is subscribed, no reason to be behind is noted and the newest state is not still being saved, the last frame, or the state when all are taken, is the run's |
| `PublicSite` | `PublicInv` | what is recorded and then what is pending is all that was told, in order |
| `Demo` | `DemoInv` | READY is posted once and last before anything is live; the history is the tail of the frames |
| `Kinematics` | `FramesInv` | only that the chain is one of joints; the work is in the lemmas, below |
| `Orientation` | `QuatsInv` | the rotation asked for is one of the 24 by quarter turns, and the quaternion one of integers that rotates alike |
| `PathPreview` | `PreviewInv` | the lines drawn so far end where the next stretch begins, and draw the moves before it, each in one line |

`EditorParsed` and `CompactParsed` say of the conversion from nodes to steps what it
returns for a program of any length; `PlaceThere`, that the k-th kept place exists, is
the pigeonhole argument they need. `Parsed` picks the places by counting instead of
by a fold, so that this could be proved.

Proving found one slip of the model that no run could see: a conjunct of
`Workspace`'s type invariant was read as part of the one before it. The code was
modelled right, the invariant said less than it should.

*Geometry.* The frames of a chain are recursive functions of the joints, and the
induction theorems of the library are out of reach, so the induction is done by hand:
`FramesLeast` gives the least counterexample, `Recursion` builds the function that a
recursion over the joints defines, and `AlongChain` passes what holds at 0 from each
joint to the next. What is passed on is `FramesStep`: behind a joint the page's, the
scene's and the Brain's products of translations and turns are one matrix, when the
Brain's are those of the chain without the offset of carriages along x or y. That the quaternion turns as its
frame follows from `Rotation`, the 24 rotations by quarter turns: turning a frame keeps
it one of them (`RotationTurns`), and in each of them every branch of Shepperd's method
gives a quaternion that rotates alike (`Shepperd`). `Orientation` needs the same set,
how a turn of the tool or of the world acts on a quaternion (`RotatesTurned`), that
halving a quaternion leaves its rotation, and that without a pitch roll and yaw can be
read off the entries (`LevelRotation`). The theorem is for chains of any number of
joints, any integer lengths, and quarter turns; other angles are not modelled.

Checked by TLC only: the liveness properties (`AbortTakesEffect`, `TrajectoryEnds`,
`CallsReturn`, `Rearms`, `CallsTimeOut`, `RpcsReturn`, `RunsEnd`, `StopEndsTask`): TLAPS
does not reach fairness and ENABLED. Every other property of a passing run is stated by a
theorem.

## 7. What is not modelled, and why

* *Numbers*: inverse kinematics, trajectory generation, collision checks, workspace
  sampling, G-code translation, plant dynamics, tracking errors. Floating-point
  geometry and dynamics are out of a model checker's reach; what the control flow
  needs of them is kept. Forward kinematics is modelled where it is exact, at
  quarter turns; angles between are not.
* *Bytes*: the frame codec, half-written frames, resynchronisation of the UART.
* *Clocks that are set*: the watchdog's ages are wall-clock differences.
* *Reads*: aggregator samples (a read that times out is reported as zero), listings
  (registering an id again keeps its old endpoint), the joint-state stream.
* *Values nobody reads*: the current limit is stored and never compared.
* *Request cancellation in the backdoor*: a dropped StepSim leaves the plant running.
* *A paused plant*: the service goes on ticking while the plant is paused, so a
  trajectory completes with the motor at rest; position is not modelled.
* *Two runs on one machine* are not kept apart by the code; in `ProgramRun` another
  run is one of the reasons why joints do not converge.
* *Drawing and layout*: meshes, recipes, canvas, theme, widgets, formatting, the
  public site's texts and generated documentation: no state or protocol.
* *Users, files, templates, CAD, scripts, containers, firmware drivers*: record
  keeping, deployment and hardware I/O.
* *Lifecycle modes beyond IDLE and ESTOPPED, bindings, bridge, trajectories of
  MotionService, the reload of teach sessions at a start of the Brain*: left
  (section 2).
* *Pages together*: pages of several users, and pages that share programs or
  machines, meet at the Brain only, and no module joins two pages. What another
  client does is modelled where the page's own code has to deal with it: an e-stop
  or a resume (`MachineControl`), a session that ends during a drag (`Drag`), a
  sign-in or sign-out of another tab (`AppShell`).
