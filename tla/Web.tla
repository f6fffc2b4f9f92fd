-------------------------------- MODULE Web --------------------------------
(***************************************************************************)
(* The parts of the web interfaces: the pages of the machine and of its    *)
(* programs, the public site, and the geometry and the path preview, which *)
(* are functions.  The router shows one page at a time and the functions   *)
(* have no state, so a behaviour is one of one part; which one is chosen   *)
(* in the initial state.                                                   *)
(***************************************************************************)
EXTENDS MachinePages, ProgramPages, PublicPages

VARIABLE part   \* whose behaviour this is

WebInit ==
  /\ part \in {"drag", "shell", "onboarding", "control", "jog", "workspace",
               "views", "calibration", "kinematics", "parameters", "teach",
               "programs", "list", "gcode", "preview", "run", "frames",
               "turns", "site", "demo"}
  /\ Init
  /\ Shell!Init /\ (part = "shell" \/ (as_token = 0 /\ ~as_hasMachine))
  /\ Wizard!Init
  /\ Control!Init /\ (part = "control" \/ (mc_mode = "idle"))
  /\ Jog!Init
  /\ Overlay!Init
  /\ Views!Init /\ (part = "views" \/ (jv_chain = <<>>))
  /\ Calib!Init /\ (part = "calibration" \/ (ca_jobs = <<>>))
  /\ IkTab!Init /\ (part = "kinematics" \/ (~ek_stored.numeric))
  /\ Sliders!Init
  /\ Teaching!Init
  /\ Editor!Init /\ (part = "programs" \/ (pr_store[1].nodes = <<>>))
  /\ Compact!Init
  /\ Gcode!Init
  /\ Preview!Init /\ (part = "preview" \/ (pp_motion_types = <<>>))
  /\ Run!Init
  /\ Frames!Init
  /\ Quats!Init
  /\ Public!Init /\ (part = "site" \/ (ps_enabled /\ ps_path = "/"))
  /\ Site!Init

WebNext ==
  \/ /\ part = "drag" /\ Next
     /\ UNCHANGED <<part, shell, onboarding, control, jog, workspace, views,
                    calibration, kinematics, parameters, teach, programs, list,
                    gcode, preview, run, frames, turns, site, demo>>
  \/ /\ part = "shell" /\ Shell!Next
     /\ UNCHANGED <<part, drag, onboarding, control, jog, workspace, views, calibration,
                    kinematics, parameters, teach, programs, list, gcode, preview,
                    run, frames, turns, site, demo>>
  \/ /\ part = "onboarding" /\ Wizard!Next
     /\ UNCHANGED <<part, drag, shell, control, jog, workspace, views, calibration,
                    kinematics, parameters, teach, programs, list, gcode, preview,
                    run, frames, turns, site, demo>>
  \/ /\ part = "control" /\ Control!Next
     /\ UNCHANGED <<part, drag, shell, onboarding, jog, workspace, views, calibration,
                    kinematics, parameters, teach, programs, list, gcode, preview,
                    run, frames, turns, site, demo>>
  \/ /\ part = "jog" /\ Jog!Next
     /\ UNCHANGED <<part, drag, shell, onboarding, control, workspace, views,
                    calibration, kinematics, parameters, teach, programs, list,
                    gcode, preview, run, frames, turns, site, demo>>
  \/ /\ part = "workspace" /\ Overlay!Next
     /\ UNCHANGED <<part, drag, shell, onboarding, control, jog, views, calibration,
                    kinematics, parameters, teach, programs, list, gcode, preview,
                    run, frames, turns, site, demo>>
  \/ /\ part = "views" /\ Views!Next
     /\ UNCHANGED <<part, drag, shell, onboarding, control, jog, workspace, calibration,
                    kinematics, parameters, teach, programs, list, gcode, preview,
                    run, frames, turns, site, demo>>
  \/ /\ part = "calibration" /\ Calib!Next
     /\ UNCHANGED <<part, drag, shell, onboarding, control, jog, workspace, views,
                    kinematics, parameters, teach, programs, list, gcode, preview,
                    run, frames, turns, site, demo>>
  \/ /\ part = "kinematics" /\ IkTab!Next
     /\ UNCHANGED <<part, drag, shell, onboarding, control, jog, workspace, views,
                    calibration, parameters, teach, programs, list, gcode,
                    preview, run, frames, turns, site, demo>>
  \/ /\ part = "parameters" /\ Sliders!Next
     /\ UNCHANGED <<part, drag, shell, onboarding, control, jog, workspace, views,
                    calibration, kinematics, teach, programs, list, gcode,
                    preview, run, frames, turns, site, demo>>
  \/ /\ part = "teach" /\ Teaching!Next
     /\ UNCHANGED <<part, drag, shell, onboarding, control, jog, workspace, views,
                    calibration, kinematics, parameters, programs, list, gcode,
                    preview, run, frames, turns, site, demo>>
  \/ /\ part = "programs" /\ Editor!Next
     /\ UNCHANGED <<part, drag, shell, onboarding, control, jog, workspace, views,
                    calibration, kinematics, parameters, teach, list, gcode,
                    preview, run, frames, turns, site, demo>>
  \/ /\ part = "list" /\ Compact!Next
     /\ UNCHANGED <<part, drag, shell, onboarding, control, jog, workspace, views,
                    calibration, kinematics, parameters, teach, programs, gcode,
                    preview, run, frames, turns, site, demo>>
  \/ /\ part = "gcode" /\ Gcode!Next
     /\ UNCHANGED <<part, drag, shell, onboarding, control, jog, workspace, views,
                    calibration, kinematics, parameters, teach, programs, list,
                    preview, run, frames, turns, site, demo>>
  \/ /\ part = "preview" /\ Preview!Next
     /\ UNCHANGED <<part, drag, shell, onboarding, control, jog, workspace, views,
                    calibration, kinematics, parameters, teach, programs, list,
                    gcode, run, frames, turns, site, demo>>
  \/ /\ part = "run" /\ Run!Next
     /\ UNCHANGED <<part, drag, shell, onboarding, control, jog, workspace, views,
                    calibration, kinematics, parameters, teach, programs, list,
                    gcode, preview, frames, turns, site, demo>>
  \/ /\ part = "frames" /\ Frames!Next
     /\ UNCHANGED <<part, drag, shell, onboarding, control, jog, workspace, views,
                    calibration, kinematics, parameters, teach, programs, list,
                    gcode, preview, run, turns, site, demo>>
  \/ /\ part = "turns" /\ Quats!Next
     /\ UNCHANGED <<part, drag, shell, onboarding, control, jog, workspace, views,
                    calibration, kinematics, parameters, teach, programs, list,
                    gcode, preview, run, frames, site, demo>>
  \/ /\ part = "site" /\ Public!Next
     /\ UNCHANGED <<part, drag, shell, onboarding, control, jog, workspace, views,
                    calibration, kinematics, parameters, teach, programs, list,
                    gcode, preview, run, frames, turns, demo>>
  \/ /\ part = "demo" /\ Site!Next
     /\ UNCHANGED <<part, drag, shell, onboarding, control, jog, workspace, views,
                    calibration, kinematics, parameters, teach, programs, list,
                    gcode, preview, run, frames, turns, site>>

webVars == <<part, drag, shell, onboarding, control, jog, workspace, views,
             calibration, kinematics, parameters, teach, programs, list,
             gcode, preview, run, frames, turns, site, demo>>

WebSpec == WebInit /\ [][WebNext]_webVars

-----------------------------------------------------------------------------
(* Properties.                                                             *)

\* Every variable of every part keeps its type.
PagesTypeOK ==
  /\ part = "shell" => Shell!TypeOK
  /\ part = "onboarding" => Wizard!TypeOK
  /\ part = "control" => Control!TypeOK
  /\ part = "jog" => Jog!TypeOK
  /\ part = "workspace" => Overlay!TypeOK
  /\ part = "views" => Views!TypeOK
  /\ part = "calibration" => Calib!TypeOK
  /\ part = "kinematics" => IkTab!TypeOK
  /\ part = "teach" => Teaching!TypeOK
  /\ part = "programs" => Editor!TypeOK
  /\ part = "list" => Compact!TypeOK
  /\ part = "gcode" => Gcode!TypeOK
  /\ part = "run" => Run!TypeOK
  /\ part = "site" => Public!TypeOK
  /\ part = "demo" => Site!TypeOK

\* A recording keeps its order: waypoints are in the order their poses were
\* taken, at the Brain, on the page and in every saved program, and the page
\* listens to the session it shows (TeachService, useTeachSession).
RecordingSound ==
  /\ part = "teach" => Teaching!WaypointsInOrder /\ Teaching!SocketFollowsSession

\* The workspace: there is a state socket or a scheduled reconnection, the
\* palette is disabled exactly while one request of its own is under way, a
\* flag of motion goes out, and angles, rows and ring buffers are those of
\* the newest message (useJointState, WorkspaceMenu, useActiveJoints, App).
WorkspaceSound ==
  /\ part = "control" => Control!AlwaysReconnecting /\ Control!BusyIsOneRequest
  /\ part = "views" => Views!LitFlagGoesOut /\ Views!ShownIsNewest

\* Answers that come late leave a page behind only in the ways its part names:
\* the overlay settles on its last request, and on the geometry of an edit it
\* was on for; the spinner is that of the search of this sign-in; a connected
\* panel of a run, and of a calibration job, shows the newest state sent unless
\* an update was missed or overtaken or a read was shown after it; the steps
\* beside a G-code run are its own; and no joint has two jobs that are not over.
LateAnswersHarmless ==
  /\ part = "workspace" => Overlay!OverlaySettles
  /\ part = "shell" => Shell!SpinnerIsSearch
  /\ part = "run" => Run!PanelCurrent
  /\ part = "gcode" => Gcode!RunShowsItsSteps
  /\ part = "calibration" => Calib!PanelFollowsJob /\ Calib!JobsSound

\* A calibration job that is over stays as it is, whatever its sweep, late
\* requests and other panels do (CalibrationService).
CalibrationJobs == Calib!JobsFinal

\* "Save & Run" runs what it saved (ProgramsPage); the compact editor's "Run"
\* does, or says that the save failed (ProgramListView).
RunsWhatItSaved == Editor!RunsWhatItSaved /\ Compact!RunsSavedOrSaysSo

\* A program that is loaded and saved again unedited keeps its nodes' kinds and
\* values, in order; what else it had is lost as the part's property says, and
\* an empty program gets a move (ProgramsPage.tsx, programAst.ts).
LoadThenSaveKeeps ==
  /\ part = "programs" => Editor!LoadThenSaveKeeps

\* The copies of the geometry agree but for one offset that the pages drop: the
\* kinematics of the page and of the scene are the Brain's of the chain without
\* it.  So do the quaternions made from them, typed angles, and the lines of the
\* G-code preview.
GeometryAgrees ==
  /\ part = "frames" => Frames!ThreeCopiesAgree /\ Frames!QuatTurnsAlike
  /\ part = "turns" => Quats!QuatFollowsTurns /\ Quats!EulerAwayFromPole
  /\ part = "preview" => Preview!EachMoveDrawnOnce

\* Editors show what the Brain or the machine has once they rest: the sliders
\* of the geometry, the solver's settings, the bindings of the machine the
\* wizard is about and the jog panel's target; two of them only as long as no
\* whole description was written back over another's change, or written late.
EditsMatchStore ==
  /\ part = "parameters" => Sliders!SlidersMatchParameters
  /\ part = "kinematics" => IkTab!ShownIsStored
  /\ part = "onboarding" => Wizard!ResultsAreBindings
  /\ part = "jog" => Jog!TargetIsCommanded

\* The public site: the demo's sparklines miss no frame, nothing sent while its
\* panel says LIVE is dropped, and telemetry gets every page and error in order.
SiteSound ==
  /\ part = "demo" => Site!HistoryIsTail /\ Site!LiveCommandsReach
  /\ part = "site" => Public!EventsInOrder
=============================================================================
