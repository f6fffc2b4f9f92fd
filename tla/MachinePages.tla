---------------------------- MODULE MachinePages ----------------------------
(***************************************************************************)
(* The pages about the machine itself: sign-in and shell, onboarding, the  *)
(* workspace with its palette, jog panel, overlay, joint rows and          *)
(* calibration, the machine editor with its kinematics tab, and the        *)
(* geometry they show.  Each part is an instance of its module; the        *)
(* constants and the variables of a part carry its letters.                *)
(***************************************************************************)
EXTENDS Integers

CONSTANTS
  as_MaxSent, as_MaxTokens, as_MaxAttempts,
  ob_MaxTemplates, ob_MaxLoads, ob_MaxPicks, ob_MaxBuilds, ob_MaxBinds,
  mc_MaxPos, mc_MaxRequests, mc_MaxDelay,
  jp_MaxCoord, jp_MaxJogs, jp_SE3, jp_Tool,
  ws_MaxFetches, ws_MaxEdits,
  jv_Joints, jv_MAX, jv_Threshold, jv_Position, jv_MaxMessages, jv_MaxRenders,
  ca_Joints, ca_MaxJobs, ca_MaxRequests, ca_MaxInFlight, ca_MaxMounts,
  ek_MaxPuts, ek_MaxApplies, ek_MaxMounts, ek_MaxOpens,
  dh_Joints, dh_Easy, dh_ReadOnly, dh_MaxValue, dh_MaxEdits,
  ki_Lengths, ki_Turns, ki_MaxJoints

ASSUME MachinePagesAssumption ==
  /\ {as_MaxSent, as_MaxTokens, as_MaxAttempts, ob_MaxTemplates, ob_MaxLoads,
      ob_MaxPicks, ob_MaxBuilds, ob_MaxBinds, mc_MaxPos, mc_MaxRequests,
      mc_MaxDelay, jp_MaxCoord, jp_MaxJogs, jp_Tool, ws_MaxFetches,
      ws_MaxEdits, jv_Joints, jv_MAX, jv_Threshold, jv_MaxMessages,
      jv_MaxRenders, ca_Joints, ca_MaxJobs, ca_MaxRequests, ca_MaxInFlight,
      ca_MaxMounts, ek_MaxPuts, ek_MaxApplies, ek_MaxMounts, ek_MaxOpens,
      dh_MaxValue, dh_MaxEdits, ki_MaxJoints}
     \subseteq Nat
  /\ {as_MaxSent, as_MaxTokens, ob_MaxLoads, ca_Joints, ca_MaxJobs, jv_Joints,
      jv_MAX, ek_MaxOpens}
     \subseteq Nat \ {0}
  /\ ki_Lengths \cup ki_Turns \subseteq Int

VARIABLES
  as_token, as_tokens, as_status, as_closure, as_submitting, as_path, as_from,
  as_menu, as_pwReq, as_hasMachine, as_machine, as_loading, as_check,
  as_checks, as_net, as_sent,
  ob_attempts, ob_loading, ob_templates, ob_pickErr, ob_fetches, ob_step,
  ob_template, ob_machineId, ob_builds, ob_results, ob_binding, ob_binds,
  ob_machines, ob_picks, ob_asked, ob_bound, ob_strayed,
  mc_mode, mc_pos, mc_socket, mc_timer, mc_delay, mc_connected, mc_state,
  mc_busy, mc_popovers, mc_net, mc_sent,
  jp_live, jp_commanded, jp_target, jp_lastResult, jp_error, jp_busy,
  jp_branchPref, jp_frame, jp_reqs, jp_jogs,
  ws_dh, ws_cached, ws_shownDh, ws_overlay, ws_data, ws_loading,
  ws_fetchError, ws_fetchCounter, ws_editor, ws_editLoading, ws_editError,
  ws_reqs, ws_opened, ws_applied, ws_missed,
  jv_chain, jv_measured, jv_history, jv_prev, jv_active, jv_timers,
  jv_selectedJoint, jv_showDebug, jv_detail, jv_messages, jv_renders,
  ca_jobs, ca_net, ca_sent, ca_debug, ca_selected, ca_cal, ca_mount, ca_shown,
  ca_error, ca_ws, ca_behind,
  ek_stored, ek_open, ek_opening, ek_machine, ek_loading, ek_error, ek_tab,
  ek_mounts, ek_draftEE, ek_eeEditing, ek_try, ek_reqs, ek_puts, ek_applies,
  ek_behind,
  dh_dhValues, dh_stored, dh_parameters, dh_tab, dh_aimed, dh_edits,
  ki_joints,
  or_quat, or_turned

shell == <<as_token, as_tokens, as_status, as_closure, as_submitting, as_path,
  as_from, as_menu, as_pwReq, as_hasMachine, as_machine, as_loading, as_check,
  as_checks, as_net, as_sent>>
onboarding == <<ob_attempts, ob_loading, ob_templates, ob_pickErr, ob_fetches,
  ob_step, ob_template, ob_machineId, ob_builds, ob_results, ob_binding,
  ob_binds, ob_machines, ob_picks, ob_asked, ob_bound, ob_strayed>>
control == <<mc_mode, mc_pos, mc_socket, mc_timer, mc_delay, mc_connected,
  mc_state, mc_busy, mc_popovers, mc_net, mc_sent>>
jog == <<jp_live, jp_commanded, jp_target, jp_lastResult, jp_error, jp_busy,
  jp_branchPref, jp_frame, jp_reqs, jp_jogs>>
workspace == <<ws_dh, ws_cached, ws_shownDh, ws_overlay, ws_data, ws_loading,
  ws_fetchError, ws_fetchCounter, ws_editor, ws_editLoading, ws_editError,
  ws_reqs, ws_opened, ws_applied, ws_missed>>
views == <<jv_chain, jv_measured, jv_history, jv_prev, jv_active, jv_timers,
  jv_selectedJoint, jv_showDebug, jv_detail, jv_messages, jv_renders>>
calibration == <<ca_jobs, ca_net, ca_sent, ca_debug, ca_selected, ca_cal,
  ca_mount, ca_shown, ca_error, ca_ws, ca_behind>>
kinematics == <<ek_stored, ek_open, ek_opening, ek_machine, ek_loading,
  ek_error, ek_tab, ek_mounts, ek_draftEE, ek_eeEditing, ek_try, ek_reqs,
  ek_puts, ek_applies, ek_behind>>
parameters == <<dh_dhValues, dh_stored, dh_parameters, dh_tab, dh_aimed,
  dh_edits>>
frames == <<ki_joints>>
turns == <<or_quat, or_turned>>

Shell == INSTANCE AppShell
  WITH MaxSent <- as_MaxSent, MaxTokens <- as_MaxTokens,
       MaxAttempts <- as_MaxAttempts,
       token <- as_token, tokens <- as_tokens, status <- as_status, closure <-
       as_closure, submitting <- as_submitting, path <- as_path, from <-
       as_from, menu <- as_menu, pwReq <- as_pwReq, hasMachine <- as_hasMachine,
       machine <- as_machine, loading <- as_loading, check <- as_check, checks
       <- as_checks, net <- as_net, sent <- as_sent
Wizard == INSTANCE Onboarding
  WITH MaxTemplates <- ob_MaxTemplates, MaxLoads <- ob_MaxLoads,
       MaxPicks <- ob_MaxPicks, MaxBuilds <- ob_MaxBuilds,
       MaxBinds <- ob_MaxBinds,
       attempts <- ob_attempts, loading <- ob_loading,
       templates <- ob_templates, pickErr <- ob_pickErr,
       fetches <- ob_fetches, step <- ob_step, template <- ob_template,
       machineId <- ob_machineId, builds <- ob_builds, results <- ob_results,
       binding <- ob_binding, binds <- ob_binds, machines <- ob_machines,
       picks <- ob_picks, asked <- ob_asked, bound <- ob_bound,
       strayed <- ob_strayed
Control == INSTANCE MachineControl
  WITH MaxPos <- mc_MaxPos, MaxRequests <- mc_MaxRequests,
       MaxDelay <- mc_MaxDelay,
       mode <- mc_mode, pos <- mc_pos, socket <- mc_socket, timer <- mc_timer,
       delay <- mc_delay, connected <- mc_connected, state <- mc_state, busy <-
       mc_busy, popovers <- mc_popovers, net <- mc_net, sent <- mc_sent
Jog == INSTANCE JogPanel
  WITH MaxCoord <- jp_MaxCoord, MaxJogs <- jp_MaxJogs, SE3 <- jp_SE3,
       Tool <- jp_Tool,
       live <- jp_live, commanded <- jp_commanded, target <- jp_target,
       lastResult <- jp_lastResult, error <- jp_error, busy <- jp_busy,
       branchPref <- jp_branchPref, frame <- jp_frame, reqs <- jp_reqs, jogs <-
       jp_jogs
Overlay == INSTANCE Workspace
  WITH MaxFetches <- ws_MaxFetches, MaxEdits <- ws_MaxEdits,
       dh <- ws_dh, cached <- ws_cached, shownDh <- ws_shownDh,
       overlay <- ws_overlay, data <- ws_data, loading <- ws_loading,
       fetchError <- ws_fetchError, fetchCounter <- ws_fetchCounter,
       editor <- ws_editor, editLoading <- ws_editLoading,
       editError <- ws_editError, reqs <- ws_reqs, opened <- ws_opened,
       applied <- ws_applied, missed <- ws_missed
Views == INSTANCE JointViews
  WITH Joints <- jv_Joints, MAX <- jv_MAX, Threshold <- jv_Threshold,
       Position <- jv_Position, MaxMessages <- jv_MaxMessages,
       MaxRenders <- jv_MaxRenders,
       chain <- jv_chain, measured <- jv_measured, history <- jv_history, prev
       <- jv_prev, active <- jv_active, timers <- jv_timers, selectedJoint <-
       jv_selectedJoint, showDebug <- jv_showDebug, detail <- jv_detail,
       messages <- jv_messages, renders <- jv_renders
Calib == INSTANCE Calibration
  WITH Joints <- ca_Joints, MaxJobs <- ca_MaxJobs,
       MaxRequests <- ca_MaxRequests, MaxInFlight <- ca_MaxInFlight,
       MaxMounts <- ca_MaxMounts,
       jobs <- ca_jobs, net <- ca_net, sent <- ca_sent, debug <- ca_debug,
       selected <- ca_selected, cal <- ca_cal, mount <- ca_mount,
       shown <- ca_shown, error <- ca_error, ws <- ca_ws, behind <- ca_behind
IkTab == INSTANCE EditKinematics
  WITH MaxPuts <- ek_MaxPuts, MaxApplies <- ek_MaxApplies,
       MaxMounts <- ek_MaxMounts, MaxOpens <- ek_MaxOpens,
       stored <- ek_stored, open <- ek_open, opening <- ek_opening,
       machine <- ek_machine, loading <- ek_loading, error <- ek_error,
       tab <- ek_tab, mounts <- ek_mounts, draftEE <- ek_draftEE,
       eeEditing <- ek_eeEditing, try <- ek_try, reqs <- ek_reqs,
       puts <- ek_puts, applies <- ek_applies, behind <- ek_behind
Sliders == INSTANCE DhEdit
  WITH Joints <- dh_Joints, Easy <- dh_Easy, ReadOnly <- dh_ReadOnly,
       MaxValue <- dh_MaxValue, MaxEdits <- dh_MaxEdits,
       dhValues <- dh_dhValues, stored <- dh_stored, parameters <-
       dh_parameters, tab <- dh_tab, aimed <- dh_aimed, edits <- dh_edits
Frames == INSTANCE Kinematics
  WITH Lengths <- ki_Lengths, Turns <- ki_Turns, MaxJoints <- ki_MaxJoints,
       joints <- ki_joints
Quats == INSTANCE Orientation
  WITH quat <- or_quat, turned <- or_turned

\* An alias of the template names a field of the chain: another target is
\* refused with a ValueError (_resolve_dh_target in models/machine.py).
ASSUME SlidersAssumption == dh_Easy \subseteq Sliders!Target
=============================================================================
