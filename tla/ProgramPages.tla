---------------------------- MODULE ProgramPages ----------------------------
(***************************************************************************)
(* The pages that make and run programs: teaching with the drag of the     *)
(* arm, the program editors, G-code with the preview of its path, and the  *)
(* view of a run.  Each part is an instance of its module, but for the     *)
(* drag, which is extended; the constants and the variables of a part      *)
(* carry its letters.                                                      *)
(***************************************************************************)
EXTENDS Drag

CONSTANTS
  te_MaxRequests, te_MaxInFlight, te_MaxPoses,
  pr_MaxValue, pr_MaxPrograms, pr_MaxSteps, pr_MaxEdits, pr_MaxCalls,
  pr_MaxInFlight,
  pl_MaxValue, pl_MaxPrograms, pl_MaxSteps, pl_MaxEdits, pl_MaxCalls,
  pl_MaxInFlight,
  gc_MaxFiles, gc_MaxCalls, gc_MaxInFlight,
  rv_MaxPrograms, rv_MaxRuns, rv_MaxSteps, rv_MaxGets, rv_Queue,
  pp_MotionType, pp_MaxPoses

\* A list of programs shows at least one, and a stored program has the two
\* nodes its page starts with.
ASSUME ProgramPagesAssumption ==
  /\ {te_MaxRequests, te_MaxInFlight, te_MaxPoses, pr_MaxValue, pr_MaxPrograms,
      pr_MaxSteps, pr_MaxEdits, pr_MaxCalls, pr_MaxInFlight, pl_MaxValue,
      pl_MaxPrograms, pl_MaxSteps, pl_MaxEdits, pl_MaxCalls, pl_MaxInFlight,
      gc_MaxFiles, gc_MaxCalls, gc_MaxInFlight, rv_MaxPrograms, rv_MaxRuns,
      rv_MaxSteps, rv_MaxGets, rv_Queue, pp_MaxPoses}
     \subseteq Nat
  /\ {rv_MaxPrograms, pr_MaxValue, pl_MaxValue} \subseteq Nat \ {0}
  /\ {pr_MaxPrograms, pr_MaxSteps, pl_MaxPrograms, pl_MaxSteps}
     \subseteq Nat \ {0, 1}

VARIABLES
  te_brain, te_sampled, te_sessions, te_programs, te_session, te_error,
  te_showSave, te_route, te_ws, te_net, te_sent,
  pr_store, pr_programId, pr_steps, pr_savedPrograms, pr_saving, pr_saveError,
  pr_deleteError, pr_runOf, pr_runError, pr_loaded, pr_calls, pr_fresh,
  pr_edits, pr_sent,
  pl_store, pl_programId, pl_steps, pl_saving, pl_saveError, pl_listLoading,
  pl_savedPrograms, pl_run, pl_runError, pl_calls, pl_fresh, pl_edits, pl_sent,
  gc_selectedSample, gc_file, gc_fileId, gc_preview, gc_result, gc_runOf,
  gc_runSteps, gc_generating, gc_uploading, gc_previewing, gc_translating,
  gc_errors, gc_calls, gc_sent,
  rv_runs, rv_rows, rv_saves, rv_listed, rv_selectedId, rv_runId, rv_running,
  rv_start, rv_stopping, rv_state, rv_unmounted, rv_sock, rv_gets, rv_behind,
  pp_motion_types, pp_segments, pp_i

teach == <<te_brain, te_sampled, te_sessions, te_programs, te_session, te_error,
  te_showSave, te_route, te_ws, te_net, te_sent>>
programs == <<pr_store, pr_programId, pr_steps, pr_savedPrograms, pr_saving,
  pr_saveError, pr_deleteError, pr_runOf, pr_runError, pr_loaded, pr_calls,
  pr_fresh, pr_edits, pr_sent>>
list == <<pl_store, pl_programId, pl_steps, pl_saving, pl_saveError,
  pl_listLoading, pl_savedPrograms, pl_run, pl_runError, pl_calls, pl_fresh,
  pl_edits, pl_sent>>
gcode == <<gc_selectedSample, gc_file, gc_fileId, gc_preview, gc_result,
  gc_runOf, gc_runSteps, gc_generating, gc_uploading, gc_previewing,
  gc_translating, gc_errors, gc_calls, gc_sent>>
run == <<rv_runs, rv_rows, rv_saves, rv_listed, rv_selectedId, rv_runId,
  rv_running, rv_start, rv_stopping, rv_state, rv_unmounted, rv_sock, rv_gets,
  rv_behind>>
preview == <<pp_motion_types, pp_segments, pp_i>>

drag == vars

Teaching == INSTANCE Teach
  WITH MaxRequests <- te_MaxRequests, MaxInFlight <- te_MaxInFlight,
       MaxPoses <- te_MaxPoses,
       brain <- te_brain, sampled <- te_sampled, sessions <- te_sessions,
       programs <- te_programs, session <- te_session, error <- te_error,
       showSave <- te_showSave, route <- te_route, ws <- te_ws, net <- te_net,
       sent <- te_sent
Editor == INSTANCE Programs
  WITH MaxValue <- pr_MaxValue, MaxPrograms <- pr_MaxPrograms,
       MaxSteps <- pr_MaxSteps, MaxEdits <- pr_MaxEdits,
       MaxCalls <- pr_MaxCalls, MaxInFlight <- pr_MaxInFlight,
       store <- pr_store, programId <- pr_programId, steps <- pr_steps,
       savedPrograms <- pr_savedPrograms, saving <- pr_saving,
       saveError <- pr_saveError, deleteError <- pr_deleteError,
       runOf <- pr_runOf, runError <- pr_runError, loaded <- pr_loaded,
       calls <- pr_calls, fresh <- pr_fresh, edits <- pr_edits,
       sent <- pr_sent
Compact == INSTANCE ProgramList
  WITH MaxValue <- pl_MaxValue, MaxPrograms <- pl_MaxPrograms,
       MaxSteps <- pl_MaxSteps, MaxEdits <- pl_MaxEdits,
       MaxCalls <- pl_MaxCalls, MaxInFlight <- pl_MaxInFlight,
       store <- pl_store, programId <- pl_programId, steps <- pl_steps, saving
       <- pl_saving, saveError <- pl_saveError, listLoading <- pl_listLoading,
       savedPrograms <- pl_savedPrograms, run <- pl_run, runError <-
       pl_runError, calls <- pl_calls, fresh <- pl_fresh, edits <- pl_edits,
       sent <- pl_sent
Gcode == INSTANCE GCode
  WITH MaxFiles <- gc_MaxFiles, MaxCalls <- gc_MaxCalls,
       MaxInFlight <- gc_MaxInFlight,
       selectedSample <- gc_selectedSample, file <- gc_file, fileId <-
       gc_fileId, preview <- gc_preview, result <- gc_result, runOf <- gc_runOf,
       runSteps <- gc_runSteps, generating <- gc_generating, uploading <-
       gc_uploading, previewing <- gc_previewing, translating <- gc_translating,
       errors <- gc_errors, calls <- gc_calls, sent <- gc_sent
Run == INSTANCE RunView
  WITH MaxPrograms <- rv_MaxPrograms, MaxRuns <- rv_MaxRuns,
       MaxSteps <- rv_MaxSteps, MaxGets <- rv_MaxGets, Queue <- rv_Queue,
       runs <- rv_runs, rows <- rv_rows, saves <- rv_saves,
       listed <- rv_listed, selectedId <- rv_selectedId, runId <- rv_runId,
       running <- rv_running, start <- rv_start, stopping <- rv_stopping,
       state <- rv_state, unmounted <- rv_unmounted, sock <- rv_sock,
       gets <- rv_gets, behind <- rv_behind
Preview == INSTANCE PathPreview
  WITH MotionType <- pp_MotionType, MaxPoses <- pp_MaxPoses,
       motion_types <- pp_motion_types, segments <- pp_segments, i <- pp_i
=============================================================================
