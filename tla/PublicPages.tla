---------------------------- MODULE PublicPages ----------------------------
(***************************************************************************)
(* The public site: its pages with their telemetry, and the demo of an     *)
(* actuator.  Each is an instance of its module; the constants and the     *)
(* variables of a part carry its letters.                                  *)
(***************************************************************************)
EXTENDS Naturals

CONSTANTS
  ps_MaxMoves, ps_MaxHistory,
  de_Depth, de_MaxValue, de_MaxCommands, de_MaxFrames

\* The page that is open is in the browser's history.
ASSUME PublicPagesAssumption ==
  /\ {ps_MaxMoves, ps_MaxHistory, de_Depth, de_MaxValue, de_MaxCommands,
      de_MaxFrames}
     \subseteq Nat
  /\ ps_MaxHistory # 0

VARIABLES
  ps_path, ps_history, ps_at, ps_failed, ps_enabled, ps_bundle, ps_pending,
  ps_recorded, ps_told, ps_moves,
  de_ready, de_shown, de_history, de_panel, de_toWorker, de_toPage, de_wasm,
  de_running, de_core, de_fault, de_plant, de_sent, de_frames

site == <<ps_path, ps_history, ps_at, ps_failed, ps_enabled, ps_bundle,
  ps_pending, ps_recorded, ps_told, ps_moves>>
demo == <<de_ready, de_shown, de_history, de_panel, de_toWorker, de_toPage,
  de_wasm, de_running, de_core, de_fault, de_plant, de_sent, de_frames>>

Public == INSTANCE PublicSite
  WITH MaxMoves <- ps_MaxMoves, MaxHistory <- ps_MaxHistory,
       path <- ps_path, history <- ps_history, at <- ps_at, failed <- ps_failed,
       enabled <- ps_enabled, bundle <- ps_bundle, pending <- ps_pending,
       recorded <- ps_recorded, told <- ps_told, moves <- ps_moves
Site == INSTANCE Demo
  WITH Depth <- de_Depth, MaxValue <- de_MaxValue,
       MaxCommands <- de_MaxCommands, MaxFrames <- de_MaxFrames,
       ready <- de_ready, shown <- de_shown, history <- de_history, panel <-
       de_panel, toWorker <- de_toWorker, toPage <- de_toPage, wasm <- de_wasm,
       running <- de_running, core <- de_core, fault <- de_fault, plant <-
       de_plant, sent <- de_sent, frames <- de_frames
=============================================================================
