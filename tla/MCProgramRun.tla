---------------------------- MODULE MCProgramRun ----------------------------
(* A program of a MOVE_SE3 over two joints and a WAIT. *)
EXTENDS ProgramRun

Program == <<2, 0>>
=============================================================================
