---------------------------- MODULE RunRegister ----------------------------
(***************************************************************************)
(* What the Brain promises of the runs of programs, without saying how: a  *)
(* register of runs, as the API reports it, and the copy of it that is     *)
(* kept.  A run goes through its steps one at a time and ends once; the    *)
(* kept copy may lag behind the register but is never ahead of it; after a *)
(* crash the register is read back, and a run kept as running is kept as   *)
(* interrupted before it is reported again.                                *)
(*                                                                         *)
(* ProgramRun implements it: its memory is the register, its table the     *)
(* kept copy.                                                              *)
(***************************************************************************)
EXTENDS Naturals

CONSTANTS
  Runs,    \* bound: ids of runs
  Steps    \* steps of the program

VARIABLES
  service,   \* "up" or "down": does the API answer
  reported,  \* the register: status and step of each run
  kept       \* the kept copy of it

vars == <<service, reported, kept>>

NoRun      == [status |-> "none", step |-> 0]
Completed  == [status |-> "completed", step |-> Steps]
Ends       == {"stopped", "completed", "faulted", "interrupted"}

Init ==
  /\ service = "down"
  /\ reported = [r \in Runs |-> NoRun] /\ kept = [r \in Runs |-> NoRun]

-----------------------------------------------------------------------------
\* What becomes of a run that is reported as running.
Report(r, run) ==
  /\ service = "up"
  /\ reported' = [reported EXCEPT ![r] = run]
  /\ UNCHANGED <<service, kept>>

\* A new run, of which nothing is kept.
Start(r) ==
  /\ reported[r] = NoRun /\ kept[r] = NoRun
  /\ Report(r, [status |-> "running", step |-> 0])

\* The next step of a running run.
Move(r) ==
  /\ reported[r].status = "running" /\ reported[r].step + 1 < Steps
  /\ Report(r, [status |-> "running", step |-> reported[r].step + 1])

\* A running run is completed from its last step only.
Complete(r) ==
  /\ reported[r].status = "running" /\ reported[r].step + 1 >= Steps
  /\ Report(r, Completed)

\* It is stopped, or faults, in the step it is in.
Cut(r) ==
  /\ reported[r].status = "running"
  /\ \E s \in {"stopped", "faulted"} : Report(r, [status |-> s, step |-> reported[r].step])

\* Saves may be late and overlap: each column keeps what it has or takes what
\* is reported; the status may also be the one the run began with.
Keep(r) ==
  /\ service = "up" /\ reported[r] # NoRun
  /\ \E s \in {kept[r].status, "running", reported[r].status}, i \in {kept[r].step, reported[r].step} :
       s # "none" /\ kept' = [kept EXCEPT ![r] = [status |-> s, step |-> i]]
  /\ UNCHANGED <<service, reported>>

-----------------------------------------------------------------------------
\* The register is lost, what is kept is not.
Lose ==
  /\ service' = "down"
  /\ reported' = [r \in Runs |-> NoRun]
  /\ UNCHANGED kept

\* Before the service is up again: a run kept as running is kept as interrupted.
Interrupt(r) ==
  /\ service = "down" /\ reported[r] = NoRun /\ kept[r].status = "running"
  /\ kept' = [kept EXCEPT ![r] = [status |-> "interrupted", step |-> kept[r].step]]
  /\ UNCHANGED <<service, reported>>

\* A run is reported again as it was kept, once that is an end.
Restore(r) ==
  /\ service = "down" /\ reported[r] = NoRun /\ kept[r].status \in Ends
  /\ reported' = [reported EXCEPT ![r] = kept[r]]
  /\ UNCHANGED <<service, kept>>

\* The service is up when every run that is kept is reported.
Recover ==
  /\ service = "down" /\ service' = "up"
  /\ \A r \in Runs : kept[r] # NoRun => reported[r] # NoRun
  /\ UNCHANGED <<reported, kept>>

Next ==
  \/ \E r \in Runs : \/ Start(r) \/ Move(r) \/ Complete(r) \/ Cut(r) \/ Keep(r)
                     \/ Interrupt(r) \/ Restore(r)
  \/ Lose \/ Recover

Spec == Init /\ [][Next]_vars
=============================================================================
