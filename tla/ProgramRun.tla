----------------------------- MODULE ProgramRun -----------------------------
(***************************************************************************)
(* The runs of programs on the Brain: ProgramService, the rows it saves    *)
(* and the events it publishes.                                            *)
(*                                                                         *)
(* The Brain is a Python asyncio process: what lies between two awaits is  *)
(* atomic.  A run's state is held in memory; every change of it is made    *)
(* first there, then saved (a SELECT, a COMMIT of the columns that differ  *)
(* from the row selected), then published.  The tasks that save a run, its *)
(* executor and the requests that start and stop it, use sessions of their *)
(* own, so their saves interleave.  The Brain may crash at any point and   *)
(* read the rows back when it is started again.                            *)
(*                                                                         *)
(* Simplifications: a step is the number of joint commands it sends, 0 for *)
(* a WAIT; a failing command, an unbound joint and a failing inverse       *)
(* kinematics are one outcome; the ids of crashed runs that were never     *)
(* saved may be used again.                                                *)
(***************************************************************************)
EXTENDS Integers, Sequences

CONSTANTS
  Runs,        \* bound: ids of runs
  Commands,    \* per step of the program: joint commands it sends
  MaxCrashes   \* bound: crashes of the Brain

ASSUME ProgramAssumption ==
  /\ Commands \in Seq(Nat)
  /\ MaxCrashes \in Nat

VARIABLES
  brain,      \* "down", "starting" (ProgramService.start is reading rows) or "up"
  mem,        \* _runs: status and current_step_index
  db,         \* the table program_runs
  save,       \* per run and caller: where _persist_and_publish is
  task,       \* where the executor task of each run is
  at,         \* the step the executor is at, from 0
  sent,       \* commands of that step sent so far
  shown,      \* the status in the last event published since the start
  late,       \* history: commands sent for a run that was not running
  crashes     \* crashes so far

executor == <<task, at, sent>>
vars     == <<brain, mem, db, save, executor, shown, late, crashes>>

Terminal == {"stopped", "completed", "faulted", "interrupted"}
Status   == {"none", "running"} \cup Terminal
Callers  == {"start", "stop", "exec", "boot"}
Steps    == Len(Commands)

NoRun == [status |-> "none", step |-> 0]
Idle  == [phase |-> "idle", run |-> NoRun, seen |-> NoRun]

Saving(run)  == [phase |-> "select", run |-> run, seen |-> NoRun]
Running(r)   == mem[r].status = "running"
IsMove(r)    == Commands[at[r] + 1] > 0
SavesIdle    == [r \in Runs |-> [w \in Callers |-> Idle]]

Init ==
  /\ brain = "down" /\ crashes = 0
  /\ mem = [r \in Runs |-> NoRun] /\ db = [r \in Runs |-> NoRun]
  /\ save = SavesIdle
  /\ task = [r \in Runs |-> "none"]
  /\ at = [r \in Runs |-> 0] /\ sent = [r \in Runs |-> 0]
  /\ shown = [r \in Runs |-> "none"] /\ late = [r \in Runs |-> 0]

-----------------------------------------------------------------------------
\* Mutant of StartRun: a run begins as "pending".
StartPending(r) ==
  /\ brain = "up" /\ mem[r] = NoRun /\ db[r] = NoRun
  /\ LET run == [status |-> "pending", step |-> 0] IN
       /\ mem' = [mem EXCEPT ![r] = run]
       /\ save' = [save EXCEPT ![r]["start"] = Saving(run)]
  /\ UNCHANGED <<brain, db, executor, shown, late, crashes>>

\* start_run up to its first await; the run is listed, and can be stopped,
\* before it is saved and before it has a task.
StartRun(r) ==
  /\ brain = "up" /\ mem[r] = NoRun /\ db[r] = NoRun
  /\ LET run == [status |-> "running", step |-> 0] IN
       /\ mem' = [mem EXCEPT ![r] = run]
       /\ save' = [save EXCEPT ![r]["start"] = Saving(run)]
  /\ UNCHANGED <<brain, db, executor, shown, late, crashes>>

\* stop_run up to its await; it refuses a run in a terminal state.
StopRun(r) ==
  /\ brain = "up" /\ Running(r)
  /\ LET run == [mem[r] EXCEPT !.status = "stopped"] IN
       /\ mem' = [mem EXCEPT ![r] = run]
       /\ save' = [save EXCEPT ![r]["stop"] = Saving(run)]
  /\ UNCHANGED <<brain, db, executor, shown, late, crashes>>

-----------------------------------------------------------------------------
\* Mutant of FaultRun: an exception faults a run that is over.
FaultAlways(r) ==
  LET run == [mem[r] EXCEPT !.status = "faulted"] IN
    /\ mem' = [mem EXCEPT ![r] = run]
    /\ save' = [save EXCEPT ![r]["exec"] = Saving(run)]
    /\ task' = [task EXCEPT ![r] = "ending"]

\* The executor's except branch: the run is faulted unless it is terminal.
FaultRun(r) ==
  IF Running(r)
  THEN LET run == [mem[r] EXCEPT !.status = "faulted"] IN
         /\ mem' = [mem EXCEPT ![r] = run]
         /\ save' = [save EXCEPT ![r]["exec"] = Saving(run)]
         /\ task' = [task EXCEPT ![r] = "ending"]
  ELSE /\ save' = [save EXCEPT ![r]["exec"] = Idle]
       /\ task' = [task EXCEPT ![r] = "done"]
       /\ UNCHANGED mem

\* Mutant of Advance: the status is not read again between steps.
AdvanceUnchecked(r) ==
  /\ task[r] = "top"
  /\ LET run == IF at[r] = Steps THEN [status |-> "completed", step |-> Steps]
                                 ELSE [status |-> "running", step |-> at[r]]
     IN /\ mem' = [mem EXCEPT ![r] = run]
        /\ save' = [save EXCEPT ![r]["exec"] = Saving(run)]
        /\ task' = [task EXCEPT ![r] = IF at[r] = Steps THEN "ending" ELSE "saving"]
  /\ UNCHANGED <<brain, db, at, sent, shown, late, crashes>>

\* Mutant of Advance: the end is saved before it is kept.
AdvanceSavingFirst(r) ==
  /\ task[r] = "top"
  /\ IF ~ Running(r)
     THEN /\ task' = [task EXCEPT ![r] = "done"]
          /\ UNCHANGED <<mem, save>>
     ELSE LET run == IF at[r] = Steps THEN [status |-> "completed", step |-> Steps]
                                      ELSE [status |-> "running", step |-> at[r]]
          IN /\ mem' = [mem EXCEPT ![r] = IF at[r] = Steps THEN @ ELSE run]
             /\ save' = [save EXCEPT ![r]["exec"] = Saving(run)]
             /\ task' = [task EXCEPT ![r] = IF at[r] = Steps THEN "ending" ELSE "saving"]
  /\ UNCHANGED <<brain, db, at, sent, shown, late, crashes>>

\* The executor between two steps: it leaves a run that is no longer running,
\* moves the step pointer of one that is, or completes it.
Advance(r) ==
  /\ task[r] = "top"
  /\ IF ~ Running(r)
     THEN /\ task' = [task EXCEPT ![r] = "done"]
          /\ UNCHANGED <<mem, save>>
     ELSE LET run == IF at[r] = Steps THEN [status |-> "completed", step |-> Steps]
                                      ELSE [status |-> "running", step |-> at[r]]
          IN /\ mem' = [mem EXCEPT ![r] = run]
             /\ save' = [save EXCEPT ![r]["exec"] = Saving(run)]
             /\ task' = [task EXCEPT ![r] = IF at[r] = Steps THEN "ending" ELSE "saving"]
  /\ UNCHANGED <<brain, db, at, sent, shown, late, crashes>>

\* move_joint sends the next command of the step, whatever became of the run
\* and of the machine's mode; a refused command is only logged.
SendCommand(r) ==
  /\ task[r] = "sending"
  /\ sent' = [sent EXCEPT ![r] = @ + 1]
  /\ task' = [task EXCEPT ![r] = IF sent[r] + 1 = Commands[at[r] + 1] THEN "waiting" ELSE @]
  /\ late' = [late EXCEPT ![r] = IF Running(r) THEN @ ELSE @ + 1]
  /\ UNCHANGED <<brain, mem, db, save, at, shown, crashes>>

\* The call fails or times out, a joint is not bound, or there is no solution.
SendFails(r) ==
  /\ task[r] = "sending"
  /\ FaultRun(r)
  /\ UNCHANGED <<brain, db, at, sent, shown, late, crashes>>

NextStep(r) ==
  /\ at' = [at EXCEPT ![r] = @ + 1]
  /\ task' = [task EXCEPT ![r] = "top"]
  /\ UNCHANGED <<mem, save>>

\* The joints have converged, or the state callback or the WAIT loop has found
\* the run not running.
StepEnds(r) ==
  /\ task[r] = "waiting"
  /\ NextStep(r)
  /\ UNCHANGED <<brain, db, sent, shown, late, crashes>>

\* Mutant of StepTimesOut: a step never times out.
StepHangs(r) ==
  /\ task[r] = "waiting" /\ IsMove(r) /\ ~ Running(r)
  /\ NextStep(r)
  /\ UNCHANGED <<brain, db, sent, shown, late, crashes>>

\* Mutant of StepTimesOut: a step of a stopped run does not time out.
StoppedStepHangs(r) ==
  /\ task[r] = "waiting" /\ IsMove(r) /\ Running(r)
  /\ FaultRun(r)
  /\ UNCHANGED <<brain, db, at, sent, shown, late, crashes>>

\* No convergence within _STEP_TIMEOUT_S: an error only if still running.
StepTimesOut(r) ==
  /\ task[r] = "waiting" /\ IsMove(r)
  /\ IF Running(r) THEN FaultRun(r) /\ UNCHANGED at ELSE NextStep(r)
  /\ UNCHANGED <<brain, db, sent, shown, late, crashes>>

-----------------------------------------------------------------------------
(* Saving and publishing: save_program_run in a session of its own, then   *)
(* the event.                                                              *)

Select(r, w) ==
  /\ save[r][w].phase = "select"
  /\ save' = [save EXCEPT ![r][w].phase = "commit", ![r][w].seen = db[r]]
  /\ UNCHANGED <<brain, mem, db, executor, shown, late, crashes>>

\* The session writes the columns that differ from the row it selected.
Written(old, seen, run) ==
  [status |-> IF run.status = seen.status THEN old.status ELSE run.status,
   step   |-> IF run.step = seen.step THEN old.step ELSE run.step]

\* A new row is inserted, which fails if the run has one by now.
Commit(r, w) ==
  /\ save[r][w].phase = "commit"
  /\ save[r][w].seen = NoRun => db[r] = NoRun
  /\ db' = [db EXCEPT ![r] = IF save[r][w].seen = NoRun THEN save[r][w].run
                             ELSE Written(db[r], save[r][w].seen, save[r][w].run)]
  /\ save' = [save EXCEPT ![r][w].phase = "publish"]
  /\ UNCHANGED <<brain, mem, executor, shown, late, crashes>>

\* What the caller does when its save returns: start_run creates the task,
\* the executor goes on to the step, start() keeps the run it has loaded.
Resume(r, w) ==
  /\ task' = CASE w = "start" -> [task EXCEPT ![r] = "top"]
               [] w = "exec" /\ task[r] = "ending" -> [task EXCEPT ![r] = "done"]
               [] w = "exec" /\ task[r] # "ending" ->
                    [task EXCEPT ![r] = IF IsMove(r) THEN "sending" ELSE "waiting"]
               [] w \in {"stop", "boot"} -> task
  /\ sent' = IF w = "exec" THEN [sent EXCEPT ![r] = 0] ELSE sent
  /\ mem' = IF w = "boot" THEN [mem EXCEPT ![r] = save[r][w].run] ELSE mem

Publish(r, w) ==
  /\ save[r][w].phase = "publish"
  /\ shown' = [shown EXCEPT ![r] = save[r][w].run.status]
  /\ save' = [save EXCEPT ![r][w] = Idle]
  /\ Resume(r, w)
  /\ UNCHANGED <<brain, db, at, late, crashes>>

Lost ==
  /\ brain' = "down"
  /\ mem' = [r \in Runs |-> NoRun] /\ save' = SavesIdle
  /\ task' = [r \in Runs |-> "none"]
  /\ at' = [r \in Runs |-> 0] /\ sent' = [r \in Runs |-> 0]
  /\ shown' = [r \in Runs |-> "none"] /\ late' = [r \in Runs |-> 0]

\* The database refuses the save; the exception goes to the caller.  start_run
\* then creates no task; start() raises and the Brain does not come up.
SaveFails(r, w) ==
  /\ save[r][w].phase \in {"select", "commit"}
  /\ \/ /\ w = "start"
        /\ task' = [task EXCEPT ![r] = "unstarted"]
        /\ save' = [save EXCEPT ![r][w] = Idle]
        /\ UNCHANGED <<brain, mem, at, sent, shown, late>>
     \/ /\ w = "stop"
        /\ save' = [save EXCEPT ![r][w] = Idle]
        /\ UNCHANGED <<brain, mem, executor, shown, late>>
     \/ /\ w = "exec" /\ FaultRun(r)
        /\ UNCHANGED <<brain, at, sent, shown, late>>
     \/ w = "boot" /\ Lost
  /\ UNCHANGED <<db, crashes>>

-----------------------------------------------------------------------------
Crash ==
  /\ brain # "down" /\ crashes < MaxCrashes
  /\ Lost
  /\ crashes' = crashes + 1
  /\ UNCHANGED db

Boot ==
  /\ brain = "down" /\ brain' = "starting"
  /\ UNCHANGED <<mem, db, save, executor, shown, late, crashes>>

Unread == {r \in Runs : db[r] # NoRun /\ mem[r] = NoRun}
Reading == \E r \in Runs : save[r]["boot"].phase # "idle"

\* Mutant of LoadRun: runs are loaded as they were saved.
LoadAsSaved(r) ==
  /\ brain = "starting" /\ r \in Unread
  /\ mem' = [mem EXCEPT ![r] = db[r]]
  /\ UNCHANGED <<brain, db, save, executor, shown, late, crashes>>

\* start() takes the next row; one that is not terminal is saved as interrupted
\* before it is kept.
LoadRun(r) ==
  /\ brain = "starting" /\ r \in Unread /\ ~ Reading
  /\ IF db[r].status \in Terminal
     THEN mem' = [mem EXCEPT ![r] = db[r]] /\ UNCHANGED save
     ELSE /\ save' = [save EXCEPT ![r]["boot"] = Saving([db[r] EXCEPT !.status = "interrupted"])]
          /\ UNCHANGED mem
  /\ UNCHANGED <<brain, db, executor, shown, late, crashes>>

Loaded ==
  /\ brain = "starting" /\ Unread = {} /\ ~ Reading
  /\ brain' = "up"
  /\ UNCHANGED <<mem, db, save, executor, shown, late, crashes>>

Execute(r) == Advance(r) \/ SendCommand(r) \/ SendFails(r) \/ StepEnds(r) \/ StepTimesOut(r)
Persist(r, w) == Select(r, w) \/ Commit(r, w) \/ Publish(r, w) \/ SaveFails(r, w)

Next ==
  \/ \E r \in Runs : StartRun(r) \/ StopRun(r) \/ Execute(r) \/ LoadRun(r)
  \/ \E r \in Runs, w \in Callers : Persist(r, w)
  \/ Boot \/ Loaded \/ Crash

Spec == Init /\ [][Next]_vars

\* The event loop runs every task that can run; a save ends one way or the
\* other; a call and a step have timeouts; a WAIT is a sleep.  Convergence,
\* requests and starting the Brain again are nobody's duty.
FairSpec ==
  /\ Spec
  /\ \A r \in Runs :
       /\ WF_vars(Advance(r))
       /\ WF_vars(SendCommand(r) \/ SendFails(r))
       /\ WF_vars(StepTimesOut(r) \/ (StepEnds(r) /\ ~ IsMove(r)))
       /\ \A w \in Callers : WF_vars(Persist(r, w))

-----------------------------------------------------------------------------
RunState  == [status : Status, step : 0 .. Steps]
SaveState == [phase : {"idle", "select", "commit", "publish"}, run : RunState, seen : RunState]

TypeOK ==
  /\ brain \in {"down", "starting", "up"}
  /\ mem \in [Runs -> RunState] /\ db \in [Runs -> RunState]
  /\ save \in [Runs -> [Callers -> SaveState]]
  /\ task \in [Runs -> {"none", "unstarted", "top", "saving", "sending", "waiting", "ending", "done"}]
  /\ at \in [Runs -> 0 .. Steps] /\ sent \in [Runs -> Nat]
  /\ shown \in [Runs -> Status] /\ late \in [Runs -> Nat]
  /\ crashes \in 0 .. MaxCrashes

\* While the Brain runs, a run that is over keeps the status it ended with: a
\* stop that races the end of a step is never overwritten by "running",
\* "completed" or "faulted", nor an end by a stop.
TerminalIsFinal ==
  [][\A r \in Runs : mem[r].status \in Terminal /\ brain' # "down"
                       => mem'[r].status = mem[r].status]_vars

\* Stopping a run is not immediate: the commands of the step it was stopped in
\* may still be sent, but none of a later step, and none once it has ended
\* in any other way.
StopsWithinStep ==
  \A r \in Runs : late[r] > 0 => /\ mem[r].status = "stopped"
                                 /\ late[r] <= Commands[mem[r].step + 1]

\* Neither the table nor the last event reports an end that memory does not:
\* what a client is told is over is over, and for the same reason.
NothingAhead ==
  brain = "up" =>
    \A r \in Runs : /\ db[r].status \in Terminal => mem[r].status = db[r].status
                    /\ shown[r] \in Terminal => mem[r].status = shown[r]

\* A run listed as running is being executed, or about to be: no restart and no
\* fault leaves one behind.  (A start_run whose save failed does.)
RunningIsExecuted ==
  \A r \in Runs : Running(r) =>
    \/ task[r] \in {"top", "saving", "sending", "waiting", "unstarted"}
    \/ save[r]["start"].phase # "idle"

\* Every run that has been started ends, even if its joints never converge.
RunsEnd == \A r \in Runs : Running(r) /\ task[r] # "unstarted"
                             ~> ~ Running(r) \/ task[r] = "unstarted"

\* The executor of a stopped run ends: nothing it waits for keeps it.
StopEndsTask == \A r \in Runs : mem[r].status = "stopped"
                  ~> task[r] \in {"none", "unstarted", "done"} /\ save[r]["start"].phase = "idle"
-----------------------------------------------------------------------------
(* Refinement: the memory of the Brain is the register of runs, its table  *)
(* what is kept of it; sessions, events, tasks and commands are hidden.    *)
Register == INSTANCE RunRegister WITH
  service <- IF brain = "up" THEN "up" ELSE "down", reported <- mem, kept <- db

\* Whatever the executor, the requests, the overlapping saves and the crashes
\* of the Brain do, its runs go through their steps one at a time, end once, and
\* are reported after a restart as they were kept: never as running, and with
\* the end that was kept.
ImplementsRegister == Register!Spec
=============================================================================
