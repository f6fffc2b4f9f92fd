-------------------------- MODULE ProgramRunProofs --------------------------
(***************************************************************************)
(* The safety properties of ProgramRun, and that it implements the         *)
(* register of runs, for any set of runs, any program and any number of    *)
(* crashes.                                                                *)
(***************************************************************************)
EXTENDS ProgramRun, TLAPS

Active == {"top", "saving", "sending", "waiting"}

\* What the executor knows of its run.
ExecutorOK(r) ==
  /\ task[r] # "none" => brain = "up"
  /\ task[r] \in Active => mem[r].status \in {"running", "stopped"}
  /\ task[r] \in {"saving", "sending", "waiting"} => at[r] < Steps /\ mem[r].step = at[r]
  /\ task[r] = "saving" => late[r] = 0
  /\ task[r] = "sending" => late[r] <= sent[r] /\ sent[r] < Commands[at[r] + 1]
  /\ task[r] \in {"ending", "done"} => mem[r].status \in Terminal
  /\ task[r] = "unstarted" => mem[r].status # "none"

\* What each save in flight may say of its run.
RequestOK(r, w) ==
  save[r][w].phase # "idle" =>
    /\ brain = "up" /\ mem[r].status # "none"
    /\ save[r][w].run.status \in Terminal => mem[r].status = save[r][w].run.status

BootOK(r) ==
  save[r]["boot"].phase # "idle" =>
    /\ brain = "starting" /\ mem[r].status = "none" /\ db[r] # NoRun
    /\ save[r]["boot"].run.status = "interrupted"
    /\ save[r]["boot"].phase = "commit" => save[r]["boot"].seen = db[r]
    /\ save[r]["boot"].phase = "publish" => db[r].status = "interrupted"

SavesOK(r) ==
  /\ \A w \in Callers \ {"boot"} : RequestOK(r, w)
  /\ BootOK(r)
  /\ save[r]["start"].phase # "idle" =>
       task[r] = "none" /\ mem[r].status \in {"running", "stopped"}
  /\ save[r]["exec"].phase # "idle" <=> task[r] \in {"saving", "ending"}

\* How memory, the table and the events agree.
RecordsOK(r) ==
  /\ mem[r].status = "none" <=> mem[r] = NoRun
  /\ late[r] > 0 => mem[r].status = "stopped" /\ late[r] <= Commands[mem[r].step + 1]
  /\ shown[r] \in Terminal => mem[r].status = shown[r]
  /\ brain = "up" /\ db[r].status \in Terminal => mem[r].status = db[r].status
  /\ brain = "starting" /\ mem[r] # NoRun =>
       mem[r].status \in Terminal /\ mem[r].status = db[r].status
  /\ brain = "down" => mem[r] = NoRun
  /\ Running(r) => \/ task[r] \in Active \cup {"unstarted"}
                   \/ save[r]["start"].phase # "idle"

RunInv(r) == ExecutorOK(r) /\ SavesOK(r) /\ RecordsOK(r)

ProgramInv == TypeOK /\ \A r \in Runs : RunInv(r)

USE DEF Status, Terminal, Callers, NoRun, Idle, Saving, Running

LEMMA StepsType == Steps \in Nat /\ \A i \in 0 .. Steps : i < Steps => Commands[i + 1] \in Nat
BY ProgramAssumption DEF Steps

LEMMA EmptyTypes == NoRun \in RunState /\ Idle \in SaveState
BY StepsType DEF RunState, SaveState

\* A state of a run whose status is replaced is a state of a run.
LEMMA StatusType ==
  ASSUME NEW run \in RunState, NEW s \in Status
  PROVE  /\ [run EXCEPT !.status = s] \in RunState
         /\ [run EXCEPT !.status = s].status = s
         /\ [run EXCEPT !.status = s].step = run.step
BY DEF RunState

\* Setting one save.
LEMMA SetSave ==
  ASSUME TypeOK, NEW r \in Runs, NEW w \in Callers, NEW s \in SaveState,
         save' = [save EXCEPT ![r][w] = s]
  PROVE  /\ save' \in [Runs -> [Callers -> SaveState]]
         /\ save'[r][w] = s
         /\ \A v \in Callers : v # w => save'[r][v] = save[r][v]
         /\ \A q \in Runs : q # r => save'[q] = save[q]
BY DEF TypeOK

\* A run none of whose parts changes keeps its invariant.
LEMMA Frame ==
  ASSUME NEW q \in Runs, RunInv(q), brain' = brain, mem'[q] = mem[q], db'[q] = db[q],
         save'[q] = save[q], task'[q] = task[q], at'[q] = at[q], sent'[q] = sent[q],
         shown'[q] = shown[q], late'[q] = late[q]
  PROVE  RunInv(q)'
BY DEF RunInv, ExecutorOK, SavesOK, RequestOK, BootOK, RecordsOK, Active

LEMMA StartRunStep ==
  ASSUME ProgramInv, NEW r \in Runs, StartRun(r)
  PROVE  ProgramInv'
<1> DEFINE run == [status |-> "running", step |-> 0]
<1> USE DEF executor
<1>1. run \in RunState /\ Saving(run) \in SaveState
  BY StepsType, EmptyTypes DEF RunState, SaveState
<1>2. RunInv(r) /\ TypeOK BY DEF ProgramInv
<1>3. /\ save' \in [Runs -> [Callers -> SaveState]]
      /\ save'[r]["start"] = Saving(run)
      /\ \A v \in Callers : v # "start" => save'[r][v] = save[r][v]
      /\ \A q \in Runs : q # r => save'[q] = save[q]
  BY <1>1, <1>2, SetSave DEF StartRun
<1>4. mem' \in [Runs -> RunState] /\ mem'[r] = run
  BY <1>1, <1>2 DEF StartRun, TypeOK
<1>5. TypeOK' BY <1>2, <1>3, <1>4 DEF StartRun, TypeOK
<1>6. ASSUME NEW q \in Runs, q # r PROVE RunInv(q)'
  BY <1>2, <1>3, <1>6, Frame DEF StartRun, TypeOK, ProgramInv
<1>7. RunInv(r)'
  <2>1. task[r] = "none" /\ \A v \in Callers : save[r][v].phase = "idle"
    BY <1>2 DEF StartRun, TypeOK, RunInv, ExecutorOK, SavesOK, RequestOK, BootOK, Active
  <2>2. ExecutorOK(r)' BY <1>2, <1>4, <2>1 DEF StartRun, ExecutorOK, Active
  <2>3. SavesOK(r)' BY <1>2, <1>3, <1>4, <2>1 DEF StartRun, SavesOK, RequestOK, BootOK
  <2>4. RecordsOK(r)' BY <1>2, <1>3, <1>4, <2>1 DEF StartRun, RecordsOK, RunInv, TypeOK
  <2> QED BY <2>2, <2>3, <2>4 DEF RunInv
<1> QED BY <1>5, <1>6, <1>7 DEF ProgramInv

LEMMA StopRunStep ==
  ASSUME ProgramInv, NEW r \in Runs, StopRun(r)
  PROVE  ProgramInv'
<1> DEFINE run == [mem[r] EXCEPT !.status = "stopped"]
<1> USE DEF executor
<1>1. RunInv(r) /\ TypeOK BY DEF ProgramInv
<1>2. /\ run \in RunState /\ run.status = "stopped" /\ run.step = mem[r].step
      /\ Saving(run) \in SaveState
  BY <1>1, StatusType, EmptyTypes DEF TypeOK, SaveState
<1>3. /\ save' \in [Runs -> [Callers -> SaveState]]
      /\ save'[r]["stop"] = Saving(run)
      /\ \A v \in Callers : v # "stop" => save'[r][v] = save[r][v]
      /\ \A q \in Runs : q # r => save'[q] = save[q]
  BY <1>1, <1>2, SetSave DEF StopRun
<1>4. mem' \in [Runs -> RunState] /\ mem'[r] = run
  BY <1>1, <1>2 DEF StopRun, TypeOK
<1> HIDE DEF run
<1>5. TypeOK' BY <1>1, <1>3, <1>4 DEF StopRun, TypeOK
<1>6. ASSUME NEW q \in Runs, q # r PROVE RunInv(q)'
  BY <1>1, <1>3, <1>6, Frame DEF StopRun, TypeOK, ProgramInv
<1>7. RunInv(r)'
  <2>1. ExecutorOK(r)' BY <1>1, <1>2, <1>4 DEF StopRun, ExecutorOK, RunInv, Active
  <2>2. SavesOK(r)' BY <1>1, <1>2, <1>3, <1>4 DEF StopRun, SavesOK, RequestOK, BootOK, RunInv
  <2>3. RecordsOK(r)' BY <1>1, <1>2, <1>3, <1>4 DEF StopRun, RecordsOK, RunInv, TypeOK
  <2> QED BY <2>1, <2>2, <2>3 DEF RunInv
<1> QED BY <1>5, <1>6, <1>7 DEF ProgramInv

\* The except branch, from wherever the executor raises.
LEMMA FaultStep ==
  ASSUME ProgramInv, NEW r \in Runs, FaultRun(r), task[r] \in Active \cup {"ending"},
         UNCHANGED <<brain, db, at, sent, shown, late, crashes>>
  PROVE  ProgramInv'
<1> DEFINE run == [mem[r] EXCEPT !.status = "faulted"]
<1>1. RunInv(r) /\ TypeOK /\ brain = "up" BY DEF ProgramInv, RunInv, ExecutorOK, Active
<1>2. /\ run \in RunState /\ run.status = "faulted" /\ run.step = mem[r].step
      /\ Saving(run) \in SaveState
  <2>1. mem[r] \in RunState /\ "faulted" \in Status BY <1>1 DEF TypeOK
  <2>2. run \in RunState /\ run.status = "faulted" /\ run.step = mem[r].step
    BY <2>1, StatusType
  <2> QED BY <2>2, EmptyTypes DEF SaveState
<1>3. CASE Running(r)
  <2>1. /\ save' \in [Runs -> [Callers -> SaveState]]
        /\ save'[r]["exec"] = Saving(run)
        /\ \A v \in Callers : v # "exec" => save'[r][v] = save[r][v]
        /\ \A q \in Runs : q # r => save'[q] = save[q]
    BY <1>1, <1>2, <1>3, SetSave DEF FaultRun
  <2>2. mem' \in [Runs -> RunState] /\ mem'[r] = run /\ task'[r] = "ending"
    <3>1. mem' = [mem EXCEPT ![r] = run] /\ task' = [task EXCEPT ![r] = "ending"]
      BY <1>3 DEF FaultRun
    <3> HIDE DEF run
    <3> QED BY <1>1, <1>2, <3>1 DEF TypeOK
  <2>3. TypeOK' BY <1>1, <1>3, <2>1, <2>2 DEF FaultRun, TypeOK
  <2>4. ASSUME NEW q \in Runs, q # r PROVE RunInv(q)'
    BY <1>1, <1>3, <2>1, <2>4, Frame DEF FaultRun, TypeOK, ProgramInv
  <2> HIDE DEF run
  <2>5. ExecutorOK(r)' BY <1>1, <1>2, <2>2 DEF ExecutorOK, Active
  <2>6. SavesOK(r)'
    BY <1>1, <1>2, <1>3, <2>1, <2>2 DEF SavesOK, RequestOK, BootOK, RunInv, Active
  <2>7. RecordsOK(r)' BY <1>1, <1>2, <1>3, <2>1, <2>2 DEF RecordsOK, RunInv, TypeOK
  <2> QED BY <2>3, <2>4, <2>5, <2>6, <2>7 DEF ProgramInv, RunInv
<1>4. CASE ~ Running(r)
  <2>1. /\ save' \in [Runs -> [Callers -> SaveState]]
        /\ save'[r]["exec"] = Idle
        /\ \A v \in Callers : v # "exec" => save'[r][v] = save[r][v]
        /\ \A q \in Runs : q # r => save'[q] = save[q]
    BY <1>1, <1>4, EmptyTypes, SetSave DEF FaultRun
  <2>2. mem' = mem /\ task'[r] = "done"
    BY <1>1, <1>4 DEF FaultRun, TypeOK
  <2>3. TypeOK' BY <1>1, <1>4, <2>1 DEF FaultRun, TypeOK
  <2>4. ASSUME NEW q \in Runs, q # r PROVE RunInv(q)'
    BY <1>1, <1>4, <2>1, <2>4, Frame DEF FaultRun, TypeOK, ProgramInv
  <2>5. ExecutorOK(r)' BY <1>1, <1>4, <2>2 DEF ExecutorOK, RunInv, Active
  <2>6. SavesOK(r)'
    BY <1>1, <1>4, <2>1, <2>2 DEF SavesOK, RequestOK, BootOK, RunInv, Active
  <2>7. RecordsOK(r)' BY <1>1, <1>4, <2>1, <2>2 DEF RecordsOK, RunInv, TypeOK
  <2> QED BY <2>3, <2>4, <2>5, <2>6, <2>7 DEF ProgramInv, RunInv
<1> QED BY <1>3, <1>4

LEMMA AdvanceStep ==
  ASSUME ProgramInv, NEW r \in Runs, Advance(r)
  PROVE  ProgramInv'
<1> DEFINE run == IF at[r] = Steps THEN [status |-> "completed", step |-> Steps]
                                   ELSE [status |-> "running", step |-> at[r]]
<1>1. RunInv(r) /\ TypeOK /\ brain = "up" BY DEF ProgramInv, RunInv, ExecutorOK, Advance, Active
<1>2. run \in RunState /\ Saving(run) \in SaveState
  BY <1>1, StepsType, EmptyTypes DEF TypeOK, RunState, SaveState
<1>3. CASE Running(r)
  <2>1. /\ save' \in [Runs -> [Callers -> SaveState]]
        /\ save'[r]["exec"] = Saving(run)
        /\ \A v \in Callers : v # "exec" => save'[r][v] = save[r][v]
        /\ \A q \in Runs : q # r => save'[q] = save[q]
    BY <1>1, <1>2, <1>3, SetSave DEF Advance
  <2>2. /\ mem' \in [Runs -> RunState] /\ mem'[r] = run
        /\ task'[r] = IF at[r] = Steps THEN "ending" ELSE "saving"
    <3>1. /\ mem' = [mem EXCEPT ![r] = run]
          /\ task' = [task EXCEPT ![r] = IF at[r] = Steps THEN "ending" ELSE "saving"]
      BY <1>3 DEF Advance
    <3>2. mem \in [Runs -> RunState] /\ task[r] = "top" /\ r \in DOMAIN task
      BY <1>1 DEF Advance, TypeOK
    <3> HIDE DEF run
    <3> QED BY <1>2, <3>1, <3>2
  <2>3. /\ at[r] = Steps => run.status = "completed"
        /\ at[r] # Steps => run.status = "running" /\ run.step = at[r] /\ at[r] < Steps
        /\ late[r] = 0
    <3>1. at[r] \in 0 .. Steps /\ late[r] \in Nat BY <1>1 DEF TypeOK
    <3>2. late[r] = 0 BY <1>1, <1>3, <3>1 DEF RunInv, RecordsOK
    <3> QED BY <3>1, <3>2, StepsType
  <2>4. TypeOK'
    <3>1. task' \in [Runs -> {"none", "unstarted", "top", "saving", "sending", "waiting",
                              "ending", "done"}]
      BY <1>1, <1>3 DEF Advance, TypeOK
    <3> QED BY <1>1, <1>3, <2>1, <2>2, <3>1 DEF Advance, TypeOK
  <2>5. ASSUME NEW q \in Runs, q # r PROVE RunInv(q)'
    BY <1>1, <1>3, <2>1, <2>5, Frame DEF Advance, TypeOK, ProgramInv
  <2> HIDE DEF run
  <2>6. ExecutorOK(r)' BY <1>1, <2>2, <2>3 DEF Advance, ExecutorOK, RunInv, Active
  <2>7. SavesOK(r)'
    BY <1>1, <1>3, <2>1, <2>2, <2>3 DEF Advance, SavesOK, RequestOK, BootOK, RunInv, Active
  <2>8. RecordsOK(r)'
    BY <1>1, <1>3, <2>1, <2>2, <2>3 DEF Advance, RecordsOK, RunInv, TypeOK, Active
  <2> QED BY <2>4, <2>5, <2>6, <2>7, <2>8 DEF ProgramInv, RunInv
<1>4. CASE ~ Running(r)
  <2>1. mem' = mem /\ save' = save /\ task'[r] = "done"
    BY <1>1, <1>4 DEF Advance, TypeOK
  <2>2. TypeOK' BY <1>1, <1>4, <2>1 DEF Advance, TypeOK
  <2>3. ASSUME NEW q \in Runs, q # r PROVE RunInv(q)'
    BY <1>1, <1>4, <2>1, <2>3, Frame DEF Advance, TypeOK, ProgramInv
  <2>4. ExecutorOK(r)' BY <1>1, <1>4, <2>1 DEF Advance, ExecutorOK, RunInv, Active
  <2>5. SavesOK(r)'
    BY <1>1, <1>4, <2>1 DEF Advance, SavesOK, RequestOK, BootOK, RunInv, Active
  <2>6. RecordsOK(r)' BY <1>1, <1>4, <2>1 DEF Advance, RecordsOK, RunInv, TypeOK
  <2> QED BY <2>2, <2>3, <2>4, <2>5, <2>6 DEF ProgramInv, RunInv
<1> QED BY <1>3, <1>4

LEMMA SendCommandStep ==
  ASSUME ProgramInv, NEW r \in Runs, SendCommand(r)
  PROVE  ProgramInv'
<1>1. RunInv(r) /\ TypeOK BY DEF ProgramInv
<1>2. /\ at[r] < Steps /\ mem[r].step = at[r] /\ at[r] \in Nat
      /\ Commands[at[r] + 1] \in Nat /\ sent[r] \in Nat /\ late[r] \in Nat
      /\ late[r] <= sent[r] /\ sent[r] < Commands[at[r] + 1]
      /\ mem[r].status \in {"running", "stopped"}
  BY <1>1, StepsType DEF SendCommand, TypeOK, RunInv, ExecutorOK, Active
<1>3. /\ sent'[r] = sent[r] + 1
      /\ task'[r] = IF sent[r] + 1 = Commands[at[r] + 1] THEN "waiting" ELSE "sending"
      /\ late'[r] = IF Running(r) THEN late[r] ELSE late[r] + 1
  BY <1>1 DEF SendCommand, TypeOK
<1>4. TypeOK'
  <2>1. sent' \in [Runs -> Nat] /\ late' \in [Runs -> Nat]
    BY <1>1, <1>2 DEF SendCommand, TypeOK
  <2>2. task' \in [Runs -> {"none", "unstarted", "top", "saving", "sending", "waiting",
                            "ending", "done"}]
    BY <1>1 DEF SendCommand, TypeOK
  <2> QED BY <1>1, <2>1, <2>2 DEF SendCommand, TypeOK
<1>5. ASSUME NEW q \in Runs, q # r PROVE RunInv(q)'
  BY <1>1, <1>5, Frame DEF SendCommand, TypeOK, ProgramInv
<1>6. RunInv(r)'
  <2>1. ExecutorOK(r)' BY <1>1, <1>2, <1>3 DEF SendCommand, ExecutorOK, RunInv, Active
  <2>2. SavesOK(r)' BY <1>1, <1>3 DEF SendCommand, SavesOK, RequestOK, BootOK, RunInv
  <2>3. RecordsOK(r)' BY <1>1, <1>2, <1>3 DEF SendCommand, RecordsOK, RunInv, Active
  <2> QED BY <2>1, <2>2, <2>3 DEF RunInv
<1> QED BY <1>4, <1>5, <1>6 DEF ProgramInv

LEMMA NextStepStep ==
  ASSUME ProgramInv, NEW r \in Runs, task[r] = "waiting", NextStep(r),
         UNCHANGED <<brain, db, sent, shown, late, crashes>>
  PROVE  ProgramInv'
<1>1. RunInv(r) /\ TypeOK BY DEF ProgramInv
<1>2. /\ at[r] < Steps /\ at[r] \in Nat /\ Steps \in Nat
      /\ mem[r].status \in {"running", "stopped"}
  BY <1>1, StepsType DEF TypeOK, RunInv, ExecutorOK, Active
<1>3. at'[r] = at[r] + 1 /\ task'[r] = "top" /\ mem' = mem /\ save' = save
  BY <1>1 DEF NextStep, TypeOK
<1>4. TypeOK'
  <2>1. at' \in [Runs -> 0 .. Steps] BY <1>1, <1>2 DEF NextStep, TypeOK
  <2>2. task' \in [Runs -> {"none", "unstarted", "top", "saving", "sending", "waiting",
                            "ending", "done"}]
    BY <1>1 DEF NextStep, TypeOK
  <2> QED BY <1>1, <1>3, <2>1, <2>2 DEF TypeOK
<1>5. ASSUME NEW q \in Runs, q # r PROVE RunInv(q)'
  BY <1>1, <1>5, Frame DEF NextStep, TypeOK, ProgramInv
<1>6. RunInv(r)'
  <2>1. ExecutorOK(r)' BY <1>1, <1>2, <1>3 DEF ExecutorOK, RunInv, Active
  <2>2. SavesOK(r)' BY <1>1, <1>3 DEF SavesOK, RequestOK, BootOK, RunInv
  <2>3. RecordsOK(r)' BY <1>1, <1>2, <1>3 DEF RecordsOK, RunInv, Active
  <2> QED BY <2>1, <2>2, <2>3 DEF RunInv
<1> QED BY <1>4, <1>5, <1>6 DEF ProgramInv

LEMMA ExecuteStep ==
  ASSUME ProgramInv, NEW r \in Runs, Execute(r)
  PROVE  ProgramInv'
<1>1. CASE Advance(r) BY <1>1, AdvanceStep
<1>2. CASE SendCommand(r) BY <1>2, SendCommandStep
<1>3. CASE SendFails(r) BY <1>3, FaultStep DEF SendFails, Active
<1>4. CASE StepEnds(r) BY <1>4, NextStepStep DEF StepEnds
<1>5. CASE StepTimesOut(r)
  <2>1. CASE Running(r) BY <1>5, <2>1, FaultStep DEF StepTimesOut, Active
  <2>2. CASE ~ Running(r) BY <1>5, <2>2, NextStepStep DEF StepTimesOut
  <2> QED BY <2>1, <2>2
<1> QED BY <1>1, <1>2, <1>3, <1>4, <1>5 DEF Execute

LEMMA SelectStep ==
  ASSUME ProgramInv, NEW r \in Runs, NEW w \in Callers, Select(r, w)
  PROVE  ProgramInv'
<1> DEFINE s == [save[r][w] EXCEPT !.phase = "commit", !.seen = db[r]]
<1> USE DEF executor
<1>1. RunInv(r) /\ TypeOK BY DEF ProgramInv
<1>2. /\ s \in SaveState
      /\ s.phase = "commit" /\ s.seen = db[r] /\ s.run = save[r][w].run
  <2>1. save[r][w] \in SaveState /\ db[r] \in RunState BY <1>1 DEF TypeOK
  <2> QED BY <2>1 DEF SaveState
<1>3. save' = [save EXCEPT ![r][w] = s] BY <1>1 DEF Select, TypeOK
<1> HIDE DEF s
<1>4. /\ save' \in [Runs -> [Callers -> SaveState]]
      /\ save'[r][w] = s
      /\ \A v \in Callers : v # w => save'[r][v] = save[r][v]
      /\ \A q \in Runs : q # r => save'[q] = save[q]
  BY <1>1, <1>2, <1>3, SetSave
<1>5. TypeOK' BY <1>1, <1>4 DEF Select, TypeOK
<1>6. ASSUME NEW q \in Runs, q # r PROVE RunInv(q)'
  BY <1>4, <1>6, Frame DEF Select, ProgramInv
<1>7. RunInv(r)'
  <2>1. ExecutorOK(r)' BY <1>1 DEF Select, ExecutorOK, RunInv, Active
  <2>2. \A v \in Callers \ {"boot"} : RequestOK(r, v)'
    BY <1>1, <1>2, <1>4 DEF Select, SavesOK, RequestOK, RunInv
  <2>3. BootOK(r)' BY <1>1, <1>2, <1>4 DEF Select, SavesOK, BootOK, RunInv
  <2>4. SavesOK(r)' BY <1>1, <1>2, <1>4, <2>2, <2>3 DEF Select, SavesOK, RunInv
  <2>5. RecordsOK(r)' BY <1>1, <1>2, <1>4 DEF Select, RecordsOK, RunInv
  <2> QED BY <2>1, <2>4, <2>5 DEF RunInv
<1> QED BY <1>5, <1>6, <1>7 DEF ProgramInv

LEMMA CommitStep ==
  ASSUME ProgramInv, NEW r \in Runs, NEW w \in Callers, Commit(r, w)
  PROVE  ProgramInv'
<1> DEFINE s == [save[r][w] EXCEPT !.phase = "publish"]
           row == IF save[r][w].seen = NoRun THEN save[r][w].run
                  ELSE Written(db[r], save[r][w].seen, save[r][w].run)
<1> USE DEF executor
<1>1. RunInv(r) /\ TypeOK BY DEF ProgramInv
<1>2. s \in SaveState /\ s.phase = "publish" /\ s.run = save[r][w].run
  <2>1. save[r][w] \in SaveState BY <1>1 DEF TypeOK
  <2> QED BY <2>1 DEF SaveState
<1>3. save' = [save EXCEPT ![r][w] = s] BY <1>1 DEF Commit, TypeOK
<1> HIDE DEF s
<1>4. /\ save' \in [Runs -> [Callers -> SaveState]]
      /\ save'[r][w] = s
      /\ \A v \in Callers : v # w => save'[r][v] = save[r][v]
      /\ \A q \in Runs : q # r => save'[q] = save[q]
  BY <1>1, <1>2, <1>3, SetSave
<1>5. /\ row \in RunState
      /\ row.status = save[r][w].run.status \/ row.status = db[r].status
  BY <1>1 DEF TypeOK, SaveState, RunState, Written
<1>6. db' = [db EXCEPT ![r] = row] BY DEF Commit
<1>7. w = "boot" => row.status = "interrupted"
  BY <1>1 DEF Commit, RunInv, SavesOK, BootOK, Written
<1> HIDE DEF row
<1>8. db' \in [Runs -> RunState] /\ db'[r] = row BY <1>1, <1>5, <1>6 DEF TypeOK
<1>9. TypeOK' BY <1>1, <1>4, <1>8 DEF Commit, TypeOK
<1>10. ASSUME NEW q \in Runs, q # r PROVE RunInv(q)'
  BY <1>1, <1>4, <1>6, <1>10, Frame DEF Commit, ProgramInv, TypeOK
<1>11. RunInv(r)'
  <2>1. ExecutorOK(r)' BY <1>1 DEF Commit, ExecutorOK, RunInv, Active
  <2>2. w # "boot" => brain = "up" /\ save[r]["boot"].phase = "idle"
    BY <1>1 DEF Commit, RunInv, SavesOK, RequestOK, BootOK
  <2>3. \A v \in Callers \ {"boot"} : RequestOK(r, v)'
    BY <1>1, <1>2, <1>4 DEF Commit, SavesOK, RequestOK, RunInv
  <2>4. BootOK(r)'
    BY <1>1, <1>2, <1>4, <1>7, <1>8, <2>2 DEF Commit, SavesOK, BootOK, RunInv
  <2>5. SavesOK(r)' BY <1>1, <1>2, <1>4, <2>3, <2>4 DEF Commit, SavesOK, RunInv
  <2>6. RecordsOK(r)'
    <3>1. CASE w = "boot"
      BY <1>1, <1>2, <1>4, <3>1 DEF Commit, RecordsOK, SavesOK, BootOK, RunInv
    <3>2. CASE w # "boot"
      <4>1. row.status \in Terminal => mem[r].status = row.status
        BY <1>1, <1>5, <2>2, <3>2 DEF Commit, RecordsOK, SavesOK, RequestOK, RunInv
      <4> QED
        BY <1>1, <1>2, <1>4, <1>8, <2>2, <3>2, <4>1 DEF Commit, RecordsOK, RunInv
    <3> QED BY <3>1, <3>2
  <2> QED BY <2>1, <2>5, <2>6 DEF RunInv
<1> QED BY <1>9, <1>10, <1>11 DEF ProgramInv

LEMMA PublishStep ==
  ASSUME ProgramInv, NEW r \in Runs, NEW w \in Callers, Publish(r, w)
  PROVE  ProgramInv'
<1>1. RunInv(r) /\ TypeOK BY DEF ProgramInv
<1>2. /\ save' \in [Runs -> [Callers -> SaveState]]
      /\ save'[r][w] = Idle
      /\ \A v \in Callers : v # w => save'[r][v] = save[r][v]
      /\ \A q \in Runs : q # r => save'[q] = save[q]
  <2>1. save' = [save EXCEPT ![r][w] = Idle] BY DEF Publish
  <2> HIDE DEF Idle
  <2> QED BY <1>1, <2>1, EmptyTypes, SetSave
<1>3. save[r][w].run \in RunState /\ save[r][w].run.status \in Status
  BY <1>1 DEF TypeOK, SaveState, RunState
<1>4. shown' \in [Runs -> Status] /\ shown'[r] = save[r][w].run.status
  BY <1>1, <1>3 DEF Publish, TypeOK
<1>5. sent' \in [Runs -> Nat] BY <1>1 DEF Publish, Resume, TypeOK
<1>6. mem' \in [Runs -> RunState] BY <1>1, <1>3 DEF Publish, Resume, TypeOK
<1>7. task' \in [Runs -> {"none", "unstarted", "top", "saving", "sending", "waiting",
                          "ending", "done"}]
  BY <1>1 DEF Publish, Resume, TypeOK
<1>8. TypeOK' BY <1>1, <1>2, <1>4, <1>5, <1>6, <1>7 DEF Publish, TypeOK
<1>9. ASSUME NEW q \in Runs, q # r PROVE RunInv(q)'
  <2>1. task'[q] = task[q] /\ sent'[q] = sent[q] /\ mem'[q] = mem[q]
    BY <1>1, <1>9 DEF Publish, Resume, TypeOK
  <2> QED BY <1>1, <1>2, <1>9, <2>1, Frame DEF Publish, ProgramInv, TypeOK
<1>10. RunInv(r)'
  <2>1. CASE w = "start"
    <3>1. task[r] = "none" /\ brain = "up" /\ mem[r].status \in {"running", "stopped"}
      BY <1>1, <2>1 DEF Publish, SavesOK, RequestOK, RunInv
    <3>2. task'[r] = "top" /\ sent' = sent /\ mem' = mem
      BY <1>1, <2>1 DEF Publish, Resume, TypeOK
    <3>3. ExecutorOK(r)' BY <3>1, <3>2 DEF Publish, ExecutorOK, Active
    <3>4. SavesOK(r)'
      BY <1>1, <1>2, <2>1, <3>1, <3>2 DEF Publish, SavesOK, RequestOK, BootOK, RunInv
    <3>5. RecordsOK(r)'
      BY <1>1, <1>2, <1>4, <2>1, <3>1, <3>2
      DEF Publish, RecordsOK, SavesOK, RequestOK, RunInv, Active
    <3> QED BY <3>3, <3>4, <3>5 DEF RunInv
  <2>2. CASE w = "stop"
    <3>1. task' = task /\ sent' = sent /\ mem' = mem
      BY <1>1, <2>2 DEF Publish, Resume, TypeOK
    <3>2. ExecutorOK(r)' BY <1>1, <3>1 DEF Publish, ExecutorOK, RunInv, Active
    <3>3. SavesOK(r)'
      BY <1>1, <1>2, <2>2, <3>1 DEF Publish, SavesOK, RequestOK, BootOK, RunInv
    <3>4. RecordsOK(r)'
      BY <1>1, <1>2, <1>4, <2>2, <3>1
      DEF Publish, RecordsOK, SavesOK, RequestOK, RunInv, Active
    <3> QED BY <3>2, <3>3, <3>4 DEF RunInv
  <2>3. CASE w = "exec" /\ task[r] = "ending"
    <3>1. task'[r] = "done" /\ mem' = mem
      BY <1>1, <2>3 DEF Publish, Resume, TypeOK
    <3>2. ExecutorOK(r)' BY <1>1, <2>3, <3>1 DEF Publish, ExecutorOK, RunInv, Active
    <3>3. SavesOK(r)'
      BY <1>1, <1>2, <2>3, <3>1 DEF Publish, SavesOK, RequestOK, BootOK, RunInv
    <3>4. RecordsOK(r)'
      BY <1>1, <1>2, <1>4, <2>3, <3>1
      DEF Publish, RecordsOK, SavesOK, RequestOK, ExecutorOK, RunInv, Active
    <3> QED BY <3>2, <3>3, <3>4 DEF RunInv
  <2>4. CASE w = "exec" /\ task[r] # "ending"
    <3>1. task[r] = "saving" BY <1>1, <2>4 DEF Publish, RunInv, SavesOK
    <3>2. /\ task'[r] = IF IsMove(r) THEN "sending" ELSE "waiting"
          /\ mem' = mem /\ sent'[r] = 0
      BY <1>1, <2>4 DEF Publish, Resume, TypeOK
    <3>3. /\ at[r] \in 0 .. Steps /\ at[r] < Steps /\ late[r] = 0 /\ mem[r].step = at[r]
          /\ Commands[at[r] + 1] \in Nat
      BY <1>1, <3>1, StepsType DEF TypeOK, RunInv, ExecutorOK
    <3>4. ExecutorOK(r)'
      BY <1>1, <3>1, <3>2, <3>3 DEF Publish, ExecutorOK, RunInv, Active, IsMove
    <3>5. SavesOK(r)'
      BY <1>1, <1>2, <2>4, <3>1, <3>2 DEF Publish, SavesOK, RequestOK, BootOK, RunInv
    <3>6. RecordsOK(r)'
      BY <1>1, <1>2, <1>4, <2>4, <3>1, <3>2
      DEF Publish, RecordsOK, SavesOK, RequestOK, RunInv, Active
    <3> QED BY <3>4, <3>5, <3>6 DEF RunInv
  <2>5. CASE w = "boot"
    <3>1. /\ brain = "starting" /\ mem[r] = NoRun /\ task[r] = "none"
          /\ save[r]["boot"].run.status = "interrupted" /\ db[r].status = "interrupted"
      BY <1>1, <2>5 DEF Publish, SavesOK, BootOK, RunInv, RecordsOK, ExecutorOK
    <3>2. task' = task /\ sent' = sent /\ mem'[r] = save[r]["boot"].run
      BY <1>1, <2>5 DEF Publish, Resume, TypeOK
    <3>3. ExecutorOK(r)' BY <3>1, <3>2 DEF Publish, ExecutorOK, Active
    <3>4. SavesOK(r)'
      BY <1>1, <1>2, <2>5, <3>1, <3>2 DEF Publish, SavesOK, RequestOK, BootOK, RunInv
    <3>5. RecordsOK(r)'
      BY <1>1, <1>2, <1>4, <2>5, <3>1, <3>2 DEF Publish, RecordsOK, RunInv, Active
    <3> QED BY <3>3, <3>4, <3>5 DEF RunInv
  <2> QED BY <2>1, <2>2, <2>3, <2>4, <2>5
<1> QED BY <1>8, <1>9, <1>10 DEF ProgramInv

\* The end of the process leaves nothing but the table.
LEMMA LostStep ==
  ASSUME ProgramInv, Lost, db' = db, crashes' \in 0 .. MaxCrashes
  PROVE  ProgramInv'
<1>1. TypeOK BY DEF ProgramInv
<1>2. mem' \in [Runs -> RunState] /\ save' \in [Runs -> [Callers -> SaveState]]
  <2> HIDE DEF Idle, NoRun, Callers
  <2> QED BY EmptyTypes DEF Lost, SavesIdle
<1>3. at' \in [Runs -> 0 .. Steps] BY StepsType DEF Lost
<1>4. TypeOK' BY <1>1, <1>2, <1>3 DEF Lost, TypeOK
<1>5. ASSUME NEW r \in Runs PROVE RunInv(r)'
  <2>1. /\ mem'[r] = NoRun /\ task'[r] = "none" /\ shown'[r] = "none" /\ late'[r] = 0
        /\ brain' = "down" /\ \A v \in Callers : save'[r][v].phase = "idle"
    BY DEF Lost, SavesIdle
  <2> QED BY <2>1 DEF RunInv, ExecutorOK, SavesOK, RequestOK, BootOK, RecordsOK, Active
<1> QED BY <1>4, <1>5 DEF ProgramInv

LEMMA SaveFailsStep ==
  ASSUME ProgramInv, NEW r \in Runs, NEW w \in Callers, SaveFails(r, w)
  PROVE  ProgramInv'
<1> USE DEF executor
<1>1. RunInv(r) /\ TypeOK BY DEF ProgramInv
<1>2. ASSUME w \in {"start", "stop"}, save' = [save EXCEPT ![r][w] = Idle]
      PROVE  /\ save' \in [Runs -> [Callers -> SaveState]]
             /\ save'[r][w] = Idle
             /\ \A v \in Callers : v # w => save'[r][v] = save[r][v]
             /\ \A q \in Runs : q # r => save'[q] = save[q]
  <2> HIDE DEF Idle
  <2> QED BY <1>1, <1>2, EmptyTypes, SetSave
<1>3. CASE w = "start"
  <2>1. /\ save' \in [Runs -> [Callers -> SaveState]]
        /\ save'[r][w] = Idle
        /\ \A v \in Callers : v # w => save'[r][v] = save[r][v]
        /\ \A q \in Runs : q # r => save'[q] = save[q]
    BY <1>2, <1>3 DEF SaveFails
  <2>2. task'[r] = "unstarted" BY <1>1, <1>3 DEF SaveFails, TypeOK
  <2>3. TypeOK'
    <3>1. task' \in [Runs -> {"none", "unstarted", "top", "saving", "sending", "waiting",
                              "ending", "done"}]
      BY <1>1, <1>3 DEF SaveFails, TypeOK
    <3> QED BY <1>1, <1>3, <2>1, <3>1 DEF SaveFails, TypeOK
  <2>4. ASSUME NEW q \in Runs, q # r PROVE RunInv(q)'
    BY <1>1, <1>3, <2>1, <2>4, Frame DEF SaveFails, TypeOK, ProgramInv
  <2>5. ExecutorOK(r)'
    BY <1>1, <1>3, <2>2 DEF SaveFails, ExecutorOK, SavesOK, RequestOK, RunInv, Active
  <2>6. SavesOK(r)'
    BY <1>1, <1>3, <2>1, <2>2 DEF SaveFails, SavesOK, RequestOK, BootOK, RunInv
  <2>7. RecordsOK(r)'
    BY <1>1, <1>3, <2>1, <2>2 DEF SaveFails, RecordsOK, RunInv, Active
  <2> QED BY <2>3, <2>4, <2>5, <2>6, <2>7 DEF ProgramInv, RunInv
<1>4. CASE w = "stop"
  <2>1. /\ save' \in [Runs -> [Callers -> SaveState]]
        /\ save'[r][w] = Idle
        /\ \A v \in Callers : v # w => save'[r][v] = save[r][v]
        /\ \A q \in Runs : q # r => save'[q] = save[q]
    BY <1>2, <1>4 DEF SaveFails
  <2>2. TypeOK' BY <1>1, <1>4, <2>1 DEF SaveFails, TypeOK
  <2>3. ASSUME NEW q \in Runs, q # r PROVE RunInv(q)'
    BY <1>1, <1>4, <2>1, <2>3, Frame DEF SaveFails, TypeOK, ProgramInv
  <2>4. ExecutorOK(r)' BY <1>1, <1>4 DEF SaveFails, ExecutorOK, RunInv, Active
  <2>5. SavesOK(r)'
    BY <1>1, <1>4, <2>1 DEF SaveFails, SavesOK, RequestOK, BootOK, RunInv
  <2>6. RecordsOK(r)'
    BY <1>1, <1>4, <2>1 DEF SaveFails, RecordsOK, RunInv, Active
  <2> QED BY <2>2, <2>3, <2>4, <2>5, <2>6 DEF ProgramInv, RunInv
<1>5. CASE w = "exec"
  <2>1. task[r] \in Active \cup {"ending"}
    BY <1>1, <1>5 DEF SaveFails, SavesOK, RunInv, Active
  <2> QED BY <1>5, <2>1, FaultStep DEF SaveFails
<1>6. CASE w = "boot" BY <1>1, <1>6, LostStep DEF SaveFails, TypeOK
<1> QED BY <1>3, <1>4, <1>5, <1>6

LEMMA LoadRunStep ==
  ASSUME ProgramInv, NEW r \in Runs, LoadRun(r)
  PROVE  ProgramInv'
<1> USE DEF executor
<1>1. /\ RunInv(r) /\ TypeOK /\ brain = "starting"
      /\ db[r] # NoRun /\ mem[r] = NoRun /\ save[r]["boot"].phase = "idle"
  BY DEF ProgramInv, LoadRun, Unread, Reading
<1>2. CASE db[r].status \in Terminal
  <2>1. mem' \in [Runs -> RunState] /\ mem'[r] = db[r] /\ save' = save
    BY <1>1, <1>2 DEF LoadRun, TypeOK
  <2>2. TypeOK' BY <1>1, <2>1 DEF LoadRun, TypeOK
  <2>3. ASSUME NEW q \in Runs, q # r PROVE RunInv(q)'
    BY <1>1, <1>2, <2>3, Frame DEF LoadRun, TypeOK, ProgramInv
  <2>4. ExecutorOK(r)' BY <1>1, <2>1 DEF LoadRun, ExecutorOK, RunInv, Active
  <2>5. SavesOK(r)'
    BY <1>1, <2>1 DEF LoadRun, SavesOK, RequestOK, BootOK, RunInv
  <2>6. RecordsOK(r)' BY <1>1, <1>2, <2>1 DEF LoadRun, RecordsOK, RunInv, Active
  <2> QED BY <2>2, <2>3, <2>4, <2>5, <2>6 DEF ProgramInv, RunInv
<1>3. CASE db[r].status \notin Terminal
  <2> DEFINE run == [db[r] EXCEPT !.status = "interrupted"]
  <2>1. run \in RunState /\ run.status = "interrupted" /\ Saving(run) \in SaveState
    <3>1. db[r] \in RunState /\ "interrupted" \in Status BY <1>1 DEF TypeOK
    <3>2. run \in RunState /\ run.status = "interrupted" BY <3>1, StatusType
    <3> QED BY <3>2, EmptyTypes DEF SaveState
  <2>2. /\ save' \in [Runs -> [Callers -> SaveState]]
        /\ save'[r]["boot"] = Saving(run)
        /\ \A v \in Callers : v # "boot" => save'[r][v] = save[r][v]
        /\ \A q \in Runs : q # r => save'[q] = save[q]
    BY <1>1, <1>3, <2>1, SetSave DEF LoadRun
  <2>3. mem' = mem BY <1>3 DEF LoadRun
  <2> HIDE DEF run
  <2>4. TypeOK' BY <1>1, <2>2, <2>3 DEF LoadRun, TypeOK
  <2>5. ASSUME NEW q \in Runs, q # r PROVE RunInv(q)'
    BY <1>1, <2>2, <2>3, <2>5, Frame DEF LoadRun, TypeOK, ProgramInv
  <2>6. ExecutorOK(r)' BY <1>1, <2>3 DEF LoadRun, ExecutorOK, RunInv, Active
  <2>7. SavesOK(r)'
    BY <1>1, <2>1, <2>2, <2>3 DEF LoadRun, SavesOK, RequestOK, BootOK, RunInv
  <2>8. RecordsOK(r)' BY <1>1, <2>2, <2>3 DEF LoadRun, RecordsOK, RunInv, Active
  <2> QED BY <2>4, <2>5, <2>6, <2>7, <2>8 DEF ProgramInv, RunInv
<1> QED BY <1>2, <1>3

LEMMA BrainStep ==
  ASSUME ProgramInv, Boot \/ Loaded \/ Crash
  PROVE  ProgramInv'
<1> USE DEF executor
<1>1. TypeOK /\ \A r \in Runs : RunInv(r) BY DEF ProgramInv
<1>2. CASE Boot
  <2>1. TypeOK' BY <1>1, <1>2 DEF Boot, TypeOK
  <2>2. ASSUME NEW r \in Runs PROVE RunInv(r)'
    BY <1>1, <1>2
    DEF Boot, RunInv, ExecutorOK, SavesOK, RequestOK, BootOK, RecordsOK, Active
  <2> QED BY <2>1, <2>2 DEF ProgramInv
<1>3. CASE Loaded
  <2>1. TypeOK' BY <1>1, <1>3 DEF Loaded, TypeOK
  <2>2. ASSUME NEW r \in Runs PROVE RunInv(r)'
    <3>1. /\ RunInv(r)
          /\ db[r] # NoRun => mem[r] # NoRun
          /\ save[r]["boot"].phase = "idle" /\ brain = "starting"
      BY <1>1, <1>3 DEF Loaded, Unread, Reading
    <3>2. db[r].status \in Terminal => mem[r].status = db[r].status
      BY <3>1 DEF RunInv, RecordsOK
    <3> QED
      BY <1>3, <3>1, <3>2
      DEF Loaded, RunInv, ExecutorOK, SavesOK, RequestOK, BootOK, RecordsOK, Active
  <2> QED BY <2>1, <2>2 DEF ProgramInv
<1>4. CASE Crash
  <2>1. crashes' \in 0 .. MaxCrashes
    BY <1>1, <1>4, ProgramAssumption DEF Crash, TypeOK
  <2> QED BY <1>4, <2>1, LostStep DEF Crash
<1> QED BY <1>2, <1>3, <1>4

LEMMA InitInv == Init => ProgramInv
<1> SUFFICES ASSUME Init PROVE ProgramInv OBVIOUS
<1>1. mem \in [Runs -> RunState] /\ db \in [Runs -> RunState]
      /\ save \in [Runs -> [Callers -> SaveState]]
  <2> HIDE DEF Idle, NoRun, Callers
  <2> QED BY EmptyTypes DEF Init, SavesIdle
<1>2. TypeOK BY <1>1, StepsType, ProgramAssumption DEF Init, TypeOK
<1>3. ASSUME NEW r \in Runs PROVE RunInv(r)
  BY DEF Init, SavesIdle, RunInv, ExecutorOK, SavesOK, RequestOK, BootOK, RecordsOK, Active
<1> QED BY <1>2, <1>3 DEF ProgramInv

LEMMA NextInv == ProgramInv /\ [Next]_vars => ProgramInv'
<1> SUFFICES ASSUME ProgramInv, [Next]_vars PROVE ProgramInv' OBVIOUS
<1>1. ASSUME NEW r \in Runs, StartRun(r) PROVE ProgramInv' BY <1>1, StartRunStep
<1>2. ASSUME NEW r \in Runs, StopRun(r) PROVE ProgramInv' BY <1>2, StopRunStep
<1>3. ASSUME NEW r \in Runs, Execute(r) PROVE ProgramInv' BY <1>3, ExecuteStep
<1>4. ASSUME NEW r \in Runs, LoadRun(r) PROVE ProgramInv' BY <1>4, LoadRunStep
<1>5. ASSUME NEW r \in Runs, NEW w \in Callers, Persist(r, w) PROVE ProgramInv'
  BY <1>5, SelectStep, CommitStep, PublishStep, SaveFailsStep DEF Persist
<1>6. CASE Boot \/ Loaded \/ Crash BY <1>6, BrainStep
<1>7. CASE UNCHANGED vars
  <2>1. TypeOK' BY <1>7 DEF ProgramInv, TypeOK, vars, executor
  <2>2. ASSUME NEW r \in Runs PROVE RunInv(r)'
    BY <1>7, Frame DEF ProgramInv, vars, executor
  <2> QED BY <2>1, <2>2 DEF ProgramInv
<1> QED BY <1>1, <1>2, <1>3, <1>4, <1>5, <1>6, <1>7 DEF Next

LEMMA Invariance == Spec => []ProgramInv
BY InitInv, NextInv, PTL DEF Spec

-----------------------------------------------------------------------------
\* Every variable keeps its type: in particular the step pointer never leaves
\* the program, and a run never takes a status outside ProgramRunStatus.
THEOREM TypeTheorem == Spec => []TypeOK
<1>1. ProgramInv => TypeOK BY DEF ProgramInv
<1> QED BY <1>1, Invariance, PTL

\* stop_run is honoured at the end of the step at the latest: what the executor
\* still sends belongs to the step the run was stopped in.
THEOREM StopsWithinStepTheorem == Spec => []StopsWithinStep
<1>1. ProgramInv => StopsWithinStep
  BY DEF ProgramInv, RunInv, RecordsOK, StopsWithinStep
<1> QED BY <1>1, Invariance, PTL

\* No interleaving of the saves and events of _persist_and_publish announces an
\* end that _runs does not hold.
THEOREM NothingAheadTheorem == Spec => []NothingAhead
<1>1. ProgramInv => NothingAhead
  BY DEF ProgramInv, RunInv, RecordsOK, NothingAhead
<1> QED BY <1>1, Invariance, PTL

\* start() leaves no run of an earlier process as running, and _execute leaves
\* none behind when it returns.
THEOREM RunningIsExecutedTheorem == Spec => []RunningIsExecuted
<1>1. ProgramInv => RunningIsExecuted
  BY DEF ProgramInv, RunInv, RecordsOK, RunningIsExecuted, Active
<1> QED BY <1>1, Invariance, PTL

\* _VALID_TRANSITIONS gives terminal statuses no successor; the executor, which
\* does not consult it, keeps to it as well.
THEOREM TerminalIsFinalTheorem == Spec => TerminalIsFinal
<1> DEFINE Final == \A r \in Runs : mem[r].status \in Terminal /\ brain' # "down"
                                      => mem'[r].status = mem[r].status
<1>1. ProgramInv /\ [Next]_vars => [Final]_vars
  <2> SUFFICES ASSUME ProgramInv, Next, NEW q \in Runs, mem[q].status \in Terminal,
                      brain' # "down"
               PROVE  mem'[q] = mem[q]
    OBVIOUS
  <2>1. TypeOK /\ RunInv(q) BY DEF ProgramInv
  <2>2. ASSUME NEW r \in Runs, StartRun(r) \/ StopRun(r) \/ LoadRun(r) PROVE mem'[q] = mem[q]
    BY <2>1, <2>2 DEF StartRun, StopRun, LoadRun, Unread, TypeOK
  <2>3. ASSUME NEW r \in Runs, Execute(r) PROVE mem'[q] = mem[q]
    BY <2>1, <2>3
    DEF Execute, Advance, SendCommand, SendFails, StepEnds, StepTimesOut, NextStep, FaultRun,
        TypeOK
  <2>4. ASSUME NEW r \in Runs, NEW w \in Callers, Persist(r, w) PROVE mem'[q] = mem[q]
    <3>1. CASE Select(r, w) \/ Commit(r, w) BY <3>1 DEF Select, Commit
    <3>2. CASE Publish(r, w)
      BY <2>1, <3>2 DEF Publish, Resume, TypeOK, RunInv, SavesOK, BootOK
    <3>3. CASE SaveFails(r, w) BY <2>1, <3>3 DEF SaveFails, FaultRun, Lost, TypeOK
    <3> QED BY <2>4, <3>1, <3>2, <3>3 DEF Persist
  <2>5. CASE Boot \/ Loaded \/ Crash BY <2>5 DEF Boot, Loaded, Crash, Lost
  <2> QED BY <2>2, <2>3, <2>4, <2>5 DEF Next
<1>2. Spec => [][Final]_vars BY <1>1, Invariance, PTL DEF Spec
<1> QED BY <1>2 DEF TerminalIsFinal
-----------------------------------------------------------------------------
(* ProgramRun implements RunRegister.  What the refinement needs to know   *)
(* beyond ProgramInv: a save in flight is about the step its run is in, a  *)
(* row once inserted stays, and the executor takes the steps in their      *)
(* order.                                                                  *)

\* What a save of a living run carries, and what it has selected.
RequestStep(r, w) ==
  save[r][w].phase # "idle" =>
    /\ save[r][w].run.step = mem[r].step
    /\ save[r][w].run.status # "none"
    /\ w = "stop" => save[r][w].run.status = "stopped"
    /\ save[r][w].phase = "commit" /\ save[r][w].seen # NoRun => db[r] # NoRun

BootStep(r) ==
  save[r]["boot"].phase # "idle" =>
    /\ save[r]["boot"].run.step = db[r].step
    /\ save[r]["boot"].phase # "publish" => db[r].status = "running"

OrderOK(r) ==
  /\ \A w \in Callers \ {"boot"} : RequestStep(r, w)
  /\ BootStep(r)
  /\ db[r].status = "none" => db[r] = NoRun
  /\ save[r]["start"].phase # "idle" => mem[r].step = 0
  /\ task[r] = "none" => at[r] = 0
  /\ task[r] = "top" => IF at[r] = 0 THEN mem[r].step = 0 ELSE at[r] = mem[r].step + 1

RegisterInv == ProgramInv /\ \A r \in Runs : OrderOK(r)

\* A run none of whose parts changes keeps its order.
LEMMA OrderFrame ==
  ASSUME NEW q \in Runs, OrderOK(q), mem'[q] = mem[q], db'[q] = db[q],
         save'[q] = save[q], task'[q] = task[q], at'[q] = at[q]
  PROVE  OrderOK(q)'
BY DEF OrderOK, RequestStep, BootStep

LEMMA StartRunOrder ==
  ASSUME RegisterInv, NEW r \in Runs, StartRun(r)
  PROVE  \A q \in Runs : OrderOK(q)'
<1> USE DEF executor
<1>1. TypeOK /\ RunInv(r) /\ OrderOK(r) BY DEF RegisterInv, ProgramInv
<1>2. /\ mem'[r] = [status |-> "running", step |-> 0]
      /\ save'[r]["start"] = Saving([status |-> "running", step |-> 0])
      /\ \A v \in Callers : v # "start" => save'[r][v] = save[r][v]
  BY <1>1 DEF StartRun, TypeOK
<1>3. task[r] = "none" /\ \A v \in Callers : save[r][v].phase = "idle"
  BY <1>1 DEF StartRun, TypeOK, RunInv, ExecutorOK, SavesOK, RequestOK, BootOK, Active
<1>4. OrderOK(r)' BY <1>1, <1>2, <1>3 DEF StartRun, OrderOK, RequestStep, BootStep
<1>5. ASSUME NEW q \in Runs, q # r PROVE OrderOK(q)'
  BY <1>1, <1>5, OrderFrame DEF StartRun, RegisterInv, TypeOK
<1> QED BY <1>4, <1>5

LEMMA StopRunOrder ==
  ASSUME RegisterInv, NEW r \in Runs, StopRun(r)
  PROVE  \A q \in Runs : OrderOK(q)'
<1> USE DEF executor
<1>1. TypeOK /\ RunInv(r) /\ OrderOK(r) BY DEF RegisterInv, ProgramInv
<1>2. /\ mem'[r].step = mem[r].step
      /\ save'[r]["stop"].run.step = mem[r].step /\ save'[r]["stop"].run.status = "stopped"
      /\ save'[r]["stop"].phase = "select"
      /\ \A v \in Callers : v # "stop" => save'[r][v] = save[r][v]
  BY <1>1 DEF StopRun, TypeOK, RunState
<1>3. OrderOK(r)' BY <1>1, <1>2 DEF StopRun, OrderOK, RequestStep, BootStep
<1>4. ASSUME NEW q \in Runs, q # r PROVE OrderOK(q)'
  BY <1>1, <1>4, OrderFrame DEF StopRun, RegisterInv, TypeOK
<1> QED BY <1>3, <1>4

LEMMA FaultOrder ==
  ASSUME RegisterInv, NEW r \in Runs, FaultRun(r), task[r] \in Active \cup {"ending"},
         UNCHANGED <<brain, db, at, sent, shown, late, crashes>>
  PROVE  \A q \in Runs : OrderOK(q)'
<1>1. TypeOK /\ RunInv(r) /\ OrderOK(r) BY DEF RegisterInv, ProgramInv
<1>2. /\ mem'[r].step = mem[r].step /\ task'[r] \in {"ending", "done"}
      /\ save'[r]["exec"].phase # "idle" => /\ save'[r]["exec"].run.step = mem[r].step
                                            /\ save'[r]["exec"].run.status = "faulted"
                                            /\ save'[r]["exec"].phase = "select"
      /\ \A v \in Callers : v # "exec" => save'[r][v] = save[r][v]
  BY <1>1 DEF FaultRun, TypeOK, RunState
<1>3. OrderOK(r)' BY <1>1, <1>2 DEF OrderOK, RequestStep, BootStep
<1>4. ASSUME NEW q \in Runs, q # r PROVE OrderOK(q)'
  BY <1>1, <1>4, OrderFrame DEF FaultRun, RegisterInv, TypeOK
<1> QED BY <1>3, <1>4

\* While a run is running, no save of it is in flight between two steps.
LEMMA TopIsQuiet ==
  ASSUME RegisterInv, NEW r \in Runs, task[r] = "top", Running(r)
  PROVE  \A w \in Callers : save[r][w].phase = "idle"
<1>1. TypeOK /\ RunInv(r) /\ OrderOK(r) BY DEF RegisterInv, ProgramInv
<1> QED BY <1>1 DEF RunInv, SavesOK, ExecutorOK, RequestOK, BootOK, OrderOK, RequestStep

LEMMA AdvanceOrder ==
  ASSUME RegisterInv, NEW r \in Runs, Advance(r)
  PROVE  \A q \in Runs : OrderOK(q)'
<1>1. TypeOK /\ RunInv(r) /\ OrderOK(r) BY DEF RegisterInv, ProgramInv
<1>2. CASE Running(r)
  <2>1. \A w \in Callers : save[r][w].phase = "idle" BY <1>2, TopIsQuiet DEF Advance
  <2>2. /\ mem'[r].step = at[r] /\ task'[r] \in {"saving", "ending"}
        /\ save'[r]["exec"].run.step = at[r] /\ save'[r]["exec"].run.status # "none"
        /\ save'[r]["exec"].phase = "select"
        /\ \A v \in Callers : v # "exec" => save'[r][v] = save[r][v]
    BY <1>1, <1>2 DEF Advance, TypeOK
  <2>3. OrderOK(r)' BY <1>1, <2>1, <2>2 DEF Advance, OrderOK, RequestStep, BootStep
  <2>4. ASSUME NEW q \in Runs, q # r PROVE OrderOK(q)'
    BY <1>1, <2>4, OrderFrame DEF Advance, RegisterInv, TypeOK
  <2> QED BY <2>3, <2>4
<1>3. CASE ~ Running(r)
  <2>1. mem' = mem /\ save' = save /\ task'[r] = "done" /\ at' = at /\ db' = db
    BY <1>1, <1>3 DEF Advance, TypeOK
  <2>2. OrderOK(r)' BY <1>1, <2>1 DEF OrderOK, RequestStep, BootStep
  <2>3. ASSUME NEW q \in Runs, q # r PROVE OrderOK(q)'
    BY <1>1, <1>3, <2>1, <2>3, OrderFrame DEF Advance, RegisterInv, TypeOK
  <2> QED BY <2>2, <2>3
<1> QED BY <1>2, <1>3

LEMMA NextStepOrder ==
  ASSUME RegisterInv, NEW r \in Runs, task[r] = "waiting", NextStep(r),
         UNCHANGED <<brain, db, sent, shown, late, crashes>>
  PROVE  \A q \in Runs : OrderOK(q)'
<1>1. TypeOK /\ RunInv(r) /\ OrderOK(r) BY DEF RegisterInv, ProgramInv
<1>2. /\ at[r] \in Nat /\ mem[r].step = at[r]
      /\ at'[r] = at[r] + 1 /\ task'[r] = "top" /\ mem' = mem /\ save' = save
  BY <1>1, StepsType DEF NextStep, TypeOK, RunInv, ExecutorOK
<1>3. OrderOK(r)' BY <1>1, <1>2 DEF OrderOK, RequestStep, BootStep
<1>4. ASSUME NEW q \in Runs, q # r PROVE OrderOK(q)'
  BY <1>1, <1>4, OrderFrame DEF NextStep, RegisterInv, TypeOK
<1> QED BY <1>3, <1>4

LEMMA ExecuteOrder ==
  ASSUME RegisterInv, NEW r \in Runs, Execute(r)
  PROVE  \A q \in Runs : OrderOK(q)'
<1>1. CASE Advance(r) BY <1>1, AdvanceOrder
<1>2. CASE SendCommand(r)
  <2>1. TypeOK BY DEF RegisterInv, ProgramInv
  <2>2. task[r] = "sending" /\ task'[r] \in {"sending", "waiting"}
    BY <1>2, <2>1 DEF SendCommand, TypeOK
  <2>3. OrderOK(r)'
    BY <1>2, <2>2 DEF SendCommand, RegisterInv, OrderOK, RequestStep, BootStep
  <2>4. ASSUME NEW q \in Runs, q # r PROVE OrderOK(q)'
    BY <1>2, <2>1, <2>4, OrderFrame DEF SendCommand, RegisterInv, TypeOK
  <2> QED BY <2>3, <2>4
<1>3. CASE SendFails(r) BY <1>3, FaultOrder DEF SendFails, Active
<1>4. CASE StepEnds(r) BY <1>4, NextStepOrder DEF StepEnds
<1>5. CASE StepTimesOut(r)
  <2>1. CASE Running(r) BY <1>5, <2>1, FaultOrder DEF StepTimesOut, Active
  <2>2. CASE ~ Running(r) BY <1>5, <2>2, NextStepOrder DEF StepTimesOut
  <2> QED BY <2>1, <2>2
<1> QED BY <1>1, <1>2, <1>3, <1>4, <1>5 DEF Execute

LEMMA SelectOrder ==
  ASSUME RegisterInv, NEW r \in Runs, NEW w \in Callers, Select(r, w)
  PROVE  \A q \in Runs : OrderOK(q)'
<1> USE DEF executor
<1>1. TypeOK /\ RunInv(r) /\ OrderOK(r) BY DEF RegisterInv, ProgramInv
<1>2. /\ save'[r][w].phase = "commit" /\ save'[r][w].seen = db[r]
      /\ save'[r][w].run = save[r][w].run
      /\ \A v \in Callers : v # w => save'[r][v] = save[r][v]
  BY <1>1 DEF Select, TypeOK, SaveState
<1>3. OrderOK(r)'
  <2>1. ASSUME NEW v \in Callers \ {"boot"} PROVE RequestStep(r, v)'
    <3>1. RequestStep(r, v) BY <1>1 DEF OrderOK
    <3>2. CASE v = w BY <1>2, <3>1, <3>2 DEF Select, RequestStep
    <3>3. CASE v # w BY <1>2, <3>1, <3>3 DEF Select, RequestStep
    <3> QED BY <3>2, <3>3
  <2>2. BootStep(r)' BY <1>1, <1>2 DEF Select, OrderOK, BootStep
  <2>3. save'[r]["start"].phase # "idle" => mem[r].step = 0
    BY <1>1, <1>2 DEF Select, OrderOK
  <2> QED BY <1>1, <2>1, <2>2, <2>3 DEF Select, OrderOK
<1>4. ASSUME NEW q \in Runs, q # r PROVE OrderOK(q)'
  BY <1>1, <1>4, OrderFrame DEF Select, RegisterInv, TypeOK
<1> QED BY <1>3, <1>4

\* What a commit leaves in the row of its run.
LEMMA Row ==
  ASSUME RegisterInv, NEW r \in Runs, NEW w \in Callers, Commit(r, w)
  PROVE  /\ db'[r] \in RunState /\ db'[r].status # "none"
         /\ w # "boot" => /\ brain = "up" /\ save[r]["boot"].phase = "idle"
                          /\ mem[r] # NoRun
                          /\ db'[r].status \in {db[r].status, "running", mem[r].status}
                          /\ db'[r].step \in {db[r].step, mem[r].step}
         /\ w = "boot" => /\ brain = "starting" /\ mem[r] = NoRun
                          /\ db[r].status = "running"
                          /\ db'[r] = [status |-> "interrupted", step |-> db[r].step]
<1> DEFINE row == IF save[r][w].seen = NoRun THEN save[r][w].run
                  ELSE Written(db[r], save[r][w].seen, save[r][w].run)
<1>1. TypeOK /\ RunInv(r) /\ OrderOK(r) BY DEF RegisterInv, ProgramInv
<1>2. /\ db[r] \in RunState /\ mem[r] \in RunState
      /\ save[r][w].run \in RunState /\ save[r][w].seen \in RunState
      /\ save[r][w].phase = "commit"
  BY <1>1 DEF TypeOK, SaveState, Commit
<1>3. db'[r] = row BY <1>1 DEF Commit, TypeOK
<1>4. /\ row \in RunState
      /\ row.status \in {db[r].status, save[r][w].run.status}
      /\ row.step \in {db[r].step, save[r][w].run.step}
      /\ row.status # save[r][w].run.status =>
           save[r][w].seen # NoRun /\ save[r][w].run.status = save[r][w].seen.status
  BY <1>2 DEF RunState, Written
<1>5. CASE w # "boot"
  <2>1. RequestOK(r, w) /\ RequestStep(r, w) BY <1>1, <1>5 DEF RunInv, SavesOK, OrderOK
  <2>2. brain = "up" /\ mem[r] # NoRun /\ save[r]["boot"].phase = "idle"
    BY <1>1, <1>2, <2>1 DEF RequestOK, RunInv, SavesOK, BootOK
  <2>3. row.status # "none"
    BY <1>1, <1>2, <1>4, <2>1 DEF RequestStep, OrderOK
  <2>4. save[r][w].run.status \in {"running", mem[r].status}
    BY <1>2, <2>1 DEF RequestOK, RequestStep, RunState
  <2>5. save[r][w].run.step = mem[r].step BY <1>2, <2>1 DEF RequestStep
  <2>6. row.status \in {db[r].status, "running", mem[r].status}
        /\ row.step \in {db[r].step, mem[r].step}
    BY <1>4, <2>4, <2>5
  <2> HIDE DEF row
  <2> QED BY <1>3, <1>4, <1>5, <2>2, <2>3, <2>6
<1>6. CASE w = "boot"
  <2>1. /\ brain = "starting" /\ mem[r] = NoRun /\ db[r] # NoRun /\ db[r].status = "running"
        /\ save[r][w].run.status = "interrupted" /\ save[r][w].seen = db[r]
        /\ save[r][w].run.step = db[r].step
    BY <1>1, <1>2, <1>6 DEF RunInv, SavesOK, BootOK, RecordsOK, OrderOK, BootStep
  <2>2. row.status = "interrupted" /\ row.step = db[r].step
    BY <1>2, <2>1 DEF Written
  <2> HIDE DEF row
  <2>3. row = [status |-> "interrupted", step |-> db[r].step]
    BY <1>4, <2>2 DEF RunState
  <2> QED BY <1>3, <1>4, <1>6, <2>1, <2>2, <2>3
<1> QED BY <1>5, <1>6

LEMMA CommitOrder ==
  ASSUME RegisterInv, NEW r \in Runs, NEW w \in Callers, Commit(r, w)
  PROVE  \A q \in Runs : OrderOK(q)'
<1> USE DEF executor
<1>1. TypeOK /\ RunInv(r) /\ OrderOK(r) BY DEF RegisterInv, ProgramInv
<1>2. /\ save'[r][w].phase = "publish" /\ save'[r][w].run = save[r][w].run
      /\ \A v \in Callers : v # w => save'[r][v] = save[r][v]
  BY <1>1 DEF Commit, TypeOK, SaveState
<1>3. /\ db'[r] # NoRun /\ db'[r].status # "none"
      /\ w = "boot" => db'[r].step = db[r].step
      /\ w # "boot" => save[r]["boot"].phase = "idle"
  <2>1. db'[r].status # "none" /\ (w # "boot" => save[r]["boot"].phase = "idle") BY Row
  <2>2. w = "boot" => db'[r] = [status |-> "interrupted", step |-> db[r].step] BY Row
  <2> QED BY <2>1, <2>2
<1>4. OrderOK(r)'
  <2>1. ASSUME NEW v \in Callers \ {"boot"} PROVE RequestStep(r, v)'
    BY <1>1, <1>2, <1>3 DEF Commit, OrderOK, RequestStep
  <2>2. BootStep(r)' BY <1>1, <1>2, <1>3 DEF Commit, OrderOK, BootStep
  <2>3. save'[r]["start"].phase # "idle" => mem[r].step = 0
    BY <1>1, <1>2 DEF Commit, OrderOK
  <2> QED BY <1>1, <1>3, <2>1, <2>2, <2>3 DEF Commit, OrderOK
<1>5. ASSUME NEW q \in Runs, q # r PROVE OrderOK(q)'
  BY <1>1, <1>5, OrderFrame DEF Commit, RegisterInv, TypeOK
<1> QED BY <1>4, <1>5

LEMMA PublishOrder ==
  ASSUME RegisterInv, NEW r \in Runs, NEW w \in Callers, Publish(r, w)
  PROVE  \A q \in Runs : OrderOK(q)'
<1>1. TypeOK /\ RunInv(r) /\ OrderOK(r) BY DEF RegisterInv, ProgramInv
<1>2. /\ save'[r][w].phase = "idle"
      /\ \A v \in Callers : v # w => save'[r][v] = save[r][v]
  BY <1>1 DEF Publish, TypeOK
<1>3. OrderOK(r)'
  <2>1. CASE w = "start"
    <3>1. task'[r] = "top" /\ mem' = mem /\ at[r] = 0 /\ mem[r].step = 0
      BY <1>1, <2>1 DEF Publish, Resume, TypeOK, RunInv, SavesOK, OrderOK
    <3> QED BY <1>1, <1>2, <2>1, <3>1 DEF Publish, OrderOK, RequestStep, BootStep
  <2>2. CASE w = "stop"
    <3>1. task' = task /\ mem' = mem BY <2>2 DEF Publish, Resume
    <3> QED BY <1>1, <1>2, <2>2, <3>1 DEF Publish, OrderOK, RequestStep, BootStep
  <2>3. CASE w = "exec"
    <3>1. task'[r] \in {"done", "sending", "waiting"} /\ mem' = mem
      BY <1>1, <2>3 DEF Publish, Resume, TypeOK
    <3> QED BY <1>1, <1>2, <2>3, <3>1 DEF Publish, OrderOK, RequestStep, BootStep
  <2>4. CASE w = "boot"
    <3>1. \A v \in Callers : save'[r][v].phase = "idle"
      BY <1>1, <1>2, <2>4 DEF Publish, RunInv, SavesOK, RequestOK, BootOK
    <3>2. task' = task /\ task[r] = "none"
      BY <1>1, <2>4 DEF Publish, Resume, RunInv, SavesOK, BootOK, ExecutorOK
    <3> QED BY <1>1, <3>1, <3>2 DEF Publish, OrderOK, RequestStep, BootStep
  <2> QED BY <2>1, <2>2, <2>3, <2>4
<1>4. ASSUME NEW q \in Runs, q # r PROVE OrderOK(q)'
  <2>1. task'[q] = task[q] /\ mem'[q] = mem[q] BY <1>1, <1>4 DEF Publish, Resume, TypeOK
  <2> QED BY <1>1, <1>4, <2>1, OrderFrame DEF Publish, RegisterInv, TypeOK
<1> QED BY <1>3, <1>4

\* After the end of the process the order of the next one is trivially kept.
LEMMA LostOrder ==
  ASSUME RegisterInv, Lost, db' = db
  PROVE  \A q \in Runs : OrderOK(q)'
<1> SUFFICES ASSUME NEW q \in Runs PROVE OrderOK(q)' OBVIOUS
<1>1. /\ mem'[q] = NoRun /\ task'[q] = "none" /\ at'[q] = 0
      /\ \A v \in Callers : save'[q][v].phase = "idle"
  BY DEF Lost, SavesIdle
<1> QED BY <1>1 DEF RegisterInv, OrderOK, RequestStep, BootStep

LEMMA SaveFailsOrder ==
  ASSUME RegisterInv, NEW r \in Runs, NEW w \in Callers, SaveFails(r, w)
  PROVE  \A q \in Runs : OrderOK(q)'
<1> USE DEF executor
<1>1. TypeOK /\ RunInv(r) /\ OrderOK(r) BY DEF RegisterInv, ProgramInv
<1>2. CASE w \in {"start", "stop"}
  <2>1. /\ save'[r][w].phase = "idle"
        /\ \A v \in Callers : v # w => save'[r][v] = save[r][v]
        /\ task'[r] \in {task[r], "unstarted"}
        /\ mem' = mem /\ db' = db /\ at' = at
    BY <1>1, <1>2 DEF SaveFails, TypeOK
  <2>2. OrderOK(r)' BY <1>1, <1>2, <2>1 DEF OrderOK, RequestStep, BootStep
  <2>3. ASSUME NEW q \in Runs, q # r PROVE OrderOK(q)'
    <3>1. task'[q] = task[q] /\ save'[q] = save[q]
      BY <1>1, <1>2, <2>3 DEF SaveFails, TypeOK
    <3> QED BY <2>1, <3>1, OrderFrame DEF RegisterInv
  <2> QED BY <2>2, <2>3
<1>3. CASE w = "exec"
  <2>1. task[r] \in Active \cup {"ending"}
    BY <1>1, <1>3 DEF SaveFails, SavesOK, RunInv, Active
  <2> QED BY <1>3, <2>1, FaultOrder DEF SaveFails
<1>4. CASE w = "boot" BY <1>4, LostOrder DEF SaveFails
<1> QED BY <1>2, <1>3, <1>4

LEMMA LoadRunOrder ==
  ASSUME RegisterInv, NEW r \in Runs, LoadRun(r)
  PROVE  \A q \in Runs : OrderOK(q)'
<1> USE DEF executor
<1>1. TypeOK /\ RunInv(r) /\ OrderOK(r) BY DEF RegisterInv, ProgramInv
<1>2. task[r] = "none" /\ \A v \in Callers : save[r][v].phase = "idle"
  BY <1>1 DEF LoadRun, Reading, RunInv, ExecutorOK, SavesOK, RequestOK
<1>3. CASE db[r].status \in Terminal
  <2>1. OrderOK(r)' BY <1>1, <1>2, <1>3 DEF LoadRun, OrderOK, RequestStep, BootStep
  <2>2. ASSUME NEW q \in Runs, q # r PROVE OrderOK(q)'
    BY <1>1, <1>3, <2>2, OrderFrame DEF LoadRun, RegisterInv, TypeOK
  <2> QED BY <2>1, <2>2
<1>4. CASE db[r].status \notin Terminal
  <2>1. db[r].status = "running"
    <3>1. db[r] # NoRun /\ db[r].status \in Status BY <1>1 DEF LoadRun, Unread, TypeOK, RunState
    <3> QED BY <1>1, <1>4, <3>1 DEF OrderOK
  <2>2. /\ save'[r]["boot"].run.step = db[r].step /\ mem' = mem
        /\ \A v \in Callers : v # "boot" => save'[r][v] = save[r][v]
    BY <1>1, <1>4 DEF LoadRun, TypeOK, RunState
  <2>3. OrderOK(r)' BY <1>1, <1>2, <2>1, <2>2 DEF LoadRun, OrderOK, RequestStep, BootStep
  <2>4. ASSUME NEW q \in Runs, q # r PROVE OrderOK(q)'
    BY <1>1, <1>4, <2>4, OrderFrame DEF LoadRun, RegisterInv, TypeOK
  <2> QED BY <2>3, <2>4
<1> QED BY <1>3, <1>4

LEMMA RegisterInvInit == Init => RegisterInv
<1> SUFFICES ASSUME Init PROVE \A q \in Runs : OrderOK(q) BY InitInv DEF RegisterInv
<1> QED BY DEF Init, SavesIdle, OrderOK, RequestStep, BootStep

LEMMA RegisterInvNext == RegisterInv /\ [Next]_vars => RegisterInv'
<1> SUFFICES ASSUME RegisterInv, [Next]_vars PROVE \A q \in Runs : OrderOK(q)'
  BY NextInv DEF RegisterInv
<1>1. ASSUME NEW r \in Runs, StartRun(r) \/ StopRun(r) \/ Execute(r) \/ LoadRun(r)
      PROVE  \A q \in Runs : OrderOK(q)'
  BY <1>1, StartRunOrder, StopRunOrder, ExecuteOrder, LoadRunOrder
<1>2. ASSUME NEW r \in Runs, NEW w \in Callers, Persist(r, w) PROVE \A q \in Runs : OrderOK(q)'
  BY <1>2, SelectOrder, CommitOrder, PublishOrder, SaveFailsOrder DEF Persist
<1>3. CASE Boot \/ Loaded \/ UNCHANGED vars
  <2>1. UNCHANGED <<mem, db, save, task, at>>
    BY <1>3 DEF Boot, Loaded, vars, executor
  <2> QED BY <2>1, OrderFrame DEF RegisterInv
<1>4. CASE Crash BY <1>4, LostOrder DEF Crash
<1> QED BY <1>1, <1>2, <1>3, <1>4 DEF Next

LEMMA RegisterInvariance == Spec => []RegisterInv
BY RegisterInvInit, RegisterInvNext, PTL DEF Spec

-----------------------------------------------------------------------------
(* Every step of ProgramRun is a step of RunRegister or leaves it alone.   *)

StepOrStutter == [Register!Next]_(Register!vars)

USE DEF Register!NoRun, Register!Report

\* A step that leaves the Brain up or not, its memory and its table as they are.
LEMMA Hidden ==
  ASSUME mem' = mem, db' = db, (brain' = "up") <=> (brain = "up")
  PROVE  StepOrStutter
BY DEF StepOrStutter, Register!vars

LEMMA StartRunRefines ==
  ASSUME RegisterInv, NEW r \in Runs, StartRun(r)
  PROVE  StepOrStutter
<1>1. Register!Start(r) BY DEF StartRun, Register!Start
<1> QED BY <1>1 DEF StepOrStutter, Register!Next

\* A running run whose status is replaced by an end in the step it is in.
LEMMA CutRefines ==
  ASSUME RegisterInv, NEW r \in Runs, NEW s \in {"stopped", "faulted"},
         brain = "up", Running(r), mem' = [mem EXCEPT ![r] = [mem[r] EXCEPT !.status = s]],
         brain' = brain, db' = db
  PROVE  StepOrStutter
<1>1. mem[r] \in RunState BY DEF RegisterInv, ProgramInv, TypeOK
<1>2. [mem[r] EXCEPT !.status = s] = [status |-> s, step |-> mem[r].step]
  BY <1>1 DEF RunState
<1>3. Register!Cut(r) BY <1>2 DEF Register!Cut
<1> QED BY <1>3 DEF StepOrStutter, Register!Next

LEMMA StopRunRefines ==
  ASSUME RegisterInv, NEW r \in Runs, StopRun(r)
  PROVE  StepOrStutter
BY CutRefines DEF StopRun

LEMMA FaultRefines ==
  ASSUME RegisterInv, NEW r \in Runs, FaultRun(r), task[r] \in Active \cup {"ending"},
         brain' = brain, db' = db
  PROVE  StepOrStutter
<1>1. brain = "up" BY DEF RegisterInv, ProgramInv, RunInv, ExecutorOK, Active
<1>2. CASE Running(r) BY <1>1, <1>2, CutRefines DEF FaultRun
<1>3. CASE ~ Running(r) BY <1>3, Hidden DEF FaultRun
<1> QED BY <1>2, <1>3

\* The executor at the top of its loop: it stays on the first step, which the
\* run has from its start, moves to the next, or completes the run.
LEMMA AdvanceRefines ==
  ASSUME RegisterInv, NEW r \in Runs, Advance(r)
  PROVE  StepOrStutter
<1>1. /\ TypeOK /\ RunInv(r) /\ OrderOK(r) /\ brain = "up" /\ brain' = brain /\ db' = db
      /\ task[r] = "top"
  BY DEF RegisterInv, ProgramInv, RunInv, ExecutorOK, Advance, Active
<1>2. CASE ~ Running(r) BY <1>1, <1>2, Hidden DEF Advance
<1>3. ASSUME Running(r) PROVE StepOrStutter
  <2>1. /\ mem[r] \in RunState /\ mem[r].step \in Nat /\ at[r] \in 0 .. Steps /\ Steps \in Nat
        /\ IF at[r] = 0 THEN mem[r].step = 0 ELSE at[r] = mem[r].step + 1
    BY <1>1, StepsType DEF TypeOK, RunState, OrderOK
  <2>2. CASE at[r] = Steps
    <3>1. mem' = [mem EXCEPT ![r] = [status |-> "completed", step |-> Steps]]
      BY <1>3, <2>2 DEF Advance
    <3>2. mem[r].step + 1 >= Steps BY <2>1, <2>2
    <3>3. Register!Complete(r)
      BY <1>1, <1>3, <3>1, <3>2 DEF Register!Complete, Register!Completed
    <3> QED BY <3>3 DEF StepOrStutter, Register!Next
  <2>3. CASE at[r] # Steps
    <3>1. mem' = [mem EXCEPT ![r] = [status |-> "running", step |-> at[r]]]
      BY <1>3, <2>3 DEF Advance
    <3>2. CASE at[r] = 0
      <4>1. mem[r] = [status |-> "running", step |-> 0] BY <1>3, <2>1, <3>2 DEF RunState
      <4>2. mem' = mem BY <1>1, <3>1, <3>2, <4>1 DEF TypeOK
      <4> QED BY <1>1, <4>2, Hidden
    <3>3. CASE at[r] # 0
      <4>1. at[r] = mem[r].step + 1 /\ mem[r].step + 1 < Steps BY <2>1, <2>3, <3>3
      <4>2. Register!Move(r) BY <1>1, <1>3, <3>1, <4>1 DEF Register!Move
      <4> QED BY <4>2 DEF StepOrStutter, Register!Next
    <3> QED BY <3>2, <3>3
  <2> QED BY <2>2, <2>3
<1> QED BY <1>2, <1>3

LEMMA ExecuteRefines ==
  ASSUME RegisterInv, NEW r \in Runs, Execute(r)
  PROVE  StepOrStutter
<1>1. CASE Advance(r) BY <1>1, AdvanceRefines
<1>2. CASE SendCommand(r) BY <1>2, Hidden DEF SendCommand
<1>3. CASE SendFails(r) BY <1>3, FaultRefines DEF SendFails, Active
<1>4. CASE StepEnds(r) BY <1>4, Hidden DEF StepEnds, NextStep
<1>5. CASE StepTimesOut(r)
  <2>1. CASE Running(r) BY <1>5, <2>1, FaultRefines DEF StepTimesOut, Active
  <2>2. CASE ~ Running(r) BY <1>5, <2>2, Hidden DEF StepTimesOut, NextStep
  <2> QED BY <2>1, <2>2
<1> QED BY <1>1, <1>2, <1>3, <1>4, <1>5 DEF Execute

\* A commit keeps what is reported, or the status the run began with; while the
\* Brain is starting it interrupts the run.
LEMMA CommitRefines ==
  ASSUME RegisterInv, NEW r \in Runs, NEW w \in Callers, Commit(r, w)
  PROVE  StepOrStutter
<1>1. TypeOK /\ mem' = mem /\ brain' = brain /\ db' = [db EXCEPT ![r] = db'[r]]
  BY DEF RegisterInv, ProgramInv, TypeOK, Commit
<1>2. db'[r] = [status |-> db'[r].status, step |-> db'[r].step] BY Row DEF RunState
<1>3. CASE w # "boot"
  <2>1. /\ brain = "up" /\ mem[r] # NoRun /\ db'[r].status # "none"
        /\ db'[r].status \in {db[r].status, "running", mem[r].status}
        /\ db'[r].step \in {db[r].step, mem[r].step}
    BY <1>3, Row
  <2>2. Register!Keep(r) BY <1>1, <1>2, <2>1 DEF Register!Keep
  <2> QED BY <2>2 DEF StepOrStutter, Register!Next
<1>4. CASE w = "boot"
  <2>1. /\ brain = "starting" /\ mem[r] = NoRun /\ db[r].status = "running"
        /\ db'[r] = [status |-> "interrupted", step |-> db[r].step]
    BY <1>4, Row
  <2>2. Register!Interrupt(r) BY <1>1, <2>1 DEF Register!Interrupt
  <2> QED BY <2>2 DEF StepOrStutter, Register!Next
<1> QED BY <1>3, <1>4

LEMMA PublishRefines ==
  ASSUME RegisterInv, NEW r \in Runs, NEW w \in Callers, Publish(r, w)
  PROVE  StepOrStutter
<1>1. brain' = brain /\ db' = db BY DEF Publish
<1>2. CASE w # "boot" BY <1>1, <1>2, Hidden DEF Publish, Resume
<1>3. CASE w = "boot"
  <2>1. TypeOK /\ RunInv(r) /\ OrderOK(r) BY DEF RegisterInv, ProgramInv
  <2>2. /\ brain = "starting" /\ mem[r] = NoRun /\ db[r].status = "interrupted"
        /\ save[r][w].run.status = "interrupted" /\ save[r][w].run.step = db[r].step
    BY <1>3, <2>1 DEF Publish, RunInv, SavesOK, BootOK, RecordsOK, OrderOK, BootStep
  <2>3. db[r] \in RunState /\ save[r][w].run \in RunState BY <2>1 DEF TypeOK, SaveState
  <2>4. save[r][w].run = db[r] BY <2>2, <2>3 DEF RunState
  <2>5. mem' = [mem EXCEPT ![r] = db[r]] BY <1>3, <2>4 DEF Publish, Resume
  <2>6. Register!Restore(r) BY <1>1, <2>2, <2>5 DEF Register!Restore, Register!Ends
  <2> QED BY <2>6 DEF StepOrStutter, Register!Next
<1> QED BY <1>2, <1>3

LEMMA LostRefines ==
  ASSUME Lost, db' = db
  PROVE  StepOrStutter
<1>1. Register!Lose BY DEF Lost, Register!Lose
<1> QED BY <1>1 DEF StepOrStutter, Register!Next

LEMMA SaveFailsRefines ==
  ASSUME RegisterInv, NEW r \in Runs, NEW w \in Callers, SaveFails(r, w)
  PROVE  StepOrStutter
<1>1. CASE w \in {"start", "stop"} BY <1>1, Hidden DEF SaveFails
<1>2. CASE w = "exec"
  <2>1. task[r] \in Active \cup {"ending"}
    BY <1>2 DEF SaveFails, RegisterInv, ProgramInv, SavesOK, RunInv, Active
  <2> QED BY <1>2, <2>1, FaultRefines DEF SaveFails
<1>3. CASE w = "boot" BY <1>3, LostRefines DEF SaveFails
<1> QED BY <1>1, <1>2, <1>3

LEMMA LoadRunRefines ==
  ASSUME RegisterInv, NEW r \in Runs, LoadRun(r)
  PROVE  StepOrStutter
<1>1. CASE db[r].status \in Terminal
  <2>1. Register!Restore(r)
    BY <1>1 DEF LoadRun, Unread, Register!Restore, Register!Ends
  <2> QED BY <2>1 DEF StepOrStutter, Register!Next
<1>2. CASE db[r].status \notin Terminal BY <1>2, Hidden DEF LoadRun
<1> QED BY <1>1, <1>2

LEMMA LoadedRefines ==
  ASSUME RegisterInv, Loaded
  PROVE  StepOrStutter
<1>1. Register!Recover BY DEF Loaded, Unread, Register!Recover
<1> QED BY <1>1 DEF StepOrStutter, Register!Next

\* The memory of the Brain is a register of runs and its table what is kept of
\* it, for any program, any runs and any number of crashes: however the saves
\* and the tasks of ProgramService interleave, a run takes its steps in order,
\* ends once, and after a restart is reported as it was kept.
THEOREM Implementation == Spec => ImplementsRegister
<1>1. Init => Register!Init BY DEF Init, Register!Init
<1>2. RegisterInv /\ [Next]_vars => StepOrStutter
  <2> SUFFICES ASSUME RegisterInv, [Next]_vars PROVE StepOrStutter OBVIOUS
  <2>1. ASSUME NEW r \in Runs, StartRun(r) \/ StopRun(r) \/ Execute(r) \/ LoadRun(r)
        PROVE  StepOrStutter
    BY <2>1, StartRunRefines, StopRunRefines, ExecuteRefines, LoadRunRefines
  <2>2. ASSUME NEW r \in Runs, NEW w \in Callers, Persist(r, w) PROVE StepOrStutter
    <3>1. CASE Select(r, w) BY <3>1, Hidden DEF Select
    <3>2. CASE Commit(r, w) BY <3>2, CommitRefines
    <3>3. CASE Publish(r, w) BY <3>3, PublishRefines
    <3>4. CASE SaveFails(r, w) BY <3>4, SaveFailsRefines
    <3> QED BY <2>2, <3>1, <3>2, <3>3, <3>4 DEF Persist
  <2>3. CASE Boot BY <2>3, Hidden DEF Boot
  <2>4. CASE Loaded BY <2>4, LoadedRefines
  <2>5. CASE Crash BY <2>5, LostRefines DEF Crash
  <2>6. CASE UNCHANGED vars BY <2>6, Hidden DEF vars
  <2> QED BY <2>1, <2>2, <2>3, <2>4, <2>5, <2>6 DEF Next
<1>3. Spec => [][Register!Next]_(Register!vars)
  BY <1>2, RegisterInvariance, PTL DEF Spec, StepOrStutter
<1> QED BY <1>1, <1>3, PTL DEF Spec, ImplementsRegister, Register!Spec
=============================================================================
