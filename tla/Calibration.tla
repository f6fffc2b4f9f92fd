----------------------------- MODULE Calibration -----------------------------
(***************************************************************************)
(* Calibrating a joint from the workspace page: the joints' list and the   *)
(* debug panel that start a job (MachineCard, JointDataPanel), the job's   *)
(* view (InteractiveJob with useCalibrationJob) and the Brain's            *)
(* CalibrationService with the background task of the sweep.  A request or *)
(* the sweep's task goes from "sent" over "saving" (the job is changed in  *)
(* memory, its row is being saved) to "answered", in any order.            *)
(***************************************************************************)
EXTENDS Naturals, Sequences, FiniteSets

CONSTANTS Joints,     \* joints are 1..Joints
          MaxJobs,    \* bound: jobs of one behaviour
          MaxRequests, \* bound: requests of one behaviour
          MaxInFlight, \* bound: requests and sweeps under way together
          MaxMounts   \* bound: how often the debug panel is shown

VARIABLES
  jobs,     \* the Brain's jobs in the order they were started
  net,      \* requests and sweep tasks under way
  sent,     \* requests sent so far
  debug,    \* whether the debug panel is shown
  selected, \* selectedJoint, 0 for none
  cal,      \* JointDataPanel: calBusy, and calJobId or 0
  mount,    \* how often InteractiveJob was mounted
  shown,    \* useCalibrationJob: state, NoJob for null
  error,    \* useCalibrationJob: whether an error is shown
  ws,       \* the job's WebSocket
  behind    \* history: why the panel may be behind its job

vars == <<jobs, net, sent, debug, selected, cal, mount, shown, error, ws, behind>>
look == <<debug, selected>>
view == <<mount, shown, error, ws, behind>>

TERMINAL == {"completed", "aborted", "faulted"}
NoJob == [id |-> 0, joint |-> 0, status |-> "started", step |-> 0]
\* The body of an error, taken for a state.
BadBody == [id |-> 0, joint |-> 0, status |-> "undefined", step |-> 0]
NoSocket == [id |-> 0, state |-> "closed", feed |-> <<>>]

brainFetch(op, arg, rest) ==
  /\ sent < MaxRequests /\ Cardinality(rest) < MaxInFlight
  /\ sent' = sent + 1
  /\ net' = rest \union {[n |-> sent + 1, op |-> op, arg |-> arg, mount |-> mount',
                          stage |-> "sent", ok |-> TRUE, job |-> NoJob]}

-----------------------------------------------------------------------------
(* The panels of the page *)

onJointClick(i) == selected' = IF selected = i THEN 0 ELSE i
openDetails(i) == selected' = i
Select ==
  /\ \E i \in 1..Joints : onJointClick(i) \/ openDetails(i)
  /\ UNCHANGED <<jobs, net, sent, debug, cal, view>>

\* The effect of useCalibrationJob for a job: its state is fetched and its
\* socket opened.
Observe(id, rest) ==
  /\ brainFetch("get", id, rest)
  /\ ws' = [id |-> id, state |-> "opening", feed |-> <<>>] /\ behind' = {}

\* Hiding the panel unmounts the job's view, showing it mounts a new one.
DebugPanel ==
  /\ debug' = ~debug
  /\ shown' = NoJob /\ error' = FALSE
  /\ IF debug' THEN mount < MaxMounts /\ mount' = mount + 1 ELSE UNCHANGED mount
  /\ IF debug' /\ cal.job # 0
     THEN Observe(cal.job, net)
     ELSE ws' = NoSocket /\ UNCHANGED <<net, sent, behind>>
  /\ UNCHANGED <<jobs, selected, cal>>

\* The joint calibrated is the selected one, or the first.
startCalibration ==
  /\ debug /\ cal.job = 0 /\ ~cal.busy
  /\ cal' = [cal EXCEPT !.busy = TRUE]
  /\ UNCHANGED mount
  /\ brainFetch("start", IF selected = 0 THEN 1 ELSE selected, net)
  /\ UNCHANGED <<jobs, look, shown, error, ws, behind>>

-----------------------------------------------------------------------------
(* InteractiveJob *)

Visible == debug /\ cal.job # 0 /\ shown # NoJob
isTerminal == shown.status \in TERMINAL
isRunning == shown.status = "running_sweep"

\* advance and abort act on the job of the panel, whatever state is shown.
Act(op) ==
  /\ Visible /\ ~isTerminal
  /\ error' = FALSE /\ UNCHANGED mount
  /\ brainFetch(op, cal.job, net)
  /\ UNCHANGED <<jobs, look, cal, shown, ws, behind>>
advance == ~isRunning /\ Act("advance")
abort == Act("abort")

\* The state of the closed job is kept: the next job's panel begins with it.
onClose ==
  /\ Visible /\ isTerminal
  /\ cal' = [cal EXCEPT !.job = 0] /\ ws' = NoSocket
  /\ UNCHANGED <<jobs, net, sent, look, mount, shown, error, behind>>

-----------------------------------------------------------------------------
(* CalibrationService *)

Move(r, r2) == net' = (net \ {r}) \union {r2}
Refuse(r) == Move(r, [r EXCEPT !.stage = "answered", !.ok = FALSE]) /\ UNCHANGED jobs
Write(r, job, more) ==
  /\ jobs' = [jobs EXCEPT ![job.id] = job]
  /\ net' = (net \ {r}) \union {[r EXCEPT !.stage = "saving", !.job = job]} \union more

\* Mutant of Free: a job that is sweeping does not count.
FreeWhileSweeping(joint) ==
  \A i \in DOMAIN jobs : jobs[i].joint = joint => jobs[i].status \in TERMINAL \union {"running_sweep"}

Free(joint) ==
  \A i \in DOMAIN jobs : jobs[i].joint = joint => jobs[i].status \in TERMINAL

start_job(r) ==
  IF Free(r.arg)
  THEN /\ Len(jobs) < MaxJobs
       /\ LET job == [id |-> Len(jobs) + 1, joint |-> r.arg, status |-> "started", step |-> 0] IN
          /\ jobs' = Append(jobs, job)
          /\ Move(r, [r EXCEPT !.stage = "saving", !.job = job])
  ELSE Refuse(r)

get_job(r) ==
  /\ \/ Move(r, [r EXCEPT !.stage = "answered", !.job = jobs[r.arg]])
     \/ Move(r, [r EXCEPT !.stage = "answered", !.job = BadBody])
     \/ Move(r, [r EXCEPT !.stage = "answered", !.ok = FALSE])
  /\ UNCHANGED jobs

NextStatus == [started |-> "waiting_for_home", waiting_for_home |-> "running_sweep",
               running_sweep |-> "completed"]

\* The sweep runs in a task of its own.
advance_job(r) ==
  LET job == jobs[r.arg] IN
  IF job.status \in TERMINAL THEN Refuse(r)
  ELSE Write(r, [job EXCEPT !.status = NextStatus[@], !.step = @ + 1],
             IF job.status = "waiting_for_home"
             THEN {[r EXCEPT !.op = "sweep", !.mount = 0]} ELSE {})

\* Mutant of abort_job: a job that is over is aborted too.
AbortAnyway(r) == Write(r, [jobs[r.arg] EXCEPT !.status = "aborted"], {})

abort_job(r) ==
  IF jobs[r.arg].status \in TERMINAL THEN Refuse(r)
  ELSE Write(r, [jobs[r.arg] EXCEPT !.status = "aborted"], {})

\* Mutant of complete_sweep: the task does not look at the job again.
CompleteAnyway(r) ==
  Write(r, [jobs[r.arg] EXCEPT !.status = "completed", !.step = @ + 1], {})

\* The sweep ends, unless the job was completed or aborted meanwhile.
complete_sweep(r) ==
  IF jobs[r.arg].status = "running_sweep"
  THEN Write(r, [jobs[r.arg] EXCEPT !.status = "completed", !.step = @ + 1], {})
  ELSE net' = net \ {r} /\ UNCHANGED jobs

\* The row is saved, and the update goes to the socket subscribed to the job.
\* No job has as many updates as a subscription's queue holds.
persist_and_publish(r) ==
  /\ IF r.op = "sweep" THEN net' = net \ {r}
                       ELSE Move(r, [r EXCEPT !.stage = "answered"])
  /\ ws' = IF ws.state = "live" /\ ws.id = r.job.id
           THEN [ws EXCEPT !.feed = Append(@, r.job)] ELSE ws
  /\ behind' = IF ws.id # r.job.id THEN behind
               ELSE CASE ws.state = "live" /\ r.job = jobs[ws.id] -> behind \ {"window", "order"}
                      [] ws.state = "live" /\ r.job # jobs[ws.id] -> behind \union {"order"}
                      [] ws.state = "snapshot" /\ r.job = jobs[ws.id] -> behind \union {"window"}
                      [] OTHER -> behind
  /\ UNCHANGED jobs

Serve ==
  /\ \E r \in net :
       \/ /\ r.stage = "sent"
          /\ \/ r.op = "start" /\ start_job(r)
             \/ r.op = "get" /\ get_job(r)
             \/ r.op = "advance" /\ advance_job(r)
             \/ r.op = "abort" /\ abort_job(r)
             \/ r.op = "sweep" /\ complete_sweep(r)
          /\ UNCHANGED <<ws, behind>>
       \/ r.stage = "saving" /\ persist_and_publish(r)
  /\ UNCHANGED <<sent, look, cal, mount, shown, error>>

\* On connection a snapshot is sent, then the handler subscribes.
calibration_ws ==
  /\ \/ ws.state = "opening" /\ ws' = [ws EXCEPT !.state = "snapshot", !.feed = <<jobs[ws.id]>>]
     \/ ws.state = "snapshot" /\ ws' = [ws EXCEPT !.state = "live"]
  /\ UNCHANGED <<jobs, net, sent, look, cal, mount, shown, error, behind>>

\* A connection that fails is closed, with what is on its way, and not opened again.
ws_onerror ==
  /\ ws.state \in {"opening", "snapshot", "live"}
  /\ ws' = [ws EXCEPT !.state = "closed", !.feed = <<>>]
  /\ UNCHANGED <<jobs, net, sent, look, cal, mount, shown, error, behind>>

-----------------------------------------------------------------------------
(* Answers reach the page. *)

StartAnswered(r) ==
  /\ cal' = [busy |-> FALSE, job |-> IF r.ok THEN r.job.id ELSE cal.job]
  /\ UNCHANGED <<mount, shown, error>>
  /\ IF r.ok /\ debug THEN Observe(r.job.id, net \ {r})
                      ELSE net' = net \ {r} /\ UNCHANGED <<sent, ws, behind>>

\* The mounted flag belongs to the view, not to the job it asked for.
StateFetched(r) ==
  /\ IF debug /\ r.mount = mount /\ cal.job # 0
     THEN IF r.ok
          THEN /\ shown' = r.job /\ UNCHANGED error
               /\ behind' = IF r.job = jobs[cal.job] THEN behind ELSE behind \union {"read"}
          ELSE error' = TRUE /\ UNCHANGED <<shown, behind>>
     ELSE UNCHANGED <<shown, error, behind>>
  /\ net' = net \ {r}
  /\ UNCHANGED <<sent, cal, mount, ws>>

ActAnswered(r) ==
  /\ error' = (error \/ (~r.ok /\ r.mount = mount /\ debug))
  /\ net' = net \ {r}
  /\ UNCHANGED <<sent, cal, mount, shown, ws, behind>>

Answer ==
  /\ \E r \in net :
       /\ r.stage = "answered"
       /\ \/ r.op = "start" /\ StartAnswered(r)
          \/ r.op = "get" /\ StateFetched(r)
          \/ r.op \in {"advance", "abort"} /\ ActAnswered(r)
  /\ UNCHANGED <<jobs, look>>

ws_onmessage ==
  /\ ws.feed # <<>>
  /\ shown' = Head(ws.feed) /\ ws' = [ws EXCEPT !.feed = Tail(@)]
  /\ behind' = behind \ {"read"}
  /\ UNCHANGED <<jobs, net, sent, look, cal, mount, error>>

\* After a restart the Brain knows the saved jobs, without their tasks.
Reloaded == [id |-> 1, joint |-> 1, status |-> "running_sweep", step |-> 2]

Init ==
  /\ jobs \in {<<>>, <<Reloaded>>}
  /\ net = {} /\ sent = 0
  /\ debug = FALSE /\ selected = 0
  /\ cal = [busy |-> FALSE, job |-> 0]
  /\ mount = 0 /\ shown = NoJob /\ error = FALSE /\ ws = NoSocket
  /\ behind = {}

Next ==
  \/ Select \/ DebugPanel \/ startCalibration \/ advance \/ abort \/ onClose
  \/ Serve \/ calibration_ws \/ ws_onerror \/ Answer \/ ws_onmessage

Spec == Init /\ [][Next]_vars

-----------------------------------------------------------------------------
TypeOK ==
  /\ \A i \in DOMAIN jobs : jobs[i].joint \in 1..Joints /\ jobs[i].id = i
  /\ sent \in 0..MaxRequests /\ debug \in BOOLEAN /\ error \in BOOLEAN
  /\ selected \in 0..Joints /\ mount \in 0..MaxMounts
  /\ cal.busy \in BOOLEAN /\ cal.job \in 0..MaxJobs

(* A job takes each of its three steps once, also when the operator's      *)
(* "Continue" and the sweep's task both complete it, and no joint has two  *)
(* jobs that are not over.                                                 *)
JobsSound ==
  /\ \A i \in DOMAIN jobs : jobs[i].status = "completed" <=> jobs[i].step = 3
  /\ \A i, j \in DOMAIN jobs :
       jobs[i].joint = jobs[j].joint /\ {jobs[i].status, jobs[j].status} \cap TERMINAL = {} => i = j

(* A job that was aborted, or is completed, stays so, whatever the sweep   *)
(* and late requests do.                                                   *)
JobsFinal ==
  [][\A i \in DOMAIN jobs : jobs[i].status \in TERMINAL => jobs'[i] = jobs[i]]_vars

(* The panel's socket is that of the job which "Continue" and "Abort" act  *)
(* on.  Once it is subscribed, its updates are shown and that of the job's *)
(* newest state is out, the panel shows that state: unless the update was  *)
(* published between the snapshot and the subscription or overtaken by an  *)
(* earlier one, or what a read brought late was shown since the last       *)
(* update (useCalibrationJob, calibration_ws).                             *)
PanelFollowsJob ==
  /\ debug => ws.id = cal.job
  /\ debug /\ cal.job # 0 /\ ws.state = "live" /\ ws.feed = <<>> /\ behind = {}
     /\ (\A r \in net : r.stage = "saving" => r.job # jobs[cal.job])
     => shown = jobs[cal.job]
=============================================================================
