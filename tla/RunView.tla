------------------------------- MODULE RunView -------------------------------
(***************************************************************************)
(* Watching a program run (ProgramRunPanel.tsx, ProgramRunView.tsx,        *)
(* useProgramRun.ts): the panel chooses a program and starts it; the hook  *)
(* reads the run once and follows its socket, on which the Brain sends a   *)
(* snapshot and then the updates published after it has subscribed.  The   *)
(* Brain changes a run in memory, saves its row and then publishes it, the *)
(* executor and "Stop" each for itself.                                    *)
(***************************************************************************)
EXTENDS Naturals, Sequences, FiniteSets

CONSTANTS MaxPrograms, \* bound: saved programs
          MaxRuns,     \* bound: runs started
          MaxSteps,    \* steps of every program
          MaxGets,     \* bound: reads under way at once
          Queue        \* updates a subscription's queue holds

VARIABLES
  runs, rows,    \* the Brain's runs in memory, and as saved
  saves,         \* rows being saved, to be published then
  listed, selectedId,           \* programs read; the one chosen
  runId, running, start,        \* run shown; a start under way, and its request
  stopping,      \* runs for which a stop is under way
  state, unmounted,             \* useProgramRun
  sock,          \* its socket: run, stage and frames under way
  gets,          \* reads under way
  behind         \* history: why the panel may be behind its run

vars == <<runs, rows, saves, listed, selectedId, runId, running, start, stopping, state,
          unmounted, sock, gets, behind>>
panel == <<listed, selectedId>>
hook == <<state, unmounted, sock, gets, behind>>
brain == <<runs, rows, saves>>

Program == 1..MaxPrograms
PROGRAM_RUN_TERMINAL == {"stopped", "completed", "faulted", "interrupted"}
NoState == [run |-> 0, status |-> "none", step |-> 0]
\* The body of an error, taken for a state.
BadBody == [run |-> 0, status |-> "undefined", step |-> 0]
NoSocket == [run |-> 0, stage |-> "closed", frames |-> <<>>]
NoStart == [run |-> 0, stage |-> "none"]
StateOf(r) == [run |-> r, status |-> runs[r].status, step |-> runs[r].step]
Get(id) == [id |-> id, stage |-> "sent", reply |-> NoState]

-----------------------------------------------------------------------------
(* useProgramRun *)

\* Mutant of Follow: the flag of the run before it stays set.
FollowUnmounted(r, rest) ==
  /\ UNCHANGED unmounted
  /\ gets' = rest \union {Get(r)}
  /\ sock' = [run |-> r, stage |-> "connecting", frames |-> <<>>]
  /\ behind' = {}

\* The effect for a run: its state is read and its socket opened.
Follow(r, rest) ==
  /\ unmounted' = FALSE
  /\ gets' = rest \union {Get(r)}
  /\ sock' = [run |-> r, stage |-> "connecting", frames |-> <<>>]
  /\ behind' = {}

\* Its cleanup; the view goes with the run, and its state with the view.
Unfollow ==
  /\ unmounted' = TRUE /\ state' = NoState /\ sock' = NoSocket
  /\ behind' = {}

\* setRunId to a run: a view that already shows one keeps its state.
setRunId(r) ==
  Cardinality(gets) < MaxGets /\ Follow(r, gets) /\ runId' = r /\ UNCHANGED state

\* The read is not told apart by run, nor by age, nor is it looked at for an error.
RunFetched(g) ==
  /\ IF unmounted \/ g.stage = "failed" THEN UNCHANGED <<state, behind>>
     ELSE /\ state' = g.reply
          /\ behind' = IF g.reply = StateOf(runId) THEN behind ELSE behind \union {"read"}
  /\ gets' = gets \ {g}
  /\ UNCHANGED <<unmounted, sock>>

ws_onmessage ==
  /\ sock.frames # <<>>
  /\ sock' = [sock EXCEPT !.frames = Tail(@)]
  /\ IF unmounted THEN UNCHANGED <<state, behind>>
                  ELSE state' = Head(sock.frames) /\ behind' = behind \ {"read"}
  /\ UNCHANGED <<brain, panel, runId, running, start, stopping, unmounted, gets>>

\* A connection that fails is closed, with what is on its way, and not opened again.
ws_onerror ==
  /\ sock.stage # "closed"
  /\ sock' = [sock EXCEPT !.stage = "closed", !.frames = <<>>]
  /\ UNCHANGED <<brain, panel, runId, running, start, stopping, state, unmounted, gets, behind>>

-----------------------------------------------------------------------------
(* ProgramRunView *)

Rendered == runId # 0 /\ state # NoState
isTerminal == state.status \in PROGRAM_RUN_TERMINAL

CloseButton ==
  /\ Rendered /\ isTerminal
  /\ runId' = 0 /\ Unfollow
  /\ UNCHANGED <<brain, panel, running, start, stopping, gets>>

\* Posts to the run of the hook; the new state arrives by the socket.
StopButton ==
  /\ Rendered /\ ~isTerminal
  /\ stopping' = stopping \union {runId}
  /\ UNCHANGED <<brain, panel, runId, running, start, hook>>

-----------------------------------------------------------------------------
(* ProgramRunPanel *)

\* The list is read once and its first program chosen.
Listed ==
  /\ ~listed /\ listed' = TRUE
  /\ selectedId' = 1
  /\ UNCHANGED <<brain, runId, running, start, stopping, hook>>

Selector ==
  /\ listed
  /\ \E p \in Program \ {selectedId} :
       /\ selectedId' = p
       /\ runId' = 0 /\ Unfollow
  /\ UNCHANGED <<brain, listed, running, start, stopping, gets>>

handleRun ==
  /\ selectedId # 0 /\ ~running
  /\ running' = TRUE /\ start' = [run |-> 0, stage |-> "sent"]
  /\ UNCHANGED <<brain, panel, runId, stopping, hook>>

\* The run is shown whatever program is selected by now.
StartAnswered ==
  /\ start.stage = "answered"
  /\ running' = FALSE /\ start' = NoStart
  /\ IF start.run # 0 THEN setRunId(start.run) ELSE UNCHANGED <<runId, hook>>
  /\ UNCHANGED <<brain, panel, stopping>>

Answer ==
  /\ \E g \in gets :
       /\ g.stage # "sent" /\ RunFetched(g)
  /\ UNCHANGED <<brain, panel, runId, running, start, stopping>>

-----------------------------------------------------------------------------
(* The Brain *)

\* A run is changed in memory; its row is to be saved.
Write(r, status, step, by) ==
  /\ runs' = [runs EXCEPT ![r] = [status |-> status, step |-> step]]
  /\ saves' = saves \union {[by |-> by, state |-> [run |-> r, status |-> status, step |-> step]]}
  /\ UNCHANGED rows

\* A run is known to no one before its row is saved and its start answered.
Starts ==
  /\ start.stage = "sent"
  /\ \/ /\ Len(runs) < MaxRuns
        /\ runs' = Append(runs, [status |-> "running", step |-> 0])
        /\ rows' = Append(rows, [status |-> "running", step |-> 0])
        /\ start' = [start EXCEPT !.run = Len(runs) + 1, !.stage = "answered"]
     \/ start' = [start EXCEPT !.stage = "answered"] /\ UNCHANGED <<runs, rows>>
  /\ UNCHANGED <<saves, panel, runId, running, stopping, hook>>

\* A run that is over is refused, and a request may be lost.
stop_run ==
  /\ \E r \in stopping :
       /\ stopping' = stopping \ {r}
       /\ \/ runs[r].status \notin PROGRAM_RUN_TERMINAL /\ Write(r, "stopped", runs[r].step, "stop")
          \/ UNCHANGED brain
  /\ UNCHANGED <<panel, runId, running, start, hook>>

\* The executor begins a step, has done all of them, or faults; it waits for its saves.
Execute ==
  /\ \E r \in DOMAIN runs :
       /\ runs[r].status = "running"
       /\ \A u \in saves : ~(u.by = "executor" /\ u.state.run = r)
       /\ \/ runs[r].step < MaxSteps /\ Write(r, "running", runs[r].step + 1, "executor")
          \/ runs[r].step = MaxSteps /\ Write(r, "completed", MaxSteps, "executor")
          \/ Write(r, "faulted", runs[r].step, "executor")
  /\ UNCHANGED <<panel, runId, running, start, stopping, hook>>

\* The row is saved, and the update goes to the socket that has subscribed to
\* the run, unless its queue is full (what is under way has left the queue in part).
persist_and_publish ==
  /\ \E u \in saves, full \in BOOLEAN :
       LET s == u.state
           newest == s = StateOf(s.run)
       IN
       /\ full => Len(sock.frames) >= Queue
       /\ saves' = saves \ {u}
       /\ rows' = [rows EXCEPT ![s.run] = [status |-> s.status, step |-> s.step]]
       /\ IF sock.run = s.run /\ sock.stage = "open" /\ ~full
          THEN /\ sock' = [sock EXCEPT !.frames = Append(@, s)]
               /\ behind' = IF newest THEN behind \ {"window", "order", "full"}
                                      ELSE behind \union {"order"}
          ELSE /\ UNCHANGED sock
               /\ behind' = IF newest /\ sock.run = s.run
                            THEN behind \union (CASE sock.stage = "accepted" -> {"window"}
                                                  [] sock.stage = "open" -> {"full"}
                                                  [] OTHER -> {})
                            ELSE behind
  /\ UNCHANGED <<runs, panel, runId, running, start, stopping, state, unmounted, gets>>

\* Reloaded from their rows, runs that were not over are interrupted.
Restart ==
  /\ runs' = [r \in DOMAIN rows |->
                IF rows[r].status \in PROGRAM_RUN_TERMINAL THEN rows[r]
                ELSE [rows[r] EXCEPT !.status = "interrupted"]]
  /\ rows' = runs' /\ saves' = {} /\ stopping' = {}
  /\ sock' = IF sock.stage \in {"accepted", "open"}
             THEN [sock EXCEPT !.stage = "closed", !.frames = <<>>] ELSE sock
  /\ UNCHANGED <<panel, runId, running, start, state, unmounted, gets, behind>>

\* run_ws: the snapshot is read and sent, then the handler subscribes.
run_ws ==
  /\ \/ /\ sock.stage = "connecting"
        /\ sock' = [sock EXCEPT !.stage = "accepted", !.frames = <<StateOf(sock.run)>>]
     \/ sock.stage = "accepted" /\ sock' = [sock EXCEPT !.stage = "open"]
  /\ UNCHANGED <<brain, panel, runId, running, start, stopping, state, unmounted, gets, behind>>

\* The run is read, or the read refused with a body of its own, or it fails.
get_run ==
  /\ \E g \in gets :
       /\ g.stage = "sent"
       /\ \E h \in {[g EXCEPT !.stage = "answered", !.reply = StateOf(g.id)],
                   [g EXCEPT !.stage = "answered", !.reply = BadBody],
                   [g EXCEPT !.stage = "failed"]} :
            gets' = (gets \ {g}) \union {h}
  /\ UNCHANGED <<brain, panel, runId, running, start, stopping, state, unmounted, sock, behind>>

Init ==
  /\ runs = <<>> /\ rows = <<>> /\ saves = {} /\ listed = FALSE /\ selectedId = 0 /\ runId = 0
  /\ running = FALSE /\ start = NoStart /\ stopping = {} /\ state = NoState
  /\ unmounted = FALSE /\ sock = NoSocket /\ gets = {} /\ behind = {}

Next ==
  \/ Listed \/ Selector \/ handleRun \/ StartAnswered \/ CloseButton \/ StopButton
  \/ ws_onmessage \/ ws_onerror \/ Answer \/ Starts \/ stop_run \/ Execute
  \/ persist_and_publish \/ Restart \/ run_ws \/ get_run

Spec == Init /\ [][Next]_vars

-----------------------------------------------------------------------------
TypeOK ==
  /\ runs \in Seq([status : {"running"} \union PROGRAM_RUN_TERMINAL, step : 0..MaxSteps])
  /\ listed \in BOOLEAN /\ selectedId \in 0..MaxPrograms
  /\ {runId, state.run, sock.run, start.run} \subseteq 0..MaxRuns
  /\ {running, unmounted} \subseteq BOOLEAN
  /\ behind \subseteq {"window", "order", "full", "read"}

(* While its socket is connected, has delivered, and the run's newest      *)
(* state is published, the panel shows that state of the run it is for, so *)
(* that a run that has ended is not offered "Stop".  Four things alone can *)
(* leave it behind until the next update or read: the update came between  *)
(* the snapshot and the subscription, was dropped from a full queue, or    *)
(* was overtaken by an earlier one; or what a read brought, late or        *)
(* refused, was shown after it (useProgramRun.ts, run_ws).                 *)
PanelCurrent ==
  runId # 0 /\ sock.stage = "open" /\ sock.frames = <<>> /\ behind = {}
  /\ (\A u \in saves : u.state # StateOf(runId))
    => state = StateOf(runId)
=============================================================================
