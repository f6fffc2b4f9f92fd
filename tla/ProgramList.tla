----------------------------- MODULE ProgramList -----------------------------
(***************************************************************************)
(* ProgramListView.tsx, the workspace's compact program editor: a draft of *)
(* moves and waits, the list of saved programs, and the requests to load,  *)
(* save and run.  It shares the Brain's programs with ProgramsPage.  A     *)
(* step is its kind and one value for its fields; no page mounts the       *)
(* component yet.                                                          *)
(***************************************************************************)
EXTENDS Integers, SequencesExt

CONSTANTS MaxValue,    \* bound: field values 0..MaxValue; 0 is the empty one
          MaxPrograms, \* bound: program ids; 1 is stored from the start
          MaxSteps,    \* bound: steps of a draft
          MaxEdits,    \* bound: edits of one behaviour
          MaxCalls,    \* bound: requests of one behaviour
          MaxInFlight  \* bound: requests under way at once

VARIABLES
  store,                         \* the Brain: the nodes of each stored program
  programId, steps, saving, saveError, listLoading, savedPrograms,
  run,                           \* program whose run is shown (runId), 0 for null
  runError,
  calls,                         \* requests under way
  fresh, edits, sent             \* ids given out, edits made, requests sent

vars == <<store, programId, steps, saving, saveError, listLoading, savedPrograms, run,
          runError, calls, fresh, edits, sent>>
draft == <<programId, steps, run>>
errors == <<saveError, runError>>

Kind == {"move", "wait"}
Step == [kind : Kind, v : 0..MaxValue]

emptyStep(kind) == [kind |-> kind, v |-> 0]
FirstStep == <<emptyStep("move")>>

-----------------------------------------------------------------------------
(* Steps and stored nodes: a move's target was once named "target_rad", a  *)
(* node of another kind is left out.                                       *)

stepToNode(s) == [kind |-> s.kind, v |-> s.v, attr |-> IF s.kind = "move" THEN "target" ELSE "duration_s"]
ReadBy == [move |-> {"target", "target_rad"}, wait |-> {"duration_s"}]
nodeToStep(n) ==
  {[kind |-> k, v |-> IF n.attr \in ReadBy[k] THEN n.v ELSE 0] : k \in Kind \intersect {n.kind}}

programPayload(ss) == [i \in 1..Len(ss) |-> stepToNode(ss[i])]

\* The k-th of the places K, and the steps of the nodes that have one, in order.
Place(K, k) == CHOOSE i \in K : Cardinality({j \in K : j <= i}) = k
Parsed(nodes) ==
  LET kept == {i \in 1..Len(nodes) : nodeToStep(nodes[i]) # {}} IN
  [k \in 1..Cardinality(kept) |-> CHOOSE s \in nodeToStep(nodes[Place(kept, k)]) : TRUE]

-----------------------------------------------------------------------------
(* Requests.  A save goes on to the list, and for "Run" to the run. *)

brainFetch(op, id, ss, thenRun, rest) ==
  /\ sent < MaxCalls /\ sent' = sent + 1 /\ Cardinality(rest) < MaxInFlight
  /\ calls' = rest \union {[op |-> op, id |-> id, steps |-> ss, thenRun |-> thenRun, n |-> sent + 1,
                            stage |-> "sent", outcome |-> "ok", list |-> {}, nodes |-> <<>>]}
End(c) == calls' = calls \ {c} /\ UNCHANGED sent

newProgram ==
  /\ fresh < MaxPrograms /\ fresh' = fresh + 1
  /\ programId' = fresh + 1 /\ steps' = FirstStep
  /\ run' = 0 /\ saveError' = FALSE /\ runError' = FALSE
  /\ UNCHANGED <<store, saving, listLoading, savedPrograms, calls, edits, sent>>

loadProgram ==
  /\ ~listLoading
  /\ \E id \in savedPrograms : brainFetch("load", id, <<>>, FALSE, calls)
  /\ UNCHANGED <<store, draft, saving, errors, listLoading, savedPrograms, fresh, edits>>

\* An answer that is not ok changes nothing.
LoadAnswered(c) ==
  /\ IF c.outcome = "ok"
     THEN /\ programId' = c.id /\ run' = 0 /\ saveError' = FALSE /\ runError' = FALSE
          /\ steps' = IF Parsed(c.nodes) = <<>> THEN FirstStep ELSE Parsed(c.nodes)
     ELSE UNCHANGED <<draft, errors>>
  /\ End(c) /\ UNCHANGED <<saving, listLoading, savedPrograms>>

handleSave(thenRun) ==
  /\ ~saving /\ saving' = TRUE /\ saveError' = FALSE
  /\ brainFetch("save", programId, steps, thenRun, calls)
  /\ UNCHANGED <<store, draft, listLoading, savedPrograms, fresh, edits>>

\* handleSave is over: for "Run", the run is asked for now.
Saved(c) ==
  /\ saving' = FALSE
  /\ IF c.thenRun THEN brainFetch("run", c.id, c.steps, FALSE, calls \ {c}) ELSE End(c)

\* A save that failed says so and is over; one that succeeded reads the list.
SaveAnswered(c) ==
  /\ IF c.outcome = "ok"
     THEN /\ listLoading' = TRUE
          /\ brainFetch("list", c.id, c.steps, c.thenRun, calls \ {c})
          /\ UNCHANGED <<saving, saveError>>
     ELSE saveError' = TRUE /\ Saved(c) /\ UNCHANGED listLoading
  /\ UNCHANGED <<draft, runError, savedPrograms>>

\* fetchPrograms; its first call, on mount, belongs to no save.
ListAnswered(c) ==
  /\ listLoading' = FALSE
  /\ savedPrograms' = IF c.outcome = "ok" THEN c.list ELSE savedPrograms
  /\ IF c.id = 0 THEN End(c) /\ UNCHANGED <<saving, saveError>>
     ELSE saveError' = (saveError \/ c.outcome = "lost") /\ Saved(c)
  /\ UNCHANGED <<draft, runError>>

\* Mutant of handleRun: the run is asked for at once, beside the save.
RunBesideSave ==
  /\ ~saving /\ steps # <<>> /\ runError' = FALSE
  /\ brainFetch("run", programId, steps, FALSE, calls)
  /\ UNCHANGED <<store, draft, saving, saveError, listLoading, savedPrograms, fresh, edits>>

handleRun == steps # <<>> /\ runError' = FALSE /\ handleSave(TRUE)

RunAnswered(c) ==
  /\ run' = IF c.outcome = "ok" THEN c.id ELSE run
  /\ runError' = (runError \/ c.outcome = "refused")
  /\ End(c) /\ UNCHANGED <<programId, steps, saving, saveError, listLoading, savedPrograms>>

-----------------------------------------------------------------------------
(* Editing *)

Edit(ss) ==
  /\ edits < MaxEdits /\ edits' = edits + 1 /\ steps' = ss
  /\ UNCHANGED <<store, programId, run, saving, errors, listLoading, savedPrograms, calls, fresh, sent>>

updateStep(i, s) == Edit([steps EXCEPT ![i] = s])
removeStep(i) == Edit(RemoveAt(steps, i))
moveStep(i, dir) ==
  i + dir \in 1..Len(steps) /\ Edit([steps EXCEPT ![i] = steps[i + dir], ![i + dir] = steps[i]])
addStep == Len(steps) < MaxSteps /\ \E k \in Kind : Edit(Append(steps, emptyStep(k)))

KindSelector(i) == \E k \in Kind \ {steps[i].kind} : updateStep(i, emptyStep(k))
StepFields(i) == \E v \in 0..MaxValue : updateStep(i, [steps[i] EXCEPT !.v = v])
RowButtons(i) == removeStep(i) \/ moveStep(i, 1) \/ moveStep(i, -1)
StepRow == \E i \in 1..Len(steps) : KindSelector(i) \/ StepFields(i) \/ RowButtons(i)

SaveButton == handleSave(FALSE) /\ UNCHANGED runError

RunClosed ==
  /\ run # 0 /\ run' = 0
  /\ UNCHANGED <<store, programId, steps, saving, errors, listLoading, savedPrograms, calls, fresh, edits, sent>>

-----------------------------------------------------------------------------
(* External: the Brain serves a request or refuses it, or the request or   *)
(* its answer is lost.                                                     *)
Serve ==
  /\ \E c \in calls, outcome \in {"ok", "refused", "lost"}, reached \in BOOLEAN :
       /\ c.stage = "sent" /\ (outcome = "ok" => reached) /\ (outcome = "refused" => ~reached)
       /\ outcome = "ok" /\ c.op \in {"load", "run"} => c.id \in DOMAIN store
       /\ store' = IF reached /\ c.op = "save"
                   THEN [id \in DOMAIN store \union {c.id} |->
                           IF id = c.id THEN programPayload(c.steps) ELSE store[id]]
                   ELSE store
       /\ calls' = (calls \ {c}) \union
            {[c EXCEPT !.stage = "answered", !.outcome = outcome,
                       !.list = IF c.op = "list" THEN DOMAIN store ELSE {},
                       !.nodes = IF c.op = "load" /\ outcome = "ok" THEN store[c.id] ELSE <<>>]}
  /\ UNCHANGED <<draft, saving, errors, listLoading, savedPrograms, fresh, edits, sent>>

Answer ==
  /\ \E c \in calls :
       /\ c.stage = "answered"
       /\ \/ c.op = "list" /\ ListAnswered(c)
          \/ c.op = "load" /\ LoadAnswered(c)
          \/ c.op = "save" /\ SaveAnswered(c)
          \/ c.op = "run" /\ RunAnswered(c)
  /\ UNCHANGED <<store, fresh, edits>>

\* Program 1 was made elsewhere, of an old move and a pose.
Init ==
  /\ store = [id \in {1} |-> <<[kind |-> "move", v |-> 1, attr |-> "target_rad"],
                               [kind |-> "move_se3", v |-> 1, attr |-> "pose"]>>]
  /\ programId = 2 /\ steps = FirstStep /\ run = 0 /\ fresh = 2
  /\ saving = FALSE /\ saveError = FALSE /\ runError = FALSE
  /\ savedPrograms = {} /\ listLoading = TRUE /\ edits = 0 /\ sent = 1
  /\ calls = {[op |-> "list", id |-> 0, steps |-> <<>>, thenRun |-> FALSE, n |-> 1,
               stage |-> "sent", outcome |-> "ok", list |-> {}, nodes |-> <<>>]}

Next ==
  \/ newProgram \/ loadProgram \/ addStep \/ StepRow \/ SaveButton \/ handleRun \/ RunClosed
  \/ Serve \/ Answer

Spec == Init /\ [][Next]_vars

-----------------------------------------------------------------------------
TypeOK ==
  /\ programId \in 1..MaxPrograms /\ steps \in Seq(Step) /\ Len(steps) <= MaxSteps
  /\ DOMAIN store \subseteq 1..MaxPrograms /\ savedPrograms \subseteq DOMAIN store
  /\ {saving, saveError, runError, listLoading} \subseteq BOOLEAN /\ run \in 0..MaxPrograms

(* "Run" runs the steps that were there when it was clicked, or an error   *)
(* of the save is shown at that moment: a run follows a failed save, of    *)
(* what the Brain had before (handleRun, ProgramListView.tsx:369).         *)
RunsSavedOrSaysSo ==
  [][\A c \in calls' \ calls :
       c.op = "run" /\ c.stage = "sent" =>
         saveError' \/ (c.id \in DOMAIN store /\ store[c.id] = programPayload(c.steps))]_vars
=============================================================================
