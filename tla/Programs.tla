------------------------------ MODULE Programs ------------------------------
(***************************************************************************)
(* The program editor (ProgramsPage.tsx, StepRow.tsx, programAst.ts): a    *)
(* draft of steps, the list of saved programs, and the requests to load,   *)
(* save, delete and run, each answered while the user goes on editing.     *)
(* A step is its kind and one value for its fields (joint and target, pose *)
(* or duration); a stored node also has the names of its attributes, and a *)
(* stored program whether it has a description.                            *)
(***************************************************************************)
EXTENDS Integers, SequencesExt

CONSTANTS MaxValue,    \* bound: field values 0..MaxValue; 0 is the empty one
          MaxPrograms, \* bound: program ids; 1 is stored from the start
          MaxSteps,    \* bound: steps of a draft
          MaxEdits,    \* bound: edits of one behaviour
          MaxCalls,    \* bound: requests of one behaviour
          MaxInFlight  \* bound: requests under way at once

VARIABLES
  store,      \* the Brain: each stored program
  programId, steps, savedPrograms, saving, saveError, deleteError,
  runOf,      \* program of the run shown (runId), 0 for null
  runError,
  loaded,     \* history: the program the draft was loaded from, until it is edited
  calls,      \* requests under way, each with what its handler goes on with
  fresh, edits, sent \* ids given out, edits made, requests sent

vars == <<store, programId, steps, savedPrograms, saving, saveError, deleteError,
          runOf, runError, loaded, calls, fresh, edits, sent>>
draft == <<programId, steps, loaded>>
errors == <<saveError, deleteError, runError>>

Value == 0..MaxValue
Kind == {"move", "move_se3", "wait"}
Step == [kind : Kind, v : Value]

-----------------------------------------------------------------------------
(* programAst.ts: steps and the nodes that are stored.  The value of a     *)
(* node is under one attribute; old programs name a target "target_rad",   *)
(* and G-code adds how a pose is reached (motion_type and the feed rate,   *)
(* with the source line).                                                  *)

emptyStep(kind) == [kind |-> kind, v |-> 0]

Written == [move |-> "target", move_se3 |-> "pose", wait |-> "duration_s"]
stepToNode(s) == [kind |-> s.kind, v |-> s.v, attributes |-> {Written[s.kind]}]

\* The attributes nodeToStep reads.
ReadBy == [move |-> {"target", "target_rad"}, move_se3 |-> {"pose"}, wait |-> {"duration_s"}]

\* Mutant of nodeToStep: a pose is not read back, as in ProgramListView.
MovesAndWaits(n) ==
  IF n.kind \in {"move", "wait"} THEN {[kind |-> n.kind, v |-> n.v]} ELSE {}

\* The step of a node, as a set: empty for a kind the editor does not know.
nodeToStep(n) ==
  {[kind |-> k, v |-> IF n.attributes \intersect ReadBy[k] # {} THEN n.v ELSE 0] :
     k \in Kind \intersect {n.kind}}

\* The program saved for some steps: its description is always the empty one.
programPayload(ss) ==
  [described |-> FALSE, nodes |-> [i \in 1..Len(ss) |-> stepToNode(ss[i])]]

\* The k-th of the places K, and the steps of the nodes that have one, in order.
Place(K, k) == CHOOSE i \in K : Cardinality({j \in K : j <= i}) = k
Parsed(nodes) ==
  LET kept == {i \in 1..Len(nodes) : nodeToStep(nodes[i]) # {}} IN
  [k \in 1..Cardinality(kept) |-> CHOOSE s \in nodeToStep(nodes[Place(kept, k)]) : TRUE]
FirstStep == <<emptyStep("move")>>

None == [id |-> 0, nodes |-> <<>>]

-----------------------------------------------------------------------------
(* The page's requests.  then is what follows the answer. *)

Call(op, id, ss, then) ==
  [op |-> op, id |-> id, steps |-> ss, then |-> then, stage |-> "sent",
   outcome |-> "ok", list |-> {}, nodes |-> <<>>]

Send(op, id, ss, then, rest) ==
  /\ sent < MaxCalls /\ sent' = sent + 1 /\ Cardinality(rest) < MaxInFlight
  /\ calls' = rest \union {Call(op, id, ss, then)}
End(c) == calls' = calls \ {c} /\ UNCHANGED sent

fetchPrograms(then, c) == Send("list", c.id, c.steps, then, calls \ {c})

newProgram ==
  /\ fresh < MaxPrograms /\ fresh' = fresh + 1
  /\ programId' = fresh + 1 /\ steps' = FirstStep /\ loaded' = None
  /\ runOf' = 0 /\ saveError' = FALSE /\ deleteError' = FALSE /\ runError' = FALSE

loadProgram(id) ==
  /\ id \in savedPrograms
  /\ Send("load", id, <<>>, "none", calls)
  /\ UNCHANGED <<draft, saving, errors, runOf>>

LoadAnswered(c) ==
  /\ IF c.outcome = "ok"
     THEN /\ programId' = c.id
          /\ steps' = IF Parsed(c.nodes) = <<>> THEN FirstStep ELSE Parsed(c.nodes)
          /\ loaded' = [id |-> c.id, nodes |-> c.nodes]
          /\ runOf' = 0 /\ saveError' = FALSE /\ deleteError' = FALSE /\ runError' = FALSE
     ELSE UNCHANGED <<draft, runOf, errors>>
  /\ End(c) /\ UNCHANGED <<savedPrograms, saving, fresh>>

handleSave(then) ==
  /\ saving' = TRUE /\ saveError' = FALSE
  /\ Send("save", programId, steps, then, calls)

\* Mutant of SaveAnswered: the run follows a save that failed, as in ProgramListView.
RunAnyway(c) ==
  /\ IF c.outcome = "ok" THEN fetchPrograms(c.then, c) /\ UNCHANGED <<saving, saveError>>
     ELSE /\ saveError' = TRUE /\ saving' = FALSE
          /\ Send("run", c.id, c.steps, "none", calls \ {c})
  /\ UNCHANGED <<draft, savedPrograms, deleteError, runError, runOf, fresh>>

\* The list is read before saving ends; a run follows a save that succeeded.
SaveAnswered(c) ==
  /\ IF c.outcome = "ok" THEN fetchPrograms(c.then, c) /\ UNCHANGED <<saving, saveError>>
                         ELSE saveError' = TRUE /\ saving' = FALSE /\ End(c)
  /\ UNCHANGED <<draft, savedPrograms, deleteError, runError, runOf, fresh>>

handleDelete ==
  /\ programId \in savedPrograms
  /\ deleteError' = FALSE
  /\ Send("delete", programId, <<>>, "none", calls)
  /\ UNCHANGED <<draft, saving, saveError, runError, runOf>>

DeleteAnswered(c) ==
  /\ CASE c.outcome = "ok" -> fetchPrograms("delete", c) /\ UNCHANGED deleteError
       [] c.outcome = "refused" -> deleteError' = TRUE /\ End(c)
       [] OTHER -> End(c) /\ UNCHANGED deleteError
  /\ UNCHANGED <<draft, savedPrograms, saving, saveError, runError, runOf, fresh>>

\* The list has come, and the handler that asked for it goes on.
ListAnswered(c) ==
  /\ savedPrograms' = IF c.outcome = "ok" THEN c.list ELSE savedPrograms
  /\ saving' = (saving /\ c.then \notin {"save", "run"})
  /\ IF c.then = "run" /\ c.outcome # "lost"
     THEN Send("run", c.id, c.steps, "none", calls \ {c}) ELSE End(c)
  /\ IF c.then = "delete" /\ c.outcome # "lost"
     THEN newProgram
     ELSE /\ saveError' = (saveError \/ (c.then \in {"save", "run"} /\ c.outcome = "lost"))
          /\ UNCHANGED <<draft, fresh, runOf, deleteError, runError>>

handleRun == runError' = FALSE /\ handleSave("run")

\* The run is shown under whatever program the page shows by now.
RunAnswered(c) ==
  /\ runOf' = IF c.outcome = "ok" THEN c.id ELSE runOf
  /\ runError' = (runError \/ c.outcome = "refused")
  /\ End(c) /\ UNCHANGED <<draft, savedPrograms, saving, saveError, deleteError, fresh>>

-----------------------------------------------------------------------------
(* Editing the steps *)

Edit(ss) == edits < MaxEdits /\ edits' = edits + 1 /\ steps' = ss /\ loaded' = None

updateStep(i, s) == Edit([steps EXCEPT ![i] = s])
removeStep(i) == Edit(RemoveAt(steps, i))
moveStep(i, dir) ==
  i + dir \in 1..Len(steps) /\ Edit([steps EXCEPT ![i] = steps[i + dir], ![i + dir] = steps[i]])
addStep(kind) == Len(steps) < MaxSteps /\ Edit(Append(steps, emptyStep(kind)))

handleKindChange(i) == \E k \in Kind \ {steps[i].kind} : updateStep(i, emptyStep(k))
MoveFields(i) == steps[i].kind = "move" /\ \E v \in Value : updateStep(i, [steps[i] EXCEPT !.v = v])
PoseFields(i) == steps[i].kind = "move_se3" /\ \E v \in Value : updateStep(i, [steps[i] EXCEPT !.v = v])
WaitField(i) == steps[i].kind = "wait" /\ \E v \in Value : updateStep(i, [steps[i] EXCEPT !.v = v])
RowButtons(i) == removeStep(i) \/ moveStep(i, 1) \/ moveStep(i, -1)

StepRow == \E i \in 1..Len(steps) :
  handleKindChange(i) \/ MoveFields(i) \/ PoseFields(i) \/ WaitField(i) \/ RowButtons(i)
AddButtons == \E k \in Kind : addStep(k)
EditSteps ==
  /\ StepRow \/ AddButtons
  /\ UNCHANGED <<store, programId, savedPrograms, saving, errors, runOf, calls, fresh, sent>>

-----------------------------------------------------------------------------
(* The buttons *)

NewButton == newProgram /\ UNCHANGED <<store, savedPrograms, saving, calls, edits, sent>>

SavedList ==
  (\E id \in savedPrograms : loadProgram(id)) /\ UNCHANGED <<store, savedPrograms, fresh, edits>>

\* Saving disables "Save" and "Save & Run"; nothing disables "Delete".
ActionButtons ==
  /\ \/ /\ ~saving
        /\ (handleSave("save") /\ UNCHANGED runError) \/ handleRun
        /\ UNCHANGED <<draft, deleteError, runOf>>
     \/ handleDelete
  /\ UNCHANGED <<store, savedPrograms, fresh, edits>>

\* The run view closes itself.
RunClosed ==
  /\ runOf # 0 /\ runOf' = 0 /\ runError' = FALSE
  /\ UNCHANGED <<store, draft, savedPrograms, saving, saveError, deleteError, calls, fresh,
                 edits, sent>>

-----------------------------------------------------------------------------
(* The Brain serves a request or refuses it, or the request or its answer  *)
(* is lost; a program that is not stored is neither loaded nor run.        *)
Serve ==
  /\ \E c \in calls, outcome \in {"ok", "refused", "lost"}, reached \in BOOLEAN :
       /\ c.stage = "sent"
       /\ outcome = "ok" => reached
       /\ outcome = "refused" => ~reached
       /\ outcome = "ok" /\ c.op \in {"load", "run"} => c.id \in DOMAIN store
       /\ store' = CASE reached /\ c.op = "save" ->
                          [id \in DOMAIN store \union {c.id} |->
                            IF id = c.id THEN programPayload(c.steps) ELSE store[id]]
                     [] reached /\ c.op = "delete" ->
                          [id \in DOMAIN store \ {c.id} |-> store[id]]
                     [] OTHER -> store
       /\ calls' = (calls \ {c}) \union
            {[c EXCEPT !.stage = "answered", !.outcome = outcome,
                       !.list = IF c.op = "list" THEN DOMAIN store ELSE {},
                       !.nodes = IF c.op = "load" /\ outcome = "ok" THEN store[c.id].nodes ELSE <<>>]}
  /\ UNCHANGED <<draft, savedPrograms, saving, errors, runOf, fresh, edits, sent>>

Answer ==
  /\ \E c \in calls :
       /\ c.stage = "answered"
       /\ \/ c.op = "list" /\ ListAnswered(c)
          \/ c.op = "load" /\ LoadAnswered(c)
          \/ c.op = "save" /\ SaveAnswered(c)
          \/ c.op = "delete" /\ DeleteAnswered(c)
          \/ c.op = "run" /\ RunAnswered(c)
  /\ UNCHANGED <<store, edits>>

\* Program 1: an old one of a legacy move and a pose, one made from G-code, or an empty one.
Stored ==
  {[described |-> FALSE, nodes |-> <<[kind |-> "move", v |-> 1, attributes |-> {"target_rad"}],
                                     [kind |-> "move_se3", v |-> 1, attributes |-> {"pose"}]>>],
   [described |-> TRUE,
    nodes |-> <<[kind |-> "move_se3", v |-> 1, attributes |-> {"pose", "motion"}]>>],
   [described |-> FALSE, nodes |-> <<>>]}

Init ==
  /\ \E p \in Stored : store = [id \in {1} |-> p]
  /\ loaded = None
  /\ programId = 2 /\ steps = FirstStep /\ savedPrograms = {} /\ fresh = 2
  /\ saving = FALSE /\ saveError = FALSE /\ deleteError = FALSE /\ runError = FALSE
  /\ runOf = 0 /\ edits = 0 /\ sent = 1
  /\ calls = {Call("list", 0, <<>>, "none")}

Next ==
  \/ NewButton \/ SavedList \/ EditSteps \/ ActionButtons \/ RunClosed \/ Serve \/ Answer

Spec == Init /\ [][Next]_vars

-----------------------------------------------------------------------------
TypeOK ==
  /\ programId \in 1..MaxPrograms /\ steps \in Seq(Step) /\ Len(steps) <= MaxSteps
  /\ DOMAIN store \subseteq 1..MaxPrograms /\ savedPrograms \subseteq 1..MaxPrograms
  /\ saving \in BOOLEAN /\ {runOf, loaded.id} \subseteq 0..MaxPrograms
  /\ saveError \in BOOLEAN /\ deleteError \in BOOLEAN /\ runError \in BOOLEAN

(* A run is asked for only when the Brain holds exactly the steps that its *)
(* own "Save & Run" saved, whatever is edited, loaded or saved meanwhile   *)
(* (only a deletion may have taken the program away): handleRun.           *)
RunsWhatItSaved ==
  [][\A c \in calls' \ calls :
       c.op = "run" /\ c.stage = "sent" /\ c.id \in DOMAIN store => store[c.id] = programPayload(c.steps)]_vars

(* What the editor shows after a load, unedited, is saved again as follows *)
(* (loadProgram, nodeToStep, stepToNode).  It is saved over the program it *)
(* was loaded from, node by node with its kind and value, in order, under  *)
(* the attribute the editor writes: "target_rad" is renamed, and what      *)
(* G-code adds is lost, with the description.  A program of no nodes is    *)
(* saved as one with a move.                                               *)
LoadThenSaveKeeps ==
  loaded.id # 0 =>
    /\ programId = loaded.id
    /\ programPayload(steps).nodes =
         IF loaded.nodes = <<>> THEN <<stepToNode(emptyStep("move"))>>
         ELSE [i \in DOMAIN loaded.nodes |->
                 [loaded.nodes[i] EXCEPT !.attributes = {Written[loaded.nodes[i].kind]}]]
=============================================================================
