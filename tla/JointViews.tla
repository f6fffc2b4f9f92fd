------------------------------ MODULE JointViews ------------------------------
(***************************************************************************)
(* What the workspace page shows of the joints of one machine: the angles  *)
(* and the ring buffers that App derives from the newest state message at  *)
(* every render, the flags of moving joints (useActiveJoints), the rows of *)
(* MachineCard with their popover, and the debug panel.                    *)
(*                                                                         *)
(* A joint's name is its number in the chain.  A message lists the joints  *)
(* that report in the order of the sidecar's pool, which is any order.     *)
(***************************************************************************)
EXTENDS Integers, Sequences, SequencesExt, FiniteSetsExt

CONSTANTS Joints,      \* number of configured joints
          MAX,         \* samples of a ring buffer (300)
          Threshold,   \* MOTION_THRESHOLD; a larger change is a motion
          Position,    \* positions a joint can report
          MaxMessages, \* bound: messages
          MaxRenders   \* bound: renders without a message

VARIABLES
  chain,     \* dhJoints: the configured chain, empty when none was ever set
  measured,  \* the newest message's joints
  history,   \* historyRef: samples of each place of the message
  prev,      \* prevRef of useActiveJoints
  active,    \* the flags
  timers,    \* places with a decay timer
  selectedJoint, showDebug,
  detail,    \* row of the open popover, 0 for none
  messages, renders

feed == <<chain, measured, messages>>
views == <<history, prev, active, timers>>
picked == <<selectedJoint, showDebug, detail>>
vars == <<feed, views, picked, renders>>

Reading == [name : 1..Joints, pos : Position]
None == [name |-> 0, pos |-> 0]

-----------------------------------------------------------------------------
(* Derived at a render from message m. *)

joints(m) == IF chain # <<>> THEN chain ELSE [i \in 1..Len(m) |-> m[i].name]

Find(m, name) ==
  LET at == {i \in 1..Len(m) : m[i].name = name} IN IF at = {} THEN None ELSE m[Min(at)]
anglesRad(m) == [i \in 1..Len(joints(m)) |-> Find(m, joints(m)[i]).pos]

\* The state of a row: by name, else whatever is at its place.
RowState(m, i) ==
  LET own == Find(m, joints(m)[i]) IN
  IF own # None THEN own ELSE IF i <= Len(m) THEN m[i] ELSE None

DebugJoint == IF showDebug /\ selectedJoint <= Len(measured) THEN measured[selectedJoint] ELSE None

\* One sample of every place of the message, whatever joint is there.
Buf(i) == IF i <= Len(history) THEN history[i] ELSE <<>>
Pushed(m) ==
  [i \in 1..Max({Len(m), Len(history)}) |->
     IF i > Len(m) THEN Buf(i)
     ELSE LET b == Append(Buf(i), m[i].pos) IN IF Len(b) > MAX THEN Tail(b) ELSE b]

-----------------------------------------------------------------------------
(* useActiveJoints *)

Moved(angles) ==
  {i \in 1..Len(angles) : i <= Len(prev) /\ angles[i] - prev[i] \notin -Threshold..Threshold}

\* Mutant of Flag: a joint that moves on does not renew its timer.
FlagOnce(angles) ==
  LET moved == Moved(angles)
      base == IF Len(active) = Len(angles) THEN active ELSE [i \in 1..Len(angles) |-> FALSE] IN
  /\ prev' = angles
  /\ active' = IF moved = {} THEN active ELSE [i \in 1..Len(angles) |-> base[i] \/ i \in moved]
  /\ timers' = (timers \ moved) \union (moved \ timers)

\* A motion lights the flag and sets the timer anew; flags of another
\* number of joints are dropped.
Flag(angles) ==
  LET moved == Moved(angles)
      base == IF Len(active) = Len(angles) THEN active ELSE [i \in 1..Len(angles) |-> FALSE] IN
  /\ prev' = angles
  /\ active' = IF moved = {} THEN active ELSE [i \in 1..Len(angles) |-> base[i] \/ i \in moved]
  /\ timers' = timers \union moved

Decayed ==
  /\ \E i \in timers :
       /\ timers' = timers \ {i}
       /\ active' = IF i <= Len(active) THEN [active EXCEPT ![i] = FALSE] ELSE active
  /\ UNCHANGED <<feed, history, prev, picked, renders>>

-----------------------------------------------------------------------------
(* App *)

\* Every render of App pushes samples, also one without a new message.
Render(m) == history' = Pushed(m) /\ Flag(anglesRad(m))

setState ==
  /\ messages < MaxMessages /\ messages' = messages + 1
  /\ \E up \in SUBSET (1..Joints) : \E m \in SetToSeqs(up) : \E pos \in [up -> Position] :
       /\ measured' = [i \in 1..Len(m) |-> [name |-> m[i], pos |-> pos[m[i]]]]
       /\ Render(measured')
  /\ UNCHANGED <<chain, picked, renders>>

Rerender ==
  /\ renders < MaxRenders /\ renders' = renders + 1
  /\ Render(measured)
  /\ UNCHANGED feed

\* MachineCard: a click on a row opens its details and selects the joint.
openDetails ==
  /\ \E i \in 1..Len(joints(measured)) : selectedJoint' = i /\ detail' = i
  /\ UNCHANGED showDebug /\ Rerender

\* The popover is the card's own: closing it renders nothing else.
closeDetails ==
  /\ detail # 0 /\ detail' = 0
  /\ UNCHANGED <<feed, views, selectedJoint, showDebug, renders>>

onToggleDebug == showDebug' = ~showDebug /\ UNCHANGED <<selectedJoint, detail>> /\ Rerender

\* onDhChange: the editor gave the machine a chain.
onDhChange ==
  /\ chain = <<>> /\ renders < MaxRenders /\ renders' = renders + 1
  /\ chain' = [i \in 1..Joints |-> i]
  /\ history' = Pushed(measured)
  /\ Flag([i \in 1..Joints |-> Find(measured, i).pos])
  /\ UNCHANGED <<measured, messages, picked>>

Init ==
  /\ chain \in {<<>>, [i \in 1..Joints |-> i]} /\ measured = <<>> /\ messages = 0
  /\ history = <<>> /\ prev = [i \in 1..Len(chain) |-> 0] /\ active = <<>> /\ timers = {}
  /\ selectedJoint = 1 /\ showDebug = FALSE /\ detail = 0 /\ renders = 0

Next ==
  \/ setState \/ Decayed \/ openDetails \/ closeDetails \/ onToggleDebug \/ onDhChange

Spec == Init /\ [][Next]_vars

-----------------------------------------------------------------------------
TypeOK ==
  /\ measured \in Seq(Reading) /\ selectedJoint \in 1..Joints /\ detail \in 0..Joints
  /\ active \in Seq(BOOLEAN) /\ timers \subseteq 1..Joints /\ showDebug \in BOOLEAN

(* No joint is shown as moving for ever: a lit flag has a timer, through   *)
(* re-renders, renewed motions, timers that go off in any order and a      *)
(* change of the number of joints (useActiveJoints.ts:33-51).              *)
LitFlagGoesOut == \A i \in DOMAIN active : active[i] => i \in timers

(* The ring buffers are bounded and end with what the newest message has   *)
(* at their place; a configured joint that reports is drawn at its own     *)
(* angle and its row and popover show it, in whatever order the pool       *)
(* reports (App.tsx:60-96, MachineCard.tsx:57-66).                         *)
ShownIsNewest ==
  /\ \A i \in DOMAIN history : Len(history[i]) <= MAX
  /\ \A i \in DOMAIN measured :
       /\ Last(history[i]) = measured[i].pos
       /\ chain # <<>> => /\ prev[measured[i].name] = measured[i].pos
                          /\ RowState(measured, measured[i].name) = measured[i]
=============================================================================
