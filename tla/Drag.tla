-------------------------------- MODULE Drag --------------------------------
(***************************************************************************)
(* Dragging the arm on the teach page: the pointer listeners of ArmCanvas, *)
(* the drag state TeachPage keeps, its end-effector loop (one inverse-     *)
(* kinematics request at a time, the latest delta kept for the next) and   *)
(* the joint moves sent without waiting.  A drag is a number; the deltas   *)
(* and the start pose carry the number of the drag they belong to.         *)
(***************************************************************************)
EXTENDS Naturals

CONSTANTS MaxDrags,   \* bound: drags one behaviour begins
          MaxDeltas,  \* bound: pointer moves of one behaviour
          MaxSwitches \* bound: how often a session ends or begins

ASSUME DragAssumption == MaxDrags \in Nat /\ MaxDeltas \in Nat /\ MaxSwitches \in Nat

VARIABLES
  canDrag,     \* a session is active (TeachPage), interactionMode = "drag"
  pointer,     \* "up" or "down": the mouse button
  dragRef,     \* ArmCanvas: what is dragged, "none", "revolute",
               \* "prismatic" or "ee"
  isDragging,  \* TeachPage: what onDragStateChange reported last
  eeDragStart, \* drag whose start pose is remembered, 0 for none
  pendingDelta,\* the delta kept for the next round, Nothing for none
  ikInFlight,  \* the flag that admits one loop at a time
  loops,       \* loops of handleEEDrag that run: what each awaits
  posts,       \* joint moves sent and not yet executed
  picked,      \* whether the joint picker shows a slider
  drags,       \* drags begun so far
  deltas,      \* pointer moves so far
  switches     \* sessions ended or begun so far

vars == <<canDrag, pointer, dragRef, isDragging, eeDragStart, pendingDelta,
          ikInFlight, loops, posts, picked, drags, deltas, switches>>

Nothing == [drag |-> 0, n |-> 0]
loopVars == <<eeDragStart, pendingDelta, ikInFlight, loops>>

-----------------------------------------------------------------------------
(* ArmCanvas *)

\* startDrag: only the handles of drag mode have it; the parent is told.
startDrag(what) ==
  /\ canDrag /\ pointer = "up" /\ drags < MaxDrags
  /\ pointer' = "down" /\ dragRef' = what /\ drags' = drags + 1
  /\ isDragging' = TRUE
  \* TeachPage's effect: the start pose is taken unless one is remembered
  /\ eeDragStart' = IF eeDragStart = 0 THEN drags + 1 ELSE eeDragStart
  /\ UNCHANGED <<canDrag, pendingDelta, ikInFlight, loops, posts, picked, deltas, switches>>

PrismaticCarriage == startDrag("prismatic")
RevoluteHandle == startDrag("revolute")
EEHandle == startDrag("ee")

\* The pointer goes up.  The listeners are installed in drag mode only: while
\* no session is active nobody hears it.
onUp ==
  /\ pointer = "down"
  /\ pointer' = "up"
  /\ IF canDrag
     THEN /\ dragRef' = "none"
          /\ isDragging' = FALSE /\ eeDragStart' = 0 /\ pendingDelta' = Nothing
     ELSE UNCHANGED <<dragRef, isDragging, eeDragStart, pendingDelta>>
  /\ UNCHANGED <<canDrag, ikInFlight, loops, posts, picked, drags, deltas, switches>>

-----------------------------------------------------------------------------
(* TeachPage *)

\* A joint move is sent and not waited for.
handleJointDrag ==
  /\ canDrag
  /\ posts' = posts \union {deltas + 1}
  /\ UNCHANGED loopVars

\* while (pendingDelta.current): take the delta and ask for a solution.
NextRound(start, delta) ==
  IF delta # Nothing
  THEN [start |-> start, delta |-> delta, at |-> "preview"]
  ELSE [start |-> 0, delta |-> Nothing, at |-> "end"]

\* An end-effector move: kept as the latest delta; the first one starts the loop,
\* which holds on to the start pose of this moment.
handleEEDrag(delta) ==
  /\ canDrag /\ eeDragStart # 0
  /\ IF ikInFlight
     THEN pendingDelta' = delta /\ UNCHANGED <<ikInFlight, loops>>
     ELSE /\ ikInFlight' = TRUE
          /\ pendingDelta' = Nothing
          /\ loops' = loops \union {NextRound(eeDragStart, delta)}
  /\ UNCHANGED <<eeDragStart, posts>>

\* The pointer moves; what dragRef holds decides, not the button.
onMove ==
  /\ canDrag /\ dragRef # "none" /\ deltas < MaxDeltas
  /\ deltas' = deltas + 1
  /\ \/ dragRef \in {"revolute", "prismatic"} /\ handleJointDrag
     \/ dragRef = "ee" /\ handleEEDrag([drag |-> drags, n |-> deltas + 1])
  /\ UNCHANGED <<canDrag, pointer, dragRef, isDragging, picked, drags, switches>>

\* The joint picker: a click shows or hides the slider, the slider moves a joint.
JointPickerOverlay ==
  /\ canDrag /\ pointer = "up"
  /\ \/ picked' = ~picked /\ UNCHANGED <<deltas, loopVars, posts>>
     \/ picked /\ deltas < MaxDeltas /\ deltas' = deltas + 1 /\ handleJointDrag /\ UNCHANGED picked
  /\ UNCHANGED <<canDrag, pointer, dragRef, isDragging, drags, switches>>

\* Mutant of LoopStep: a failed solution ends the loop without its finally.
LoopGivesUp ==
  \E l \in loops :
    /\ loops' = loops \ {l}
    /\ UNCHANGED <<pendingDelta, ikInFlight>>

\* The loop: previewIK answers or fails; then move/joint answers or fails; in
\* every case the next round follows.
LoopStep ==
  \E l \in loops :
    \/ /\ l.at = "preview"
       /\ loops' = (loops \ {l}) \union {[l EXCEPT !.at = "move"]}
       /\ UNCHANGED <<pendingDelta, ikInFlight>>
    \/ LET next == NextRound(l.start, pendingDelta) IN
       /\ pendingDelta' = Nothing
       /\ ikInFlight' = (next.at # "end")
       /\ loops' = (loops \ {l}) \union (IF next.at = "end" THEN {} ELSE {next})

Loop ==
  /\ LoopStep
  /\ UNCHANGED <<canDrag, pointer, dragRef, isDragging, eeDragStart, posts, picked,
                 drags, deltas, switches>>

\* The Brain executes a joint move; they arrive in any order.
MoveJoint ==
  /\ \E p \in posts : posts' = posts \ {p}
  /\ UNCHANGED <<canDrag, pointer, dragRef, isDragging, loopVars, picked, drags,
                 deltas, switches>>

\* The session ends (also by another client, or with the Brain) or begins.
SessionSwitch ==
  /\ switches < MaxSwitches
  /\ switches' = switches + 1
  /\ canDrag' = ~canDrag
  /\ UNCHANGED <<pointer, dragRef, isDragging, loopVars, posts, picked, drags, deltas>>

Init ==
  /\ canDrag = FALSE /\ pointer = "up" /\ dragRef = "none" /\ isDragging = FALSE
  /\ eeDragStart = 0 /\ pendingDelta = Nothing /\ ikInFlight = FALSE /\ loops = {}
  /\ posts = {} /\ picked = FALSE /\ drags = 0 /\ deltas = 0 /\ switches = 0

Next ==
  \/ PrismaticCarriage \/ RevoluteHandle \/ EEHandle \/ onUp \/ onMove
  \/ JointPickerOverlay \/ Loop \/ MoveJoint \/ SessionSwitch

Spec == Init /\ [][Next]_vars

-----------------------------------------------------------------------------
(* The flag and the kept delta together serialise the solver: never two    *)
(* loops, the flag tells whether one runs, and no delta is left waiting    *)
(* when none does, so that a drag that rests has sent its last delta.      *)
DragLoopSound ==
  /\ \A l, m \in loops : l = m
  /\ ikInFlight = (loops # {})
  /\ pendingDelta # Nothing => ikInFlight
=============================================================================
