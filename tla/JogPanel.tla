------------------------------ MODULE JogPanel ------------------------------
(***************************************************************************)
(* CartesianJogPanel: each click asks the Brain for a solution of the next *)
(* target pose and, when there is one, sends the joints there.  A pose is  *)
(* its position on one axis and its orientation in quarter turns about one *)
(* axis (about a single axis the tool and the world frame turn alike).     *)
(***************************************************************************)
EXTENDS Integers, FiniteSets

CONSTANTS MaxCoord, \* bound: positions are -MaxCoord..MaxCoord
          MaxJogs,  \* bound: clicks of one behaviour that send a request
          SE3,      \* whether the machine's task space is "se3"
          Tool      \* the end effector's offset from the last joint's frame

VARIABLES
  live,       \* the pose forward kinematics gives for the last telemetry
  commanded,  \* the end effector's pose the machine was last sent to
  target,     \* targetPos and targetQuat
  lastResult, \* "none", "solved" or "blocked" (by the floor)
  error,      \* whether an error is shown
  busy,       \* a request of the panel is under way
  branchPref, \* the configuration asked for
  frame,      \* "tool" or "world"
  reqs,       \* the panel's requests: pose and stage
  jogs        \* requests begun so far

vars == <<live, commanded, target, lastResult, error, busy, branchPref, frame,
          reqs, jogs>>
shown == <<target, lastResult, error>>

Poses == [pos : -MaxCoord..MaxCoord, rot : 0..3]
\* The pages' forward kinematics ends at the last joint; the Brain's solutions are for the
\* end effector.
LastJoint(pose) == [pose EXCEPT !.pos = @ - Tool]
Branches == {"", "elbow_up", "elbow_down"}

-----------------------------------------------------------------------------
\* The effects: as long as no result is shown the target follows the machine.
Follow(result, pose) == IF result = "none" THEN live' ELSE pose

\* Mutant of sendJog: a request does not wait for the one before it.
SendAtOnce(pose) ==
  /\ jogs < MaxJogs /\ pose \in Poses
  /\ busy' = TRUE /\ error' = FALSE /\ jogs' = jogs + 1
  /\ reqs' = reqs \union {[n |-> jogs + 1, pose |-> pose, stage |-> "preview"]}

\* sendJog up to its first await; refused while one is under way.
sendJog(pose) ==
  /\ ~busy /\ jogs < MaxJogs /\ pose \in Poses
  /\ busy' = TRUE /\ error' = FALSE /\ jogs' = jogs + 1
  /\ reqs' = reqs \union {[n |-> jogs + 1, pose |-> pose, stage |-> "preview"]}

jog(sign) == sendJog([target EXCEPT !.pos = @ + sign])
rotJog(sign) == sendJog([target EXCEPT !.rot = (@ + sign) % 4])
selectBranch(b) == branchPref' = b /\ sendJog(target)

resetToCurrent ==
  target' = live /\ lastResult' = "none" /\ error' = FALSE

\* The rows of the panel and the controls each enables.
TranslationRows ==
  \E sign \in {-1, 1} : jog(sign) /\ UNCHANGED <<branchPref, frame>>
RotationRows ==
  /\ SE3
  /\ \/ \E sign \in {-1, 1} : rotJog(sign) /\ UNCHANGED frame
     \/ /\ frame' \in {"tool", "world"} \ {frame}
        /\ UNCHANGED <<error, busy, reqs, jogs>>
  /\ UNCHANGED branchPref
BranchRow == \E b \in Branches : selectBranch(b) /\ UNCHANGED frame

Click ==
  /\ TranslationRows \/ RotationRows \/ BranchRow
  /\ UNCHANGED <<live, commanded, target, lastResult>>

ReAnchor ==
  /\ resetToCurrent
  /\ UNCHANGED <<live, commanded, busy, branchPref, frame, reqs, jogs>>

-----------------------------------------------------------------------------
Other(r) == reqs \ {r}
\* finally { setBusy(false) }
Done(r) == reqs' = Other(r) /\ busy' = FALSE

\* The solution arrives: shown; the joints are sent unless the floor is in the way.
Solved(r) ==
  /\ lastResult' \in {"solved", "blocked"}
  /\ IF lastResult' = "blocked"
     THEN error' = TRUE /\ Done(r)
     ELSE reqs' = Other(r) \union {[r EXCEPT !.stage = "move"]} /\ UNCHANGED <<error, busy>>
  /\ UNCHANGED <<commanded, target>>

Failed(r) == error' = TRUE /\ Done(r) /\ UNCHANGED <<target, lastResult>>

\* The Brain sends the machine there; the answer may be lost.
Moved(r) ==
  /\ commanded' = r.pose
  /\ reqs' = Other(r) \union {[r EXCEPT !.stage = "moved"]}
  /\ UNCHANGED <<shown, busy>>

Acknowledged(r) ==
  target' = r.pose /\ Done(r) /\ UNCHANGED <<commanded, lastResult, error>>

Progress ==
  /\ \E r \in reqs :
       \/ r.stage = "preview" /\ Solved(r)
       \/ r.stage = "move" /\ Moved(r)
       \/ r.stage = "moved" /\ Acknowledged(r)
       \/ Failed(r) /\ UNCHANGED commanded
  /\ UNCHANGED <<live, branchPref, frame, jogs>>

\* Telemetry: the machine is where it was sent, or not there yet.
Telemetry ==
  /\ live' \in {live, LastJoint(commanded)}
  /\ target' = Follow(lastResult, target)
  /\ UNCHANGED <<commanded, lastResult, error, busy, branchPref, frame, reqs, jogs>>

Start == [pos |-> 0, rot |-> 0]
Init ==
  /\ commanded = Start /\ live = LastJoint(Start) /\ target = LastJoint(Start)
  /\ lastResult = "none" /\ error = FALSE /\ busy = FALSE
  /\ branchPref = "" /\ frame = "tool" /\ reqs = {} /\ jogs = 0

Next == Click \/ ReAnchor \/ Progress \/ Telemetry

Spec == Init /\ [][Next]_vars

-----------------------------------------------------------------------------
TypeOK ==
  /\ commanded \in Poses
  /\ {live, target} \subseteq Poses \union {LastJoint(p) : p \in Poses}
  /\ lastResult \in {"none", "solved", "blocked"}
  /\ error \in BOOLEAN /\ busy \in BOOLEAN
  /\ branchPref \in Branches /\ frame \in {"tool", "world"} /\ jogs \in 0..MaxJogs
  /\ \A r \in reqs : r.pose \in Poses /\ r.stage \in {"preview", "move", "moved"}

(* The next jog starts where the machine was sent by the last one: when    *)
(* the panel rests on a solution without an error, its target is the pose  *)
(* the machine was last sent to, whatever was refused, failed or was       *)
(* re-anchored in between.                                                 *)
TargetIsCommanded ==
  ~busy /\ ~error /\ lastResult = "solved" => target = commanded
=============================================================================
