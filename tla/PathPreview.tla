----------------------------- MODULE PathPreview -----------------------------
(***************************************************************************)
(* How the G-code page groups the poses of a path into the lines it draws  *)
(* (PathPreview in GCodePage.tsx): one line per stretch of poses of one    *)
(* motion type.  A pose is its position in the path.                       *)
(***************************************************************************)
EXTENDS Naturals, Sequences, SequencesExt

CONSTANTS MotionType, \* "rapid", "feed", "arc"
          MaxPoses    \* bound: poses of a path

VARIABLES motion_types, \* the type of each pose: that of the move that ends there
          segments,     \* the lines so far
          i             \* the next pose, counted from one

vars == <<motion_types, segments, i>>

\* Where the inner loop stops: the first pose after the stretch of i.
StretchEnd ==
  CHOOSE j \in (i + 1)..(Len(motion_types) + 1) :
    /\ \A k \in i..(j - 1) : motion_types[k] = motion_types[i]
    /\ j <= Len(motion_types) => motion_types[j] # motion_types[i]

\* Mutant of points: a line begins with the first pose of its stretch.
StretchOnly(j) == [k \in 1..(j - i) |-> i + k - 1]

\* The line of a stretch begins where the one before it ended.
points(j) ==
  (IF i > 1 THEN <<i - 1>> ELSE <<>>) \o [k \in 1..(j - i) |-> i + k - 1]

DrawStretch ==
  /\ i <= Len(motion_types)
  /\ segments' = Append(segments, [type |-> motion_types[i], pts |-> points(StretchEnd)])
  /\ i' = StretchEnd
  /\ UNCHANGED motion_types

Init == motion_types \in BoundedSeq(MotionType, MaxPoses) /\ segments = <<>> /\ i = 1

Next == DrawStretch

Spec == Init /\ [][Next]_vars

-----------------------------------------------------------------------------
Edges(s) == {<<s.pts[k], s.pts[k + 1]>> : k \in 1..(Len(s.pts) - 1)}

(* Each move of the path so far is drawn in exactly one line, and in the   *)
(* colour of its own motion type.                                          *)
EachMoveDrawnOnce ==
  \A k \in 2..(i - 1) :
    /\ \E s \in ToSet(segments) : s.type = motion_types[k] /\ <<k - 1, k>> \in Edges(s)
    /\ \A a, b \in DOMAIN segments :
         a # b => <<k - 1, k>> \notin Edges(segments[a]) \intersect Edges(segments[b])
=============================================================================
