------------------------------ MODULE Kinematics ------------------------------
(***************************************************************************)
(* Forward kinematics, written three times: lib/fk.ts (jog panel, pages),  *)
(* ArmCanvas.tsx (the drawing) and the Brain's dh_fk.py (inverse           *)
(* kinematics, safety).  A chain grows joint by joint; angles are quarter  *)
(* turns and lengths integers, so every matrix is one of integers.         *)
(***************************************************************************)
EXTENDS Integers, Sequences

CONSTANTS Lengths,  \* bound: values of a and d, and of a prismatic joint
          Turns,    \* bound: values of alpha, theta_offset and a revolute joint
          MaxJoints \* bound: joints of a chain

Joint == [type : {"revolute"}, axis : {"z"}, a : Lengths, d : Lengths,
          alpha : Turns, theta_offset : Turns, q : Turns]
         \union [type : {"prismatic"}, axis : {"x", "y", "z"}, a : Lengths, d : Lengths,
                 alpha : Turns, theta_offset : Turns, q : Lengths]

VARIABLE joints
vars == <<joints>>

-----------------------------------------------------------------------------
(* A matrix is its first three rows, of four entries each. *)
identity == <<<<1, 0, 0, 0>>, <<0, 1, 0, 0>>, <<0, 0, 1, 0>>>>
Dot(A, B, i, k) == A[i][1] * B[1][k] + A[i][2] * B[2][k] + A[i][3] * B[3][k]
Row(A, B, i) == <<Dot(A, B, i, 1), Dot(A, B, i, 2), Dot(A, B, i, 3), Dot(A, B, i, 4) + A[i][4]>>
mul(A, B) == <<Row(A, B, 1), Row(A, B, 2), Row(A, B, 3)>>
Cos(n) == <<1, 0, -1, 0>>[(n % 4) + 1]
Sin(n) == <<0, 1, 0, -1>>[(n % 4) + 1]
rotZ(n) == <<<<Cos(n), -Sin(n), 0, 0>>, <<Sin(n), Cos(n), 0, 0>>, <<0, 0, 1, 0>>>>
rotX(n) == <<<<1, 0, 0, 0>>, <<0, Cos(n), -Sin(n), 0>>, <<0, Sin(n), Cos(n), 0>>>>
trans(x, y, z) == <<<<1, 0, 0, x>>, <<0, 1, 0, y>>, <<0, 0, 1, z>>>>
Position(T) == <<T[1][4], T[2][4], T[3][4]>>

-----------------------------------------------------------------------------
(* lib/fk.ts *)

\* The translation of a joint inside its frame, and the link along X after it.
slide(j) ==
  IF j.type = "revolute" THEN trans(0, 0, j.d)
  ELSE IF j.axis = "x" THEN trans(j.a + j.q, 0, 0)
  ELSE IF j.axis = "y" THEN trans(0, j.q, 0)
  ELSE trans(0, 0, j.d + j.q)

\* Mutant of extraX: the link of an x carriage is counted twice.
AlwaysA(j) == j.a
extraX(j) == IF j.type = "prismatic" /\ j.axis = "x" THEN 0 ELSE j.a

linkFrame(T, j) ==
  mul(mul(T, rotZ(j.theta_offset + (IF j.type = "revolute" THEN j.q ELSE 0))), slide(j))

\* The base of joint n+1; the end effector after the last joint.
forwardKinematics ==
  LET T[n \in 0..Len(joints)] ==
        IF n = 0 THEN identity
        ELSE mul(mul(linkFrame(T[n-1], joints[n]), trans(extraX(joints[n]), 0, 0)),
                 rotX(joints[n].alpha))
  IN T

\* Mutant of matrixToQuat: the first branch for every matrix.
FirstBranch(m) ==
  <<m[3][2] - m[2][3], m[1][3] - m[3][1], m[2][1] - m[1][2], m[1][1] + m[2][2] + m[3][3] + 1>>

\* Shepperd's method without its final scaling: a positive multiple of [x, y, z, w].
matrixToQuat(m) ==
  LET trace == m[1][1] + m[2][2] + m[3][3]
  IN IF trace > 0 THEN
       <<m[3][2] - m[2][3], m[1][3] - m[3][1], m[2][1] - m[1][2], trace + 1>>
     ELSE IF m[1][1] > m[2][2] /\ m[1][1] > m[3][3] THEN
       <<1 + m[1][1] - m[2][2] - m[3][3], m[1][2] + m[2][1], m[1][3] + m[3][1], m[3][2] - m[2][3]>>
     ELSE IF m[2][2] > m[3][3] THEN
       <<m[1][2] + m[2][1], 1 + m[2][2] - m[1][1] - m[3][3], m[2][3] + m[3][2], m[1][3] - m[3][1]>>
     ELSE
       <<m[1][3] + m[3][1], m[2][3] + m[3][2], 1 + m[3][3] - m[1][1] - m[2][2], m[2][1] - m[1][2]>>

-----------------------------------------------------------------------------
(* ArmCanvas.tsx: frames.  Each joint's frame is drawn, the link from it   *)
(* to its tip, and the handle at the last tip.                             *)
frames ==
  LET Rz(j) == rotZ(j.theta_offset + (IF j.type = "revolute" THEN j.q ELSE 0))
      Taxis(j) == trans(IF j.type = "prismatic" /\ j.axis = "x" THEN j.a + j.q ELSE 0,
                        IF j.type = "prismatic" /\ j.axis = "y" THEN j.q ELSE 0,
                        IF j.type = "revolute" THEN j.d ELSE IF j.axis = "z" THEN j.d + j.q ELSE 0)
      tip(j) == trans(IF j.type = "prismatic" /\ j.axis = "x" THEN 0 ELSE j.a, 0, 0)
      F[n \in 1..Len(joints)] ==
        LET pre == IF n = 1 THEN identity ELSE F[n-1].next
            link == mul(mul(pre, Rz(joints[n])), Taxis(joints[n]))
        IN [link |-> link, tip |-> mul(link, tip(joints[n])),
            next |-> mul(mul(link, tip(joints[n])), rotX(joints[n].alpha))]
  IN F

-----------------------------------------------------------------------------
(* The Brain: joint_transforms (dh_fk.py) of a chain. *)
joint_transforms(chain) ==
  LET Carry(j) ==
        IF j.type = "revolute" THEN trans(j.a, 0, j.d)
        ELSE IF j.axis = "x" THEN trans(j.a + j.q, 0, j.d)
        ELSE IF j.axis = "y" THEN trans(j.a, j.q, j.d)
        ELSE trans(j.a, 0, j.d + j.q)
      T[n \in 0..Len(chain)] ==
        IF n = 0 THEN identity
        ELSE LET j == chain[n]
                 Rz == rotZ(j.theta_offset + (IF j.type = "revolute" THEN j.q ELSE 0))
             IN mul(mul(mul(T[n-1], Rz), Carry(j)), rotX(j.alpha))
  IN T

-----------------------------------------------------------------------------
Init == joints = <<>>

AddJoint ==
  /\ Len(joints) < MaxJoints
  /\ \E j \in Joint : joints' = Append(joints, j)

Next == AddJoint

Spec == Init /\ [][Next]_vars

-----------------------------------------------------------------------------
\* The chain the pages draw: a carriage along x or y loses its offset along z.
Drawn(j) == IF j.type = "prismatic" /\ j.axis # "z" THEN [j EXCEPT !.d = 0] ELSE j
DrawnChain == [n \in DOMAIN joints |-> Drawn(joints[n])]

(* "Mirrors the axis-based dispatch in brain/service/dh_fk.py" (fk.ts:152; *)
(* ArmCanvas.tsx:269 and dh_fk.py:4 say the same): on every chain the      *)
(* pages' chain of frames is the Brain's.                                  *)
MirrorsAgree == forwardKinematics = joint_transforms(joints)

(* The copies differ in nothing but the offset of a carriage along x or y: *)
(* on every chain the jog panel's frames and the drawing's are the Brain's *)
(* of the chain without those offsets, at every joint and at the end       *)
(* effector, and the tips drawn are the panel's.                           *)
ThreeCopiesAgree ==
  LET fk == forwardKinematics
  IN /\ fk = joint_transforms(DrawnChain)
     /\ \A n \in DOMAIN joints :
          /\ frames[n].next = fk[n]
          /\ Position(frames[n].tip) = Position(fk[n])

\* A positive multiple of the quaternion's rotation is that of the matrix.
Rotates(q, M) ==
  LET x == q[1] y == q[2] z == q[3] w == q[4]
      n == x*x + y*y + z*z + w*w
      R == <<<<w*w + x*x - y*y - z*z, 2*(x*y - w*z), 2*(x*z + w*y)>>,
             <<2*(x*y + w*z), w*w - x*x + y*y - z*z, 2*(y*z - w*x)>>,
             <<2*(x*z - w*y), 2*(y*z + w*x), w*w - x*x - y*y + z*z>>>>
  IN n > 0 /\ \A i, k \in 1..3 : R[i][k] = n * M[i][k]

(* The quaternion handed to the jog panel turns the axes as the end        *)
(* effector's frame does, whichever branch of Shepperd's method is taken.  *)
QuatTurnsAlike ==
  LET T == forwardKinematics[Len(joints)]
  IN Rotates(matrixToQuat(T), T)
=============================================================================
