----------------------------- MODULE Orientation -----------------------------
(***************************************************************************)
(* The orientations the pages edit (lib/fk.ts): turned about the tool's or *)
(* the world's axes by the jog panel, typed as roll, pitch and yaw in a    *)
(* program's step.  Angles are quarter turns; a quaternion <<x, y, z, w>>  *)
(* is one of integers, up to a positive factor.                            *)
(***************************************************************************)
EXTENDS Integers

VARIABLES quat,  \* the orientation of the page
          turned \* the rotation asked for: the rows of its matrix
vars == <<quat, turned>>

Identity == <<<<1, 0, 0>>, <<0, 1, 0>>, <<0, 0, 1>>>>
Dot(A, B, i, k) == A[i][1] * B[1][k] + A[i][2] * B[2][k] + A[i][3] * B[3][k]
Row(A, B, i) == <<Dot(A, B, i, 1), Dot(A, B, i, 2), Dot(A, B, i, 3)>>
Product(A, B) == <<Row(A, B, 1), Row(A, B, 2), Row(A, B, 3)>>
Cos(n) == <<1, 0, -1, 0>>[(n % 4) + 1]
Sin(n) == <<0, 1, 0, -1>>[(n % 4) + 1]
About(axis, n) ==
  IF axis = 1 THEN <<<<1, 0, 0>>, <<0, Cos(n), -Sin(n)>>, <<0, Sin(n), Cos(n)>>>>
  ELSE IF axis = 2 THEN <<<<Cos(n), 0, Sin(n)>>, <<0, 1, 0>>, <<-Sin(n), 0, Cos(n)>>>>
  ELSE <<<<Cos(n), -Sin(n), 0>>, <<Sin(n), Cos(n), 0>>, <<0, 0, 1>>>>

-----------------------------------------------------------------------------
(* lib/fk.ts *)

\* Half of n quarter turns: cosine and sine up to one positive factor.
Half(n) == <<<<1, 0>>, <<1, 1>>, <<0, 1>>, <<-1, 1>>>>[(n % 4) + 1]
Halved(q) == \A i \in 1..4 : q[i] % 2 = 0
Reduced(q) == IF Halved(q) THEN <<q[1] \div 2, q[2] \div 2, q[3] \div 2, q[4] \div 2>> ELSE q

quatFromAxisAngle(axis, n) ==
  LET h == Half(n) IN [i \in 1..4 |-> IF i = 4 THEN h[1] ELSE IF i = axis THEN h[2] ELSE 0]

\* Mutant of quatMultiply: the factors are swapped.
Swapped(q, p) ==
  Reduced(<<p[4]*q[1] + p[1]*q[4] + p[2]*q[3] - p[3]*q[2],
            p[4]*q[2] - p[1]*q[3] + p[2]*q[4] + p[3]*q[1],
            p[4]*q[3] + p[1]*q[2] - p[2]*q[1] + p[3]*q[4],
            p[4]*q[4] - p[1]*q[1] - p[2]*q[2] - p[3]*q[3]>>)

quatMultiply(p, q) ==
  Reduced(<<p[4]*q[1] + p[1]*q[4] + p[2]*q[3] - p[3]*q[2],
            p[4]*q[2] - p[1]*q[3] + p[2]*q[4] + p[3]*q[1],
            p[4]*q[3] + p[1]*q[2] - p[2]*q[1] + p[3]*q[4],
            p[4]*q[4] - p[1]*q[1] - p[2]*q[2] - p[3]*q[3]>>)

quatFromEulerDeg(roll, pitch, yaw) ==
  LET r == Half(roll) p == Half(pitch) y == Half(yaw)
      once == Reduced(<<r[2]*p[1]*y[1] - r[1]*p[2]*y[2], r[1]*p[2]*y[1] + r[2]*p[1]*y[2],
                        r[1]*p[1]*y[2] - r[2]*p[2]*y[1], r[1]*p[1]*y[1] + r[2]*p[2]*y[2]>>)
  IN Reduced(once)

atan2(s, c) == IF s > 0 THEN 1 ELSE IF s < 0 THEN 3 ELSE IF c < 0 THEN 2 ELSE 0
quatToEulerDeg(q) ==
  LET x == q[1] y == q[2] z == q[3] w == q[4]
      n == x*x + y*y + z*z + w*w
      sinp == 2 * (w*y - z*x)
  IN <<atan2(2 * (w*x + y*z), n - 2 * (x*x + y*y)),
       IF sinp >= n THEN 1 ELSE IF sinp <= -n THEN 3 ELSE 0,
       atan2(2 * (w*z + x*y), n - 2 * (y*y + z*z))>>

-----------------------------------------------------------------------------
(* CartesianJogPanel: rotJog in the tool's and in the world's frame. *)
rotJog ==
  \E axis \in 1..3, n \in {1, 3} :
    LET delta == quatFromAxisAngle(axis, n)
    IN \/ quat' = quatMultiply(quat, delta) /\ turned' = Product(turned, About(axis, n))
       \/ quat' = quatMultiply(delta, quat) /\ turned' = Product(About(axis, n), turned)

\* StepRow: one of the angles shown is typed anew.
TypeAngle ==
  \E i \in 1..3, value \in 0..3 :
    LET rpy == [quatToEulerDeg(quat) EXCEPT ![i] = value]
    IN /\ quat' = quatFromEulerDeg(rpy[1], rpy[2], rpy[3])
       /\ turned' = Product(Product(About(3, rpy[3]), About(2, rpy[2])), About(1, rpy[1]))

Init == quat = <<0, 0, 0, 1>> /\ turned = Identity

Next == rotJog \/ TypeAngle

Spec == Init /\ [][Next]_vars

-----------------------------------------------------------------------------
\* The quaternion's rotation is the one of matrix M.
Rotates(q, M) ==
  LET x == q[1] y == q[2] z == q[3] w == q[4]
      n == x*x + y*y + z*z + w*w
      R == <<<<w*w + x*x - y*y - z*z, 2*(x*y - w*z), 2*(x*z + w*y)>>,
             <<2*(x*y + w*z), w*w - x*x + y*y - z*z, 2*(y*z - w*x)>>,
             <<2*(x*z - w*y), 2*(y*z + w*x), w*w - x*x - y*y + z*z>>>>
  IN n > 0 /\ \A i, k \in 1..3 : R[i][k] = n * M[i][k]

(* However tool turns, world turns and typed angles follow one another,    *)
(* the orientation sent to the Brain is the rotation asked for.            *)
QuatFollowsTurns == Rotates(quat, turned)

(* Unless the pitch is a quarter turn, the three angles shown determine    *)
(* the orientation they were read from.                                    *)
EulerAwayFromPole ==
  LET e == quatToEulerDeg(quat)
  IN e[2] \in {0, 2} => Rotates(quatFromEulerDeg(e[1], e[2], e[3]), turned)
=============================================================================
