--------------------------- MODULE MCActuatorCore ---------------------------
(* TLC instances of ActuatorCore: small sets of targets, segments, limits.  *)
EXTENDS ActuatorCore

P(t, pos) == [t |-> t, pos |-> pos]

MCAngles  == {-1, 2}
MCSpeeds  == {1}
MCTorques == {3}
MCLimits  == {[min |-> -1, max |-> 1], [min |-> 1, max |-> -1]}
MCTemps   == {25, 90}
MCTempLimits == {50}
MCNegInf == -99

\* A segment of one point (refused), one that ends after the second tick,
\* one of three points that ends after the fourth, and one over at once.
MCSegments == {
  <<P(0, 0)>>,
  <<P(0, 0), P(2, 2)>>,
  <<P(0, 2), P(2, 2), P(4, -2)>>,
  <<P(0, 1), P(0, 2)>> }

\* Fewer values for the run that looks for a counterexample.
FewAngles   == {2}
FewSegments == {<<P(0, 0), P(2, 2)>>}
FewLimits   == {[min |-> -1, max |-> 1]}
=============================================================================
