---------------------------- MODULE MCActuatorSim ----------------------------
(* TLC instances of ActuatorSim.                                            *)
EXTENDS ActuatorSim, TLC

MCSegments == {<<[t |-> 0, pos |-> 0], [t |-> 2, pos |-> 2]>>}
MCNegInf   == -99
Symmetry   == Permutations(Clients)
==============================================================================
