------------------------------- MODULE MCWeb -------------------------------
(***************************************************************************)
(* The web interfaces for TLC: the targets of the geometry's sliders.      *)
(***************************************************************************)
EXTENDS Web

\* Two joints: sliders for the link radius, the two lengths, the symmetric
\* limit of the first joint and the upper limit of the second; the offset of
\* the first and the lower limit of the second are read-only.
Target(j, f) == [joint |-> j, field |-> f]
MCEasy     == {Target(0, "link_radius"), Target(1, "a"), Target(2, "a"),
               Target(1, "limit_symmetric"), Target(2, "limit_upper")}
MCReadOnly == {Target(1, "d"), Target(2, "limit_lower")}
=============================================================================
