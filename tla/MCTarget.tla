------------------------------ MODULE MCTarget ------------------------------
(***************************************************************************)
(* Arguments for the runs of Target, with arrays of three bios.            *)
(***************************************************************************)
EXTENDS Target

\* Unparsable, small, too many for one array, for both, and just past eight bits
Ratios0 == {-1, 0, 1, 4, 7, 258}
=============================================================================
