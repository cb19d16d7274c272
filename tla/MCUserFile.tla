----------------------------- MODULE MCUserFile ------------------------------
(***************************************************************************)
(* SaveUsers for TLC: three processes, two crashes.  No symmetry, since    *)
(* the run checks liveness.                                                *)
(***************************************************************************)
EXTENDS UserFile

CONSTANTS p1, p2, p3

Savers == {p1, p2, p3}
=============================================================================
