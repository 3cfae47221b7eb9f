---------------------------- MODULE MC_Lifecycle ----------------------------
(***************************************************************************)
(* Bounds for Lifecycle.  Three records are enough for a listener's       *)
(* accept to produce a child while other opens fail or are being closed;  *)
(* records are interchangeable; the runs check liveness and so do not use symmetry.  The    *)
(* types, the calls that may fail and the client's close discipline are  *)
(* set per run in the .cfg files.                                          *)
(***************************************************************************)
EXTENDS Lifecycle, TLC

CONSTANTS i1, i2, i3

MCIds == {i1, i2, i3}

Symmetry == Permutations(MCIds)

=============================================================================
