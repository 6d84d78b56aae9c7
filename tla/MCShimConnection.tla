-------------------------- MODULE MCShimConnection --------------------------
(***************************************************************************)
(* ShimConnection for TLC: channels, and the calls of a transaction, are   *)
(* interchangeable in the safety runs.  The refinement mapping is          *)
(* symmetric as well: Asked chooses from at most one call (OneInFlight).   *)
(***************************************************************************)
EXTENDS ShimConnection, TLC

Symmetry == Permutations(Channels) \cup Permutations(CallIds)

=============================================================================
