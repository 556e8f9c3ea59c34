------------------------------ MODULE MCSpaces ------------------------------
(***************************************************************************)
(* Instances of Spaces for TLC.  Ids, digests, pids and nonces are model   *)
(* values that the specification only compares, so permuting them is sound *)
(* for the safety properties checked here.                                 *)
(***************************************************************************)
EXTENDS Spaces, TLC

Symmetry == Permutations(Ids) \cup Permutations(Digests)
              \cup Permutations(Pids) \cup Permutations(Nonces)

\* The faults after which the handler undoes what it did or the next request
\* starts over.
RecoverableFaults ==
  Steps \ {"pidfile", "rollback", "secret", "untap", "forget"}

\* After these something is left behind (as after "untap").
UntidyFaults == {"pidfile", "rollback", "secret", "forget"}

\* A build that cannot relink latest, and a stop that cannot remove its tap.
ImageFaults == {"relink", "untap"}
=============================================================================
