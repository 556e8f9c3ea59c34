------------------------------ MODULE MCDesktop ------------------------------
(***************************************************************************)
(* The instance of Desktop for TLC: one CID that spaces can have, so that  *)
(* the second space is always given the CID of the first.                  *)
(***************************************************************************)
EXTENDS Desktop, TLC

Symmetry == Permutations(Ids) \cup Permutations(Pids) \cup Permutations(Nonces)
              \cup Permutations(Conns) \cup Permutations(Children)

\* What leaves an old entry in the registry.
RegistryFaults == {"registry"}
=============================================================================
