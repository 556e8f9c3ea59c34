------------------------------ MODULE MCBroker ------------------------------
(***************************************************************************)
(* Instances of Broker for TLC.  Spaces, CIDs, connections and processes   *)
(* are only compared, so permuting them is sound for the safety runs.      *)
(***************************************************************************)
EXTENDS Broker, TLC

Symmetry == Permutations(Spaces) \cup Permutations(Cids)
              \cup Permutations(Conns) \cup Permutations(Children)
=============================================================================
