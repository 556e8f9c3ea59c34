------------------------------ MODULE MCNetwork ------------------------------
(* An instance of Network for TLC.  A client may ask for an id of the stand.    *)
EXTENDS Network, TLC

CONSTANTS spike, spike2

MCStand == (spike :> 3) @@ (spike2 :> 4)
=============================================================================
