------------------------------- MODULE MCLabel -------------------------------
(***************************************************************************)
(* Instance of Label for TLC: a window of a space and one of the host,     *)
(* which may put the space's prefix into its own title.                    *)
(***************************************************************************)
EXTENDS Label, TLC

CONSTANTS guestWindow, hostWindow, space

OneEach == (guestWindow :> space) @@ (hostWindow :> NoSpace)
=============================================================================
