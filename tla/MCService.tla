------------------------------ MODULE MCService ------------------------------
(* An instance of Service for TLC: an operator who works on a space, and a  *)
(* second client who looks on, builds, and creates or destroys it too.      *)
EXTENDS Service, TLC

CONSTANTS a, operator, onlooker

Of(ops, i) == {[op |-> op, id |-> i] : op \in ops}

MCMayAsk ==
  (operator :> Of({"create", "start", "open-window", "stop"}, a)) @@
  (onlooker :> Of({"create", "describe", "destroy"}, a)
               \cup Of({"list", "build", "bad"}, NoId))

MCRequests == MCMayAsk[operator] \cup MCMayAsk[onlooker]
=============================================================================
