-------------------------------- MODULE Calls --------------------------------
(***************************************************************************)
(* What the daemon promises the clients of control.sock about the store of *)
(* spaces: a request takes effect at once and at most once, some time      *)
(* between being asked and being answered; "ok" says that it did, "error"  *)
(* that it changed nothing.  A client that gave up, or whose connection    *)
(* broke, cannot tell.                                                     *)
(***************************************************************************)
CONSTANTS Clients, Ids, Requests, NoRequest

VARIABLES
  world,  \* the ids of the spaces there are
  call    \* [Clients -> Call]

Call ==
  [st : {"idle", "asked", "decided", "broken"}, req : Requests \cup {NoRequest},
   out : {"none", "ok", "error"}, listening : BOOLEAN]

NoCall == [st |-> "idle", req |-> NoRequest, out |-> "none", listening |-> FALSE]

\* What a request may do to the store, with the answer that says so.
Outcomes(req, w) ==
  {[world |-> w, out |-> "error"]} \cup
  CASE req.op = "create" ->
         IF req.id \in w THEN {} ELSE {[world |-> w \cup {req.id}, out |-> "ok"]}
    [] req.op = "destroy" ->
         IF req.id \in w THEN {[world |-> w \ {req.id}, out |-> "ok"]} ELSE {}
    [] req.op \in {"start", "stop", "open-window"} ->
         IF req.id \in w THEN {[world |-> w, out |-> "ok"]} ELSE {}
    [] OTHER -> {[world |-> w, out |-> "ok"]}

Init == world \in SUBSET Ids /\ call = [c \in Clients |-> NoCall]

Ask(c) ==
  /\ call[c].st = "idle"
  /\ \E req \in Requests :
       call' = [call EXCEPT ![c] = [st |-> "asked", req |-> req, out |-> "none",
                                    listening |-> TRUE]]
  /\ UNCHANGED world

TakeEffect(c) ==
  /\ call[c].st = "asked"
  /\ \E o \in Outcomes(call[c].req, world) :
       /\ world' = o.world
       /\ call' = [call EXCEPT ![c] = [st |-> "decided", req |-> NoRequest, out |-> o.out,
                                       listening |-> @.listening]]

\* The answer reaches the client, or there is nobody to take it.
Answer(c) ==
  /\ call[c].st = "decided"
  /\ call' = [call EXCEPT ![c] = NoCall]
  /\ UNCHANGED world

GiveUp(c) ==
  /\ call[c].st \in {"asked", "decided"} /\ call[c].listening
  /\ call' = [call EXCEPT ![c].listening = FALSE]
  /\ UNCHANGED world

\* The connection breaks: the request has taken effect or never will.
Break(c) ==
  /\ call[c].st \in {"asked", "decided"}
  /\ IF call[c].st = "asked"
     THEN \E o \in Outcomes(call[c].req, world) : world' = o.world
     ELSE UNCHANGED world
  /\ call' = [call EXCEPT ![c] =
       IF @.listening
       THEN [NoCall EXCEPT !.st = "broken", !.listening = TRUE] ELSE NoCall]

NoticeBreak(c) ==
  /\ call[c].st = "broken"
  /\ call' = [call EXCEPT ![c] = NoCall]
  /\ UNCHANGED world

Next ==
  \E c \in Clients : Ask(c) \/ TakeEffect(c) \/ Answer(c) \/ GiveUp(c)
                     \/ Break(c) \/ NoticeBreak(c)

Spec == Init /\ [][Next]_<<world, call>>
=============================================================================
