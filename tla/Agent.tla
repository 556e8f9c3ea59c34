-------------------------------- MODULE Agent --------------------------------
(***************************************************************************)
(* miyori-agent (components/agent): the one process in a guest the host    *)
(* talks to.  It accepts one connection at a time, reads one frame, does   *)
(* what it says, answers and closes; after a shutdown it exits.  Its state *)
(* and the guest's around it are a record, its replies are operators from  *)
(* the record to the record they leave.                                    *)
(*                                                                         *)
(* The nonce in a reply is left out: a call that crosses a restart of the  *)
(* guest fails like one that is not answered in time.                      *)
(***************************************************************************)
EXTENDS Naturals, Sequences

CONSTANTS
  Callers, Nobody,  \* threads of the daemon; Nobody has given up waiting
  MaxBacklog        \* bound: connections the guest's kernel holds

ASSUME AgentAssumption ==
  /\ Nobody \notin Callers
  /\ MaxBacklog \in Nat \ {0}

Commands == {"health", "shutdown", "exec-app"}

Connection == [from : Callers \cup {Nobody}, cmd : Commands]

(* child: an application lives that the handle in APP_CHILD belongs to;      *)
(* orphans: one lives that no handle leads to any more.  mounted is the mark *)
(* of the data volume's file system, which outlives the guest.               *)
Guest ==
  [up : BOOLEAN, agent : {"off", "booting", "listening", "exited"},
   backlog : {q \in Seq(Connection) : Len(q) <= MaxBacklog},
   child : BOOLEAN, orphans : BOOLEAN, mounted : BOOLEAN]

NeverBooted == [up |-> FALSE, agent |-> "off", backlog |-> <<>>,
                child |-> FALSE, orphans |-> FALSE, mounted |-> FALSE]

PoweredOff(g) == [NeverBooted EXCEPT !.mounted = g.mounted]

\* The guest's init mounts /data, if the profile has one, before the agent
\* listens.
Booted(hasData) ==
  [NeverBooted EXCEPT !.up = TRUE, !.agent = "booting", !.mounted = hasData]

\* AgentReply: ok, not ok, or ok with data_unmounted.
Replies == {"yes", "no", "unmounted"}

Accepted(g) == [g EXCEPT !.backlog = Tail(@)]

HealthReply(g) == {[guest |-> g, reply |-> "yes"]}

\* exec_app_reply: the new handle replaces the old one, nobody is killed.
\* The spawn may fail.
ExecAppReply(g) ==
  {[guest |-> [g EXCEPT !.child = TRUE, !.orphans = @ \/ g.child],
    reply |-> "yes"],
   [guest |-> g, reply |-> "no"]}

\* The handle is the waypipe server's, which miyori-launch has become: killing
\* it takes the application's display away and leaves the application alive.
TakeAppChild(g) == [g EXCEPT !.child = FALSE, !.orphans = @ \/ g.child]

Applications(g) == g.orphans \/ g.child

\* unmount_data: umount(8) refuses while a file of the volume is open; an
\* application may have one open or not.
UnmountData(g) ==
  IF ~g.mounted THEN {TRUE}
  ELSE IF Applications(g) THEN BOOLEAN ELSE {TRUE}

\* shutdown_reply: the handle of the last exec-app, sync, umount.
ShutdownReply(g) ==
  {[guest |-> [TakeAppChild(g) EXCEPT !.mounted = @ /\ ~done],
    reply |-> IF done THEN "unmounted" ELSE "no"] :
     done \in UnmountData(TakeAppChild(g))}

\* The process ends: connections still in the backlog are reset.
Exit(g) == [g EXCEPT !.agent = "exited", !.backlog = <<>>]

\* Fault model: the agent goes on listening after a shutdown.
HandleGoesOn(g) ==
  LET cmd == Head(g.backlog).cmd
      h == Accepted(g)
  IN CASE cmd = "health"   -> HealthReply(h)
       [] cmd = "exec-app" -> ExecAppReply(h)
       [] cmd = "shutdown" -> ShutdownReply(h)

\* handle: the outcomes of one connection.
Handle(g) ==
  LET cmd == Head(g.backlog).cmd
      h == Accepted(g)
  IN CASE cmd = "health"   -> HealthReply(h)
       [] cmd = "exec-app" -> ExecAppReply(h)
       [] cmd = "shutdown" ->
            {[r EXCEPT !.guest = Exit(r.guest)] : r \in ShutdownReply(h)}
=============================================================================
