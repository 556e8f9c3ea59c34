------------------------------- MODULE Service -------------------------------
(***************************************************************************)
(* The daemon as its clients meet it: control.sock with one thread per     *)
(* connection (daemon main.rs, lib/proto), the handlers of ops.rs as far   *)
(* as other threads can see them, Ctx.lock, the directory of the store,    *)
(* and the agents of the guests the handlers call.  Spaces follows the     *)
(* handlers through every system call one at a time; here several run at   *)
(* once, list and describe read without the lock, clients give up, and a   *)
(* call the agent did not answer in time may still be carried out.         *)
(***************************************************************************)
EXTENDS Agent, FiniteSets

CONSTANTS
  Ids, NoId,
  Requests,    \* what may be asked: records with op and id
  MayAsk,      \* [Conns -> SUBSET Requests]: what each client does ask
  NoRequest,
  Volumes,     \* the ids whose profile has a data volume
  MaxLines,    \* bound: progress lines of a build or a start
  Faults,      \* of {"volumes", "refresh"}: which commands may fail
  PanicSteps   \* the steps at which a handler may panic

Conns == Callers    \* a connection, its client and its thread

Reads == {"list", "describe"}
Locked == {"create", "destroy", "start", "stop", "open-window"}
Ops == Reads \cup Locked \cup {"build", "bad"}

Places == {"none", "reject", "lock", "load", "file", "probe", "config", "volumes",
           "unlink", "rmdir", "health", "exec-app", "wait",
           "progress", "kill", "build", "release", "answer"}

ASSUME ServiceAssumption ==
  /\ NoId \notin Ids /\ NoRequest \notin Requests
  /\ Requests \subseteq [op : Ops, id : Ids \cup {NoId}]
  /\ \A req \in Requests : req.op \in Locked \cup {"describe"} => req.id \in Ids
  /\ MayAsk \in [Conns -> SUBSET Requests]
  /\ Volumes \subseteq Ids
  /\ MaxLines \in Nat
  /\ Faults \subseteq {"volumes", "refresh"}
  /\ PanicSteps \subseteq Places \ {"none"}

VARIABLES
  client,  \* [Conns -> "idle", "waiting", "left"]
  wire,    \* [Conns -> frames written and not read]: the socket holds one
  thread,  \* [Conns -> Thread]
  lock,    \* who holds Ctx.lock
  store,   \* [Ids -> "absent", "bare" (no config.toml), "full"]
  guest,   \* [Ids -> Guest]
  seen     \* history: which spaces a reader could have found

vars == <<client, wire, thread, lock, store, guest, seen>>
disk == <<store, seen>>
link == <<client, wire>>

Frames == {"progress", "ok", "error"}
Buffer == {<<>>} \cup {<<f>> : f \in Frames}

Thread ==
  [req : Requests \cup {NoRequest}, at : Places, out : {"none", "ok", "error"},
   todo : SUBSET Ids, found : SUBSET Ids, file : Ids \cup {NoId},
   target : Ids \cup {NoId}, cmd : Commands \cup {"none"},
   reply : {"none"} \cup Replies, graceful : BOOLEAN, lines : 0..MaxLines]

NoThread == [req |-> NoRequest, at |-> "none", out |-> "none", todo |-> {},
             found |-> {}, file |-> NoId, target |-> NoId, cmd |-> "none",
             reply |-> "none", graceful |-> FALSE, lines |-> 0]

At(c, place) == thread[c].at = place
Goto(c, place) == thread' = [thread EXCEPT ![c].at = place]
Decide(c, place, out) ==
  thread' = [thread EXCEPT ![c].at = place, ![c].out = out]
Op(c) == thread[c].req.op
Id(c) == thread[c].req.id

Stored == {i \in Ids : store[i] = "full"}

\* What readers under way could see once the store holds now.
Witness(now) ==
  seen' = [c \in Conns |->
    IF thread[c].req # NoRequest /\ Op(c) \in Reads
    THEN [always |-> seen[c].always \cap now, ever |-> seen[c].ever \cup now]
    ELSE seen[c]]

NotSeen == [always |-> {}, ever |-> {}]

-----------------------------------------------------------------------------
(* The client: proto/client.rs. *)

\* read_request and dispatch: where a request's thread begins.
Dispatch(req) ==
  CASE req.op \in Locked -> "lock"
    [] req.op \in Reads  -> "load"
    [] req.op = "build"  -> "build"
    [] req.op = "bad"    -> "reject"

\* A client connects and writes its request.
Ask(c, req) ==
  /\ client[c] = "idle"
  /\ client' = [client EXCEPT ![c] = "waiting"]
  /\ thread' = [thread EXCEPT ![c] = [NoThread EXCEPT !.req = req, !.at = Dispatch(req)]]
  /\ seen' = [seen EXCEPT ![c] =
       IF req.op \in Reads THEN [always |-> Stored, ever |-> Stored] ELSE NotSeen]
  /\ UNCHANGED <<wire, lock, store, guest>>

\* exchange: progress frames are passed on, the first other one is the reply.
ReadFrame(c) ==
  /\ client[c] = "waiting" /\ wire[c] # <<>>
  /\ wire' = [wire EXCEPT ![c] = Tail(@)]
  /\ client' = [client EXCEPT ![c] =
       IF Head(wire[c]) = "progress" THEN "waiting" ELSE "idle"]
  /\ UNCHANGED <<thread, lock, store, guest, seen>>

\* The stream ends without a reply.
EndOfStream(c) ==
  /\ client[c] = "waiting" /\ At(c, "none") /\ wire[c] = <<>>
  /\ client' = [client EXCEPT ![c] = "idle"]
  /\ UNCHANGED <<wire, thread, lock, store, guest, seen>>

\* call: no frame for read_timeout.
GiveUp(c) ==
  /\ client[c] = "waiting" /\ wire[c] = <<>> /\ ~At(c, "none")
  /\ client' = [client EXCEPT ![c] = "left"]
  /\ UNCHANGED <<wire, thread, lock, store, guest, seen>>

-----------------------------------------------------------------------------
(* The connection's thread: daemon main.rs, proto/control.rs. *)

\* A frame that is too long, not JSON, or no Request.
Reject(c) ==
  /\ At(c, "reject")
  /\ Decide(c, "answer", "error")
  /\ UNCHANGED <<link, lock, disk, guest>>

\* write_line: blocks while the socket is full; a client that has left makes
\* it fail, which both callers ignore.
Write(c, frame) ==
  \/ client[c] = "left" /\ UNCHANGED wire
  \/ client[c] = "waiting" /\ wire[c] = <<>>
     /\ wire' = [wire EXCEPT ![c] = <<frame>>]

Hangup(c) == client' = [client EXCEPT ![c] = IF @ = "left" THEN "idle" ELSE @]

Close(c) ==
  /\ thread' = [thread EXCEPT ![c] = NoThread]
  /\ seen' = [seen EXCEPT ![c] = NotSeen]
  /\ Hangup(c)

\* A frame already written stays with the guest, but nobody waits for its
\* reply.
AbandonCall(c) ==
  guest' = [i \in Ids |-> [guest[i] EXCEPT !.backlog =
    [k \in DOMAIN @ |-> IF @[k].from = c THEN [@[k] EXCEPT !.from = Nobody]
                        ELSE @[k]]]]

\* Responder::finish; the stream is closed with the thread.
Answer(c) ==
  /\ At(c, "answer")
  /\ Write(c, thread[c].out)
  /\ Close(c)
  /\ UNCHANGED <<lock, store, guest>>

\* Fault model: a panicking handler takes the lock with it.
PanicKeepsLock(c) ==
  /\ thread[c].at \in PanicSteps
  /\ Close(c)
  /\ AbandonCall(c)
  /\ UNCHANGED <<wire, lock, store>>

\* catch_unwind: the guard is dropped, poisoning is ignored by the next
\* handler, no reply is written.
Panic(c) ==
  /\ thread[c].at \in PanicSteps
  /\ Close(c)
  /\ lock' = IF lock = c THEN Nobody ELSE lock
  /\ AbandonCall(c)
  /\ UNCHANGED <<wire, store>>

\* The guard of Ctx.lock goes out of scope with the handler.
Release(c) ==
  /\ At(c, "release")
  /\ lock' = Nobody
  /\ Goto(c, "answer")
  /\ UNCHANGED <<link, disk, guest>>

-----------------------------------------------------------------------------
(* list and describe: no lock. *)

\* read_dir of <state>/spaces.
LoadStore(c) ==
  /\ At(c, "load")
  /\ thread' = [thread EXCEPT ![c].at = "file",
                              ![c].todo = {i \in Ids : store[i] # "absent"}]
  /\ UNCHANGED <<link, lock, disk, guest>>

\* Fault model: every directory is taken for a space.
IsFileUnchecked(c) ==
  /\ At(c, "file") /\ thread[c].file = NoId
  /\ \E i \in thread[c].todo :
       thread' = [thread EXCEPT ![c].todo = @ \ {i}, ![c].file = i]
  /\ UNCHANGED <<link, lock, disk, guest>>

\* An entry with no config.toml is passed over.
IsFile(c) ==
  /\ At(c, "file") /\ thread[c].file = NoId
  /\ \E i \in thread[c].todo :
       thread' = [thread EXCEPT ![c].todo = @ \ {i},
                                ![c].file = IF store[i] = "full" THEN i ELSE NoId]
  /\ UNCHANGED <<link, lock, disk, guest>>

\* read_to_string fails if config.toml has gone since is_file, and with it the
\* whole request.
ReadConfig(c) ==
  /\ At(c, "file") /\ thread[c].file # NoId
  /\ IF store[thread[c].file] = "full"
     THEN thread' = [thread EXCEPT ![c].file = NoId,
                                   ![c].found = @ \cup {thread[c].file}]
     ELSE Decide(c, "answer", "error")
  /\ UNCHANGED <<link, lock, disk, guest>>

\* list goes on with every space, describe with the one it was asked for.
Loaded(c) ==
  /\ At(c, "file") /\ thread[c].file = NoId /\ thread[c].todo = {}
  /\ IF Op(c) = "describe" /\ Id(c) \notin thread[c].found
     THEN Decide(c, "answer", "error")
     ELSE thread' = [thread EXCEPT ![c].at = "probe",
                       ![c].todo = IF Op(c) = "list" THEN thread[c].found ELSE {Id(c)}]
  /\ UNCHANGED <<link, lock, disk, guest>>

-----------------------------------------------------------------------------
(* Calls of the agent: daemon agent.rs. *)

\* Fault model: whatever the agent answers is a confirmation.
GracefulAnyReply(reply) == reply # "none"

\* shutdown_via_agent: only a confirmed unmount counts.
Graceful(reply) == reply = "unmounted"

\* Where a handler is once its call has ended with reply, "none" if it failed.
AfterCall(c, reply) ==
  LET t == [thread[c] EXCEPT !.cmd = "none", !.reply = "none", !.target = NoId]
      g == guest[thread[c].target]
      started == reply = "yes"
  IN CASE Op(c) \in Reads ->
            {[t EXCEPT !.at = "probe"]}
       [] Op(c) = "start" /\ thread[c].cmd = "health" ->
            IF reply # "none" THEN {[t EXCEPT !.at = "exec-app"]}
            ELSE IF ~g.up THEN {[t EXCEPT !.at = "release", !.out = "error"]}
            ELSE {[t EXCEPT !.at = "release", !.out = "ok"]} \cup
                 (IF t.lines < MaxLines THEN {[t EXCEPT !.at = "progress"]} ELSE {})
       [] Op(c) = "start" /\ thread[c].cmd = "exec-app" ->
            {[t EXCEPT !.at = "release",
                       !.out = IF started \/ g.up THEN "ok" ELSE "error"]}
       [] Op(c) = "stop" ->
            {[t EXCEPT !.at = "kill", !.graceful = Graceful(reply)]}
       [] Op(c) = "open-window" ->
            {[t EXCEPT !.at = "release", !.out = IF started THEN "ok" ELSE "error"]}

\* connect_with_timeout and the write of the frame: where no agent listens
\* nothing is sent, and the call can only fail.
Send(c, i, cmd) ==
  guest' = IF guest[i].agent = "listening" /\ Len(guest[i].backlog) < MaxBacklog
           THEN [guest EXCEPT ![i].backlog = Append(@, [from |-> c, cmd |-> cmd])]
           ELSE guest

Call(c, i, cmd) ==
  /\ Send(c, i, cmd)
  /\ thread' = [thread EXCEPT ![c].at = "wait", ![c].cmd = cmd, ![c].target = i,
                              ![c].todo = @ \ {i}]

\* start_app_via_agent: health until it answers, then exec-app.
CallAgent(c) ==
  /\ thread[c].at \in {"health", "exec-app"}
  /\ Call(c, Id(c), thread[c].at)
  /\ UNCHANGED <<link, lock, disk>>

\* observed_state of the next space: a dead QEMU is not asked.
Probe(c) ==
  /\ At(c, "probe") /\ thread[c].todo # {}
  /\ LET i == CHOOSE i \in thread[c].todo : TRUE
     IN IF guest[i].up THEN Call(c, i, "health")
        ELSE thread' = [thread EXCEPT ![c].todo = @ \ {i}] /\ UNCHANGED guest
  /\ UNCHANGED <<link, lock, disk>>

Observed(c) ==
  /\ At(c, "probe") /\ thread[c].todo = {}
  /\ Decide(c, "answer", "ok")
  /\ UNCHANGED <<link, lock, disk, guest>>

\* read_agent_reply in time.
TakeReply(c) ==
  /\ At(c, "wait") /\ thread[c].reply # "none"
  /\ \E t \in AfterCall(c, thread[c].reply) : thread' = [thread EXCEPT ![c] = t]
  /\ UNCHANGED <<link, lock, disk, guest>>

\* HealthError: the agent did not answer in time, or the connection failed.
CallFails(c) ==
  /\ At(c, "wait") /\ thread[c].reply = "none"
  /\ \E t \in AfterCall(c, "none") : thread' = [thread EXCEPT ![c] = t]
  /\ AbandonCall(c)
  /\ UNCHANGED <<link, lock, disk>>

-----------------------------------------------------------------------------
(* The handlers under Ctx.lock: ops.rs. *)

Acquire(c) == lock = Nobody /\ lock' = c

\* A request that is refused has changed nothing when the lock is released.
Refuse(c, op, allowed) ==
  /\ At(c, "lock") /\ Op(c) = op /\ ~allowed
  /\ Acquire(c)
  /\ Decide(c, "release", "error")
  /\ UNCHANGED <<link, disk, guest>>

\* create: create_dir_all comes before the config.
Create(c) ==
  \/ Refuse(c, "create", Id(c) \notin Stored)
  \/ /\ At(c, "lock") /\ Op(c) = "create" /\ Id(c) \notin Stored
     /\ Acquire(c)
     /\ store' = [store EXCEPT ![Id(c)] = "bare"]
     /\ Goto(c, "config")
     /\ UNCHANGED <<link, guest, seen>>

WriteConfig(c) ==
  /\ At(c, "config")
  /\ store' = [store EXCEPT ![Id(c)] = "full"]
  /\ Witness(Stored \cup {Id(c)})
  /\ Goto(c, "volumes")
  /\ UNCHANGED <<link, lock, guest>>

\* Volumes, registry and rules; a failure is rolled back.
CreateVolumes(c) ==
  /\ At(c, "volumes")
  /\ \/ Decide(c, "release", "ok")
     \/ "volumes" \in Faults /\ Goto(c, "unlink")
  /\ UNCHANGED <<link, lock, disk, guest>>

\* Fault model: destroy does not take the lock.
DestroyUnlocked(c) ==
  \/ Refuse(c, "destroy", Id(c) \in Stored /\ ~guest[Id(c)].up)
  \/ /\ At(c, "lock") /\ Op(c) = "destroy" /\ Id(c) \in Stored /\ ~guest[Id(c)].up
     /\ Goto(c, "unlink")
     /\ UNCHANGED <<link, lock, disk, guest>>

Destroy(c) ==
  \/ Refuse(c, "destroy", Id(c) \in Stored /\ ~guest[Id(c)].up)
  \/ /\ At(c, "lock") /\ Op(c) = "destroy" /\ Id(c) \in Stored /\ ~guest[Id(c)].up
     /\ Acquire(c)
     /\ Goto(c, "unlink")
     /\ UNCHANGED <<link, disk, guest>>

\* remove_dir_all, in destroy and in the rollback of create: the entries go
\* before the directory.
UnlinkConfig(c) ==
  /\ At(c, "unlink")
  /\ store' = [store EXCEPT ![Id(c)] = "bare"]
  /\ Witness(Stored \ {Id(c)})
  /\ Goto(c, "rmdir")
  /\ UNCHANGED <<link, lock, guest>>

\* destroy then renders registry and rules, and answers an error if it cannot.
RemoveDir(c) ==
  /\ At(c, "rmdir")
  /\ store' = [store EXCEPT ![Id(c)] = "absent"]
  /\ \/ Decide(c, "release", IF Op(c) = "create" THEN "error" ELSE "ok")
     \/ "refresh" \in Faults /\ Decide(c, "release", "error")
  /\ UNCHANGED <<link, lock, guest, seen>>

\* start: a spawn that fails changes nothing other threads see.
Start(c) ==
  \/ Refuse(c, "start", Id(c) \in Stored /\ ~guest[Id(c)].up)
  \/ /\ At(c, "lock") /\ Op(c) = "start" /\ Id(c) \in Stored /\ ~guest[Id(c)].up
     /\ Acquire(c)
     /\ \/ /\ guest' = [guest EXCEPT ![Id(c)] = Booted(Id(c) \in Volumes)]
           /\ Goto(c, "health")
        \/ Decide(c, "release", "error") /\ UNCHANGED guest
     /\ UNCHANGED <<link, disk>>

\* on_progress, from the waiting start or from a line of the builder.
Progress(c) ==
  /\ At(c, "progress")
  /\ Write(c, "progress")
  /\ thread' = [thread EXCEPT ![c].lines = @ + 1,
                              ![c].at = IF Op(c) = "start" THEN "health" ELSE "build"]
  /\ UNCHANGED <<client, lock, disk, guest>>

Stop(c) ==
  \/ Refuse(c, "stop", Id(c) \in Stored /\ guest[Id(c)].up)
  \/ /\ At(c, "lock") /\ Op(c) = "stop" /\ Id(c) \in Stored /\ guest[Id(c)].up
     /\ Acquire(c)
     /\ Call(c, Id(c), "shutdown")
     /\ UNCHANGED <<link, disk>>

\* kill_and_reap, then set_clean_shutdown and the answer.
KillAndReap(c) ==
  /\ At(c, "kill")
  /\ guest' = [guest EXCEPT ![Id(c)] = PoweredOff(@)]
  /\ Decide(c, "release", "ok")
  /\ UNCHANGED <<link, lock, disk>>

OpenWindow(c) ==
  \/ Refuse(c, "open-window", Id(c) \in Stored /\ guest[Id(c)].up)
  \/ /\ At(c, "lock") /\ Op(c) = "open-window" /\ Id(c) \in Stored /\ guest[Id(c)].up
     /\ Acquire(c)
     /\ Call(c, Id(c), "exec-app")
     /\ UNCHANGED <<link, disk>>

-----------------------------------------------------------------------------
(* build: no lock; run_streaming passes on a line at a time and then waits *)
(* for the builder.                                                        *)

BuildLine(c) ==
  /\ At(c, "build") /\ thread[c].lines < MaxLines
  /\ Goto(c, "progress")
  /\ UNCHANGED <<link, lock, disk, guest>>

BuildEnds(c) ==
  /\ At(c, "build")
  /\ \E out \in {"ok", "error"} : Decide(c, "answer", out)
  /\ UNCHANGED <<link, lock, disk, guest>>

-----------------------------------------------------------------------------
(* The guests. *)

AgentListens(i) ==
  /\ guest[i].agent = "booting"
  /\ guest' = [guest EXCEPT ![i].agent = "listening"]
  /\ UNCHANGED <<link, thread, lock, disk>>

\* The accept loop of the agent.
AgentHandles(i) ==
  /\ guest[i].agent = "listening" /\ guest[i].backlog # <<>>
  /\ \E r \in Handle(guest[i]) :
       /\ guest' = [guest EXCEPT ![i] = r.guest]
       /\ LET c == Head(guest[i].backlog).from
          IN thread' = IF c = Nobody THEN thread
                       ELSE [thread EXCEPT ![c].reply = r.reply]
  /\ UNCHANGED <<link, lock, disk>>

\* An application ends by itself.
AppExits(i) ==
  /\ \/ /\ guest[i].child
        /\ guest' = [guest EXCEPT ![i].child = FALSE]
     \/ /\ guest[i].orphans
        /\ guest' = [guest EXCEPT ![i].orphans = FALSE]
  /\ UNCHANGED <<link, thread, lock, disk>>

\* QEMU ends by itself.
GuestDies(i) ==
  /\ guest[i].up
  /\ guest' = [guest EXCEPT ![i] = PoweredOff(@)]
  /\ UNCHANGED <<link, thread, lock, disk>>

-----------------------------------------------------------------------------
Init ==
  /\ client = [c \in Conns |-> "idle"]
  /\ wire = [c \in Conns |-> <<>>]
  /\ thread = [c \in Conns |-> NoThread]
  /\ lock = Nobody
  /\ \E some \in SUBSET Ids :
       store = [i \in Ids |-> IF i \in some THEN "full" ELSE "absent"]
  /\ guest = [i \in Ids |-> NeverBooted]
  /\ seen = [c \in Conns |-> NotSeen]

Serve(c) ==
  \/ Reject(c) \/ Answer(c) \/ Release(c)
  \/ LoadStore(c) \/ IsFile(c) \/ ReadConfig(c) \/ Loaded(c)
  \/ CallAgent(c) \/ Probe(c) \/ Observed(c) \/ TakeReply(c) \/ CallFails(c)
  \/ Create(c) \/ WriteConfig(c) \/ CreateVolumes(c)
  \/ Destroy(c) \/ UnlinkConfig(c) \/ RemoveDir(c)
  \/ Start(c) \/ Progress(c)
  \/ Stop(c) \/ KillAndReap(c)
  \/ OpenWindow(c) \/ BuildLine(c) \/ BuildEnds(c)

Next ==
  \/ \E c \in Conns :
       \/ \E req \in MayAsk[c] : Ask(c, req)
       \/ ReadFrame(c) \/ EndOfStream(c) \/ GiveUp(c) \/ Panic(c)
       \/ Serve(c)
  \/ \E i \in Ids :
       AgentListens(i) \/ AgentHandles(i) \/ AppExits(i) \/ GuestDies(i)

Spec == Init /\ [][Next]_vars

(* Threads are scheduled, every call of an agent has a timeout, a start its *)
(* deadline and a build its end; the client reads what comes.  std's Mutex  *)
(* is not fair: nothing says who gets the lock next.                        *)
FairSpec ==
  /\ Spec
  /\ \A c \in Conns : WF_vars(Serve(c) \/ ReadFrame(c) \/ EndOfStream(c))

-----------------------------------------------------------------------------
TypeOK ==
  /\ client \in [Conns -> {"idle", "waiting", "left"}]
  /\ wire \in [Conns -> Buffer]
  /\ thread \in [Conns -> Thread]
  /\ lock \in Conns \cup {Nobody}
  /\ store \in [Ids -> {"absent", "bare", "full"}]
  /\ guest \in [Ids -> Guest]
  /\ seen \in [Conns -> [always : SUBSET Ids, ever : SUBSET Ids]]

\* What list and describe answer without the lock is about their time: a space
\* that was there throughout is found, one that is found was there at some
\* moment, and an error blames the store only if the store changed meanwhile.
ReadsAreRegular ==
  \A c \in Conns :
    At(c, "answer") /\ Op(c) \in Reads =>
      IF thread[c].out = "ok"
      THEN /\ Op(c) = "list" => seen[c].always \subseteq thread[c].found
           /\ thread[c].found \subseteq seen[c].ever
      ELSE \/ seen[c].always # seen[c].ever
           \/ Op(c) = "describe" /\ Id(c) \notin seen[c].ever

\* stop records a clean shutdown only if the guest has unmounted its volume,
\* whatever calls the agent had to serve before and however late.
CleanStopIsTrue ==
  \A c \in Conns :
    At(c, "release") /\ Op(c) = "stop" /\ thread[c].out = "ok" =>
      (thread[c].graceful => ~guest[Id(c)].mounted)

\* No application starts in a guest whose volume has been unmounted, not even
\* by an exec-app whose caller gave up before the shutdown.
NoAppAfterUnmount ==
  [][\A i \in Ids :
       i \in Volumes /\ guest[i].up /\ ~guest[i].mounted =>
         /\ guest'[i].child => guest[i].child
         /\ guest'[i].orphans => guest[i].orphans]_vars

\* Once clients ask no more, every request comes to an end: its thread is gone
\* and its client has an answer, sees the connection end, or has left.
EveryRequestEnds ==
  <>[][\A c \in Conns : ~\E req \in MayAsk[c] : Ask(c, req)]_vars =>
    \A c \in Conns : []<>(client[c] = "idle" /\ At(c, "none"))

-----------------------------------------------------------------------------
(* The promise of Calls.  While a handler holds the lock the store is taken *)
(* to be what it was when the handler got it.                               *)

World ==
  LET undone == lock # Nobody /\ thread[lock].at \in
                  {"config", "volumes", "unlink", "rmdir", "release"}
                /\ (At(lock, "release") => thread[lock].out = "ok")
  IN CASE undone /\ Op(lock) = "create"  -> Stored \ {Id(lock)}
       [] undone /\ Op(lock) = "destroy" -> Stored \cup {Id(lock)}
       [] OTHER -> Stored

CallOf(c) ==
  LET listening == client[c] = "waiting"
      decided(out) == [st |-> "decided", req |-> NoRequest, out |-> out,
                       listening |-> listening]
  IN CASE client[c] = "idle" ->
            [st |-> "idle", req |-> NoRequest, out |-> "none", listening |-> FALSE]
       [] client[c] # "idle" /\ At(c, "answer") -> decided(thread[c].out)
       [] client[c] # "idle" /\ At(c, "none") ->
            IF wire[c] \in {<<"ok">>, <<"error">>} THEN decided(Head(wire[c]))
            ELSE [st |-> "broken", req |-> NoRequest, out |-> "none",
                  listening |-> listening]
       [] OTHER -> [st |-> "asked", req |-> thread[c].req, out |-> "none",
                    listening |-> listening]

Promise == INSTANCE Calls WITH
  Clients <- Conns, world <- World, call <- [c \in Conns |-> CallOf(c)]

\* create and destroy of concurrent clients take effect at once and at most
\* once, as they are answered; a request that is refused or fails has changed
\* nothing; one that a client gave up on is carried out whole or not at all.
MutationsAreAtomic == Promise!Spec
=============================================================================
