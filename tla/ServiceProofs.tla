---------------------------- MODULE ServiceProofs ----------------------------
(***************************************************************************)
(* Theorems about Service, for any number of clients, spaces and requests  *)
(* and any length of an agent's backlog.                                   *)
(***************************************************************************)
EXTENDS Service, TLAPS

(* Control: where the thread of a request can be, that the lock is held     *)
(* exactly by a thread in the middle of a handler that takes it, and what   *)
(* the client and the socket know of the thread.                            *)

MayBeAt(op, place) ==
  \/ op \in Locked /\ place \in {"lock", "release", "answer"}
  \/ op = "create" /\ place \in {"config", "volumes", "unlink", "rmdir"}
  \/ op = "destroy" /\ place \in {"unlink", "rmdir"}
  \/ op = "start" /\ place \in {"health", "exec-app", "wait", "progress"}
  \/ op = "stop" /\ place \in {"wait", "kill"}
  \/ op = "open-window" /\ place = "wait"
  \/ op \in Reads /\ place \in {"load", "file", "probe", "wait", "answer"}
  \/ op = "build" /\ place \in {"build", "progress", "answer"}
  \/ op = "bad" /\ place \in {"reject", "answer"}

\* A thread in the middle of a handler that takes the lock.
InHandler(t) == t.at \notin {"none", "lock", "answer"} /\ t.req.op \in Locked

\* What such a thread has made of the directory of its space.
Directory(t, dir) ==
  /\ t.at \in {"config", "rmdir"} => dir = "bare"
  /\ t.at \in {"volumes", "unlink"} => dir = "full"
  /\ t.at # "release" /\ t.req.op \in {"start", "stop", "open-window"}
       => dir = "full"
  /\ t.at = "release" /\ t.out = "ok" => (dir = "full" <=> t.req.op # "destroy")

\* The calls of the agent a handler makes.
MayCall(op, cmd) ==
  \/ op \in Reads \cup {"start"} /\ cmd = "health"
  \/ op \in {"start", "open-window"} /\ cmd = "exec-app"
  \/ op = "stop" /\ cmd = "shutdown"

Placed(t) ==
  /\ t.req \in Requests /\ MayBeAt(t.req.op, t.at)
  /\ t.at \in {"release", "answer"} => t.out # "none"
  /\ t.at = "progress" => t.lines < MaxLines
  /\ t.at = "wait" =>
       /\ MayCall(t.req.op, t.cmd)
       /\ t.target \in Ids /\ (t.req.op \in Locked => t.target = t.req.id)

PlaceInvariant ==
  \A c \in Conns :
    IF At(c, "none") THEN thread[c].req = NoRequest ELSE Placed(thread[c])

LockInvariant == \A c \in Conns : InHandler(thread[c]) <=> lock = c

SocketInvariant ==
  \A c \in Conns :
    /\ client[c] = "idle" => At(c, "none") /\ wire[c] = <<>>
    /\ client[c] = "left" => ~At(c, "none") /\ wire[c] = <<>>
    /\ wire[c] \in {<<"ok">>, <<"error">>} => At(c, "none")

StoreInvariant ==
  \A c \in Conns : InHandler(thread[c]) => Directory(thread[c], store[Id(c)])

Control == /\ TypeOK /\ PlaceInvariant /\ LockInvariant
           /\ SocketInvariant /\ StoreInvariant

-----------------------------------------------------------------------------
LEMMA InitControl == Init => Control
  BY ServiceAssumption, AgentAssumption
  DEF Init, Control, TypeOK, PlaceInvariant, LockInvariant, SocketInvariant,
      StoreInvariant, InHandler, At, Id, NoThread, Thread, Places, NotSeen,
      NeverBooted, Guest, Conns, Buffer

\* A step of one thread: it moves on to t, takes or drops the lock with that,
\* and changes at most its own directory, and that only with the lock.
LEMMA ThreadStep ==
  ASSUME Control, NEW c \in Conns, NEW t \in Thread,
         ~At(c, "none"), t.req = thread[c].req, Placed(t),
         thread' = [thread EXCEPT ![c] = t],
         lock' = IF InHandler(t) THEN c ELSE IF lock = c THEN Nobody ELSE lock,
         InHandler(t) => lock \in {c, Nobody},
         client' = client,
         \/ wire' = wire
         \/ /\ client[c] = "waiting"
            /\ \E b \in Buffer \ {<<"ok">>, <<"error">>} : wire' = [wire EXCEPT ![c] = b],
         store' \in [Ids -> {"absent", "bare", "full"}],
         \A i \in Ids : store'[i] # store[i] => i = t.req.id /\ InHandler(t),
         InHandler(t) => Directory(t, store'[t.req.id]),
         guest' \in [Ids -> Guest],
         seen' \in [Conns -> [always : SUBSET Ids, ever : SUBSET Ids]]
  PROVE  Control'
  <1> USE DEF Control
  <1>1. /\ thread \in [Conns -> Thread] /\ thread' \in [Conns -> Thread]
        /\ thread'[c] = t /\ \A d \in Conns \ {c} : thread'[d] = thread[d]
    BY DEF TypeOK
  <1>2. t.at # "none" /\ thread[c].at # "none"
    BY DEF Placed, MayBeAt, At
  <1>3. lock' \in Conns \cup {Nobody} /\ Nobody \notin Conns
    BY AgentAssumption DEF TypeOK, Conns
  <1>4. wire' \in [Conns -> Buffer]
    BY DEF TypeOK
  <1>5. TypeOK'
    BY <1>1, <1>3, <1>4 DEF TypeOK
  <1>6. PlaceInvariant'
    BY <1>1, <1>2 DEF PlaceInvariant, At
  <1>7. LockInvariant'
    BY <1>1, <1>3 DEF LockInvariant
  <1>8. SocketInvariant'
    <2>1. client[c] # "idle"
      BY <1>2 DEF SocketInvariant, At
    <2>2. wire[c] \notin {<<"ok">>, <<"error">>}
      BY <1>2 DEF SocketInvariant, At
    <2>3. wire'[c] \notin {<<"ok">>, <<"error">>} /\ \A d \in Conns \ {c} : wire'[d] = wire[d]
      BY <2>2 DEF TypeOK
    <2>4. client[c] = "left" => wire'[c] = wire[c]
      OBVIOUS
    <2> QED BY <1>1, <1>2, <2>1, <2>3, <2>4 DEF SocketInvariant, At
  <1>9. StoreInvariant'
    <2> SUFFICES ASSUME NEW d \in Conns, InHandler(thread'[d])
                 PROVE  Directory(thread'[d], store'[thread'[d].req.id])
      BY DEF StoreInvariant, Id
    <2>1. CASE d = c
      BY <1>1, <2>1
    <2>2. CASE d # c
      <3>1. lock = d /\ ~InHandler(t)
        BY <1>1, <1>3, <2>2 DEF LockInvariant
      <3>2. store' = store
        BY <3>1 DEF TypeOK
      <3> QED BY <1>1, <2>2, <3>2 DEF StoreInvariant, Id
    <2> QED BY <2>1, <2>2
  <1> QED BY <1>5, <1>6, <1>7, <1>8, <1>9

\* What is known of a thread under way.
LEMMA UnderWay ==
  ASSUME Control, NEW c \in Conns, ~At(c, "none")
  PROVE  /\ thread \in [Conns -> Thread] /\ thread[c] \in Thread
         /\ Placed(thread[c]) /\ client[c] # "idle"
         /\ Op(c) \in Ops /\ (Op(c) \in Locked => Id(c) \in Ids)
         /\ InHandler(thread[c]) <=> lock = c
         /\ InHandler(thread[c]) => Directory(thread[c], store[Id(c)])
  BY ServiceAssumption
  DEF Control, TypeOK, PlaceInvariant, LockInvariant, StoreInvariant,
      SocketInvariant, At, Op, Id, Placed

\* A step that neither takes nor drops the lock and leaves the store alone.
LEMMA QuietStep ==
  ASSUME Control, NEW c \in Conns, NEW t \in Thread, ~At(c, "none"),
         t.req = thread[c].req, Placed(t),
         InHandler(t) <=> InHandler(thread[c]),
         InHandler(t) => Directory(t, store[Id(c)]),
         thread' = [thread EXCEPT ![c] = t],
         guest' \in [Ids -> Guest], UNCHANGED <<link, lock, disk>>
  PROVE  Control'
  <1>1. InHandler(thread[c]) <=> lock = c
    BY UnderWay
  <1>2. lock' = IF InHandler(t) THEN c ELSE IF lock = c THEN Nobody ELSE lock
    BY <1>1
  <1>3. client' = client /\ wire' = wire /\ store' = store /\ seen' = seen
    BY DEF link, disk
  <1>4. /\ store' \in [Ids -> {"absent", "bare", "full"}]
        /\ seen' \in [Conns -> [always : SUBSET Ids, ever : SUBSET Ids]]
    BY <1>3 DEF Control, TypeOK
  <1>5. InHandler(t) => lock \in {c, Nobody} /\ Directory(t, store'[t.req.id])
    BY <1>1, <1>3 DEF Id
  <1> QED BY <1>2, <1>3, <1>4, <1>5, ThreadStep

\* A step that takes the lock and leaves the store alone.
LEMMA AcquireStep ==
  ASSUME Control, NEW c \in Conns, NEW t \in Thread, At(c, "lock"),
         t.req = thread[c].req, Placed(t), InHandler(t),
         Directory(t, store[Id(c)]), Acquire(c),
         thread' = [thread EXCEPT ![c] = t],
         guest' \in [Ids -> Guest], UNCHANGED <<link, disk>>
  PROVE  Control'
  <1>1. client' = client /\ wire' = wire /\ store' = store /\ seen' = seen
    BY DEF link, disk
  <1>2. /\ store' \in [Ids -> {"absent", "bare", "full"}]
        /\ seen' \in [Conns -> [always : SUBSET Ids, ever : SUBSET Ids]]
    BY <1>1 DEF Control, TypeOK
  <1>3. lock = Nobody /\ lock' = c /\ ~At(c, "none")
    BY DEF Acquire, At
  <1>4. Directory(t, store'[t.req.id])
    BY <1>1 DEF Id
  <1> QED BY <1>1, <1>2, <1>3, <1>4, ThreadStep

-----------------------------------------------------------------------------
(* Lemmas about the operators the actions are made of. *)

LEMMA DispatchPlaces ==
  ASSUME NEW req \in Requests
  PROVE  /\ Dispatch(req) \in Places
         /\ MayBeAt(req.op, Dispatch(req))
         /\ Dispatch(req) \in {"lock", "load", "build", "reject"}
         /\ Dispatch(req) = "lock" <=> req.op \in Locked
  <1>1. CASE req.op \in Locked
    <2>1. ~(req.op \in Reads) /\ ~(req.op = "build") /\ ~(req.op = "bad")
      BY <1>1 DEF Locked, Reads
    <2>2. Dispatch(req) = "lock"
      BY <1>1, <2>1, Zenon DEF Dispatch
    <2> QED BY <1>1, <2>2 DEF MayBeAt, Places
  <1>2. CASE req.op \in Reads
    <2>1. ~(req.op \in Locked) /\ ~(req.op = "build") /\ ~(req.op = "bad")
      BY <1>2 DEF Locked, Reads
    <2>2. Dispatch(req) = "load"
      BY <1>2, <2>1, Zenon DEF Dispatch
    <2> QED BY <1>2, <2>1, <2>2 DEF MayBeAt, Places
  <1>3. CASE req.op = "build"
    <2>1. ~(req.op \in Locked) /\ ~(req.op \in Reads) /\ ~(req.op = "bad")
      BY <1>3 DEF Locked, Reads
    <2>2. Dispatch(req) = "build"
      BY <1>3, <2>1, Zenon DEF Dispatch
    <2> QED BY <1>3, <2>1, <2>2 DEF MayBeAt, Places
  <1>4. CASE req.op = "bad"
    <2>1. ~(req.op \in Locked) /\ ~(req.op \in Reads) /\ ~(req.op = "build")
      BY <1>4 DEF Locked, Reads
    <2>2. Dispatch(req) = "reject"
      BY <1>4, <2>1, Zenon DEF Dispatch
    <2> QED BY <1>4, <2>1, <2>2 DEF MayBeAt, Places
  <1> QED BY <1>1, <1>2, <1>3, <1>4, ServiceAssumption DEF Ops

\* Where a handler can be after its call: an operation on the list, from wait.
Returns(t, u) ==
  /\ u \in Thread /\ u.req = t.req
  /\ u.found = t.found /\ u.todo = t.todo /\ u.file = t.file
  /\ u.cmd = "none" /\ u.reply = "none"
  /\ \/ t.req.op \in Reads /\ u.at = "probe"
     \/ t.req.op = "start" /\ u.at \in {"exec-app", "progress"}
     \/ t.req.op \in {"start", "open-window"} /\ u.at = "release" /\ u.out # "none"
     \/ t.req.op = "stop" /\ u.at = "kill"
  /\ u.at = "progress" => u.lines < MaxLines

LEMMA AfterCallReturns ==
  ASSUME NEW c \in Conns, thread[c] \in Thread, At(c, "wait"), Placed(thread[c]),
         NEW reply, NEW u \in AfterCall(c, reply)
  PROVE  /\ Returns(thread[c], u)
         /\ Op(c) = "stop" => u.graceful = Graceful(reply)
  <1> DEFINE t == [thread[c] EXCEPT !.cmd = "none", !.reply = "none", !.target = NoId]
             g == guest[thread[c].target]
             started == reply = "yes"
             op == thread[c].req.op
             cmd == thread[c].cmd
  <1>1. /\ op = Op(c)
        /\ t \in Thread /\ t.req = thread[c].req /\ t.found = thread[c].found
        /\ t.todo = thread[c].todo /\ t.file = thread[c].file
        /\ t.cmd = "none" /\ t.reply = "none" /\ t.lines \in 0..MaxLines
    BY DEF Thread, Op
  <1>2. \/ op \in Reads
        \/ op = "start" /\ cmd = "health"
        \/ op = "start" /\ cmd = "exec-app"
        \/ op = "stop" \/ op = "open-window"
    BY DEF Placed, MayBeAt, MayCall, At, Locked, Reads
  <1>3. {"probe", "exec-app", "release", "progress", "kill"} \subseteq Places
    BY DEF Places
  <1>6. CASE op \in Reads
    <2>1. ~(op = "start") /\ ~(op = "stop") /\ ~(op = "open-window")
      BY <1>6 DEF Reads
    <2>2. AfterCall(c, reply) = {[t EXCEPT !.at = "probe"]}
      BY <1>6, <2>1, Zenon DEF AfterCall, Op
    <2>3. u = [t EXCEPT !.at = "probe"]
      BY <2>2
    <2> QED BY <1>1, <1>3, <1>6, <2>1, <2>3 DEF Returns, Thread
  <1>7. CASE op = "start" /\ cmd = "health"
    <2>1. ~(op \in Reads) /\ ~(op = "stop") /\ ~(op = "open-window") /\ ~(cmd = "exec-app")
      BY <1>7 DEF Reads
    <2>2. AfterCall(c, reply) =
            IF reply # "none" THEN {[t EXCEPT !.at = "exec-app"]}
            ELSE IF ~g.up THEN {[t EXCEPT !.at = "release", !.out = "error"]}
            ELSE {[t EXCEPT !.at = "release", !.out = "ok"]} \cup
                 (IF t.lines < MaxLines THEN {[t EXCEPT !.at = "progress"]} ELSE {})
      BY <1>7, <2>1, Zenon DEF AfterCall, Op
    <2>3. \/ u = [t EXCEPT !.at = "exec-app"]
          \/ u = [t EXCEPT !.at = "release", !.out = "error"]
          \/ u = [t EXCEPT !.at = "release", !.out = "ok"]
          \/ u = [t EXCEPT !.at = "progress"] /\ t.lines < MaxLines
      BY <2>2
    <2> HIDE DEF t
    <2>4. /\ u \in Thread /\ u.req = t.req /\ u.found = t.found
          /\ u.todo = t.todo /\ u.file = t.file /\ u.cmd = "none"
          /\ u.reply = "none" /\ u.lines = t.lines
          /\ \/ u.at = "exec-app"
             \/ u.at = "progress" /\ t.lines < MaxLines
             \/ u.at = "release" /\ u.out # "none"
      <3>1. ASSUME NEW out \in {"ok", "error"}, u = [t EXCEPT !.at = "release", !.out = out]
            PROVE  /\ u \in Thread /\ u.req = t.req /\ u.found = t.found
                   /\ u.todo = t.todo /\ u.file = t.file /\ u.cmd = t.cmd
                   /\ u.reply = t.reply /\ u.lines = t.lines
                   /\ u.at = "release" /\ u.out # "none"
        BY <1>1, <1>3, <3>1 DEF Thread
      <3>2. ASSUME NEW place \in {"exec-app", "progress"}, u = [t EXCEPT !.at = place]
            PROVE  /\ u \in Thread /\ u.req = t.req /\ u.found = t.found
                   /\ u.todo = t.todo /\ u.file = t.file /\ u.cmd = t.cmd
                   /\ u.reply = t.reply /\ u.lines = t.lines /\ u.at = place
        BY <1>1, <1>3, <3>2 DEF Thread
      <3> QED BY <1>1, <2>3, <3>1, <3>2
    <2> QED BY <1>1, <1>7, <2>1, <2>4 DEF Returns
  <1>8. CASE op = "start" /\ cmd = "exec-app"
    <2>1. ~(op \in Reads) /\ ~(op = "stop") /\ ~(op = "open-window") /\ ~(cmd = "health")
      BY <1>8 DEF Reads
    <2>2. AfterCall(c, reply) =
            {[t EXCEPT !.at = "release",
                       !.out = IF started \/ g.up THEN "ok" ELSE "error"]}
      BY <1>8, <2>1, Zenon DEF AfterCall, Op
    <2>3. \/ u = [t EXCEPT !.at = "release", !.out = "error"]
          \/ u = [t EXCEPT !.at = "release", !.out = "ok"]
      BY <2>2
    <2> HIDE DEF t
    <2>4. /\ u \in Thread /\ u.req = t.req /\ u.found = t.found
          /\ u.todo = t.todo /\ u.file = t.file /\ u.cmd = "none"
          /\ u.reply = "none" /\ u.lines = t.lines /\ u.at = "release" /\ u.out # "none"
      <3>1. ASSUME NEW out \in {"ok", "error"}, u = [t EXCEPT !.at = "release", !.out = out]
            PROVE  /\ u \in Thread /\ u.req = t.req /\ u.found = t.found
                   /\ u.todo = t.todo /\ u.file = t.file /\ u.cmd = t.cmd
                   /\ u.reply = t.reply /\ u.lines = t.lines
                   /\ u.at = "release" /\ u.out # "none"
        BY <1>1, <1>3, <3>1 DEF Thread
      <3> QED BY <1>1, <2>3, <3>1
    <2> QED BY <1>1, <1>8, <2>1, <2>4 DEF Returns
  <1>9. CASE op = "stop"
    <2>1. ~(op \in Reads) /\ ~(op = "start") /\ ~(op = "open-window")
      BY <1>9 DEF Reads
    <2>2. AfterCall(c, reply) = {[t EXCEPT !.at = "kill", !.graceful = Graceful(reply)]}
      BY <1>9, <2>1, Zenon DEF AfterCall, Op
    <2>3. u = [t EXCEPT !.at = "kill", !.graceful = Graceful(reply)]
      BY <2>2
    <2>4. Graceful(reply) \in BOOLEAN
      BY DEF Graceful
    <2> HIDE DEF t
    <2>5. /\ u \in Thread /\ u.req = t.req /\ u.found = t.found
          /\ u.todo = t.todo /\ u.file = t.file /\ u.cmd = "none"
          /\ u.reply = "none" /\ u.at = "kill" /\ u.graceful = Graceful(reply)
      BY <1>1, <1>3, <2>3, <2>4 DEF Thread
    <2> QED BY <1>1, <1>9, <2>1, <2>5 DEF Returns
  <1>10. CASE op = "open-window"
    <2>1. ~(op \in Reads) /\ ~(op = "start") /\ ~(op = "stop")
      BY <1>10 DEF Reads
    <2>2. AfterCall(c, reply) =
            {[t EXCEPT !.at = "release", !.out = IF started THEN "ok" ELSE "error"]}
      BY <1>10, <2>1, Zenon DEF AfterCall, Op
    <2>3. \/ u = [t EXCEPT !.at = "release", !.out = "error"]
          \/ u = [t EXCEPT !.at = "release", !.out = "ok"]
      BY <2>2
    <2> HIDE DEF t
    <2>4. /\ u \in Thread /\ u.req = t.req /\ u.found = t.found
          /\ u.todo = t.todo /\ u.file = t.file /\ u.cmd = "none"
          /\ u.reply = "none" /\ u.lines = t.lines /\ u.at = "release" /\ u.out # "none"
      <3>1. ASSUME NEW out \in {"ok", "error"}, u = [t EXCEPT !.at = "release", !.out = out]
            PROVE  /\ u \in Thread /\ u.req = t.req /\ u.found = t.found
                   /\ u.todo = t.todo /\ u.file = t.file /\ u.cmd = t.cmd
                   /\ u.reply = t.reply /\ u.lines = t.lines
                   /\ u.at = "release" /\ u.out # "none"
        BY <1>1, <1>3, <3>1 DEF Thread
      <3> QED BY <1>1, <2>3, <3>1
    <2> QED BY <1>1, <1>10, <2>1, <2>4 DEF Returns
  <1> QED BY <1>2, <1>6, <1>7, <1>8, <1>9, <1>10

LEMMA NeverBootedGuest == NeverBooted \in Guest
  <1>1. <<>> \in Seq(Connection) /\ Len(<<>>) <= MaxBacklog
    BY AgentAssumption
  <1> QED BY <1>1 DEF NeverBooted, Guest

LEMMA BootedGuest == ASSUME NEW b \in BOOLEAN PROVE Booted(b) \in Guest
  <1> DEFINE n == NeverBooted
  <1> HIDE DEF n
  <1>1. n \in Guest
    BY NeverBootedGuest DEF n
  <1>2. Booted(b) = [n EXCEPT !.up = TRUE, !.agent = "booting", !.mounted = b]
    BY Zenon DEF Booted, n
  <1> QED BY <1>1, <1>2 DEF Guest

LEMMA PoweredOffGuest == ASSUME NEW g \in Guest PROVE PoweredOff(g) \in Guest
  <1> DEFINE n == NeverBooted
  <1> HIDE DEF n
  <1>1. n \in Guest
    BY NeverBootedGuest DEF n
  <1>2. PoweredOff(g) = [n EXCEPT !.mounted = g.mounted]
    BY Zenon DEF PoweredOff, n
  <1> QED BY <1>1, <1>2 DEF Guest

\* A guest whose backlog alone is replaced.
LEMMA BacklogGuest ==
  ASSUME NEW g \in Guest, NEW q \in Seq(Connection), Len(q) <= MaxBacklog
  PROVE  [g EXCEPT !.backlog = q] \in Guest
  BY DEF Guest

LEMMA SendGuest ==
  ASSUME guest \in [Ids -> Guest], NEW c \in Conns, NEW i \in Ids,
         NEW cmd \in Commands, Send(c, i, cmd)
  PROVE  guest' \in [Ids -> Guest]
  <1>1. CASE guest[i].agent = "listening" /\ Len(guest[i].backlog) < MaxBacklog
    <2> DEFINE e == [from |-> c, cmd |-> cmd]
    <2>1. guest[i] \in Guest /\ guest[i].backlog \in Seq(Connection)
      BY DEF Guest
    <2>2. e \in Connection
      BY DEF Connection, Conns
    <2> HIDE DEF e
    <2>3. /\ Append(guest[i].backlog, e) \in Seq(Connection)
          /\ Len(Append(guest[i].backlog, e)) <= MaxBacklog
      BY <1>1, <2>1, <2>2, AgentAssumption
    <2>4. [guest[i] EXCEPT !.backlog = Append(guest[i].backlog, e)] \in Guest
      BY <2>1, <2>3, BacklogGuest
    <2>5. guest' = [guest EXCEPT ![i] = [guest[i] EXCEPT !.backlog = Append(guest[i].backlog, e)]]
      BY <1>1 DEF Send, e
    <2> QED BY <2>4, <2>5
  <1>2. CASE ~(guest[i].agent = "listening" /\ Len(guest[i].backlog) < MaxBacklog)
    BY <1>2 DEF Send
  <1> QED BY <1>1, <1>2

\* Forgetting who waits for a reply keeps the order and number of the frames.
LEMMA AbandonGuest ==
  ASSUME guest \in [Ids -> Guest], NEW c \in Conns, AbandonCall(c)
  PROVE  /\ guest' \in [Ids -> Guest]
         /\ \A i \in Ids :
              LET q == guest[i].backlog
                  p == guest'[i].backlog
              IN /\ guest'[i] = [guest[i] EXCEPT !.backlog = p]
                 /\ p \in Seq(Connection) /\ Len(p) = Len(q)
                 /\ \A k \in 1..Len(q) :
                      /\ p[k].cmd = q[k].cmd
                      /\ p[k].from = IF q[k].from = c THEN Nobody ELSE q[k].from
  <1> SUFFICES ASSUME NEW i \in Ids
               PROVE  LET q == guest[i].backlog
                          p == guest'[i].backlog
                      IN /\ guest'[i] \in Guest
                         /\ guest'[i] = [guest[i] EXCEPT !.backlog = p]
                         /\ p \in Seq(Connection) /\ Len(p) = Len(q)
                         /\ \A k \in 1..Len(q) :
                              /\ p[k].cmd = q[k].cmd
                              /\ p[k].from = IF q[k].from = c THEN Nobody ELSE q[k].from
    BY DEF AbandonCall
  <1> DEFINE q == guest[i].backlog
             p == [k \in DOMAIN q |-> IF q[k].from = c THEN [q[k] EXCEPT !.from = Nobody]
                                      ELSE q[k]]
  <1>1. guest[i] \in Guest /\ q \in Seq(Connection) /\ Len(q) \in Nat
        /\ DOMAIN q = 1..Len(q) /\ Len(q) <= MaxBacklog
    BY DEF Guest
  <1>2. guest'[i] = [guest[i] EXCEPT !.backlog = p]
    BY DEF AbandonCall
  <1>3. \A k \in 1..Len(q) : q[k] \in Connection
    BY <1>1
  <1>4. \A k \in 1..Len(q) :
          /\ p[k] \in Connection /\ p[k].cmd = q[k].cmd
          /\ p[k].from = IF q[k].from = c THEN Nobody ELSE q[k].from
    BY <1>1, <1>3 DEF Connection
  <1>5. p \in [1..Len(q) -> Connection]
    BY <1>1, <1>4
  <1> HIDE DEF p
  <1>6. p \in Seq(Connection) /\ Len(p) = Len(q)
    BY <1>1, <1>5
  <1>7. guest'[i].backlog = p
    BY <1>1, <1>2 DEF Guest
  <1> HIDE DEF q
  <1> QED BY <1>1, <1>2, <1>4, <1>6, <1>7, BacklogGuest DEF q

\* What one connection can make of a guest with an agent that listens.
Served(g, r) ==
  /\ r.guest \in Guest /\ r.reply \in Replies /\ Head(g.backlog).cmd \in Commands
  /\ r.guest.up = g.up
  /\ Head(g.backlog).cmd # "shutdown" =>
       /\ r.guest.backlog = Tail(g.backlog) /\ r.guest.agent = g.agent
       /\ r.guest.mounted = g.mounted /\ r.reply # "unmounted"
  /\ Head(g.backlog).cmd = "shutdown" =>
       /\ r.guest.backlog = <<>> /\ r.guest.agent = "exited"
       /\ r.guest.mounted => g.mounted
       /\ r.reply = "unmounted" => ~r.guest.mounted

LEMMA HandleServes ==
  ASSUME NEW g \in Guest, g.backlog # <<>>, NEW r \in Handle(g)
  PROVE  Served(g, r)
  <1> DEFINE cmd == Head(g.backlog).cmd
             h == Accepted(g)
  <1>1. /\ g.backlog \in Seq(Connection) /\ Len(g.backlog) <= MaxBacklog
        /\ Len(g.backlog) \in Nat
    BY DEF Guest
  <1>2. /\ Tail(g.backlog) \in Seq(Connection)
        /\ Len(Tail(g.backlog)) <= MaxBacklog /\ Head(g.backlog) \in Connection
    BY <1>1, AgentAssumption
  <1>3. /\ h \in Guest /\ h.up = g.up /\ h.agent = g.agent
        /\ h.backlog = Tail(g.backlog) /\ h.child = g.child
        /\ h.orphans = g.orphans /\ h.mounted = g.mounted
    <2>1. h = [g EXCEPT !.backlog = Tail(g.backlog)]
      BY DEF Accepted
    <2> HIDE DEF h
    <2> QED BY <1>2, <2>1 DEF Guest
  <1>4. cmd \in Commands
    BY <1>2 DEF Connection
  <1> HIDE DEF h
  <1>5. CASE cmd = "health"
    <2>1. Handle(g) = HealthReply(h)
      BY <1>5, Zenon DEF Handle, h
    <2>2. r = [guest |-> h, reply |-> "yes"]
      BY <2>1 DEF HealthReply
    <2> QED BY <1>3, <1>4, <1>5, <2>2 DEF Served, Replies
  <1>6. CASE cmd = "exec-app"
    <2> DEFINE o == h.orphans \/ h.child
               e == [h EXCEPT !.child = TRUE, !.orphans = o]
    <2>1. Handle(g) = ExecAppReply(h)
      BY <1>6, Zenon DEF Handle, h
    <2>2. [h EXCEPT !.child = TRUE, !.orphans = @ \/ h.child] = e
      BY Zenon
    <2>3. r = [guest |-> e, reply |-> "yes"] \/ r = [guest |-> h, reply |-> "no"]
      BY <2>1, <2>2 DEF ExecAppReply
    <2>4. o \in BOOLEAN
      BY <1>3 DEF Guest
    <2> HIDE DEF o
    <2>5. /\ e \in Guest /\ e.up = h.up /\ e.agent = h.agent
          /\ e.backlog = h.backlog /\ e.mounted = h.mounted
      BY <1>3, <2>4 DEF Guest
    <2> HIDE DEF e
    <2> QED BY <1>3, <1>4, <1>6, <2>3, <2>5 DEF Served, Replies
  <1>7. CASE cmd = "shutdown"
    <2> DEFINE k == TakeAppChild(h)
    <2>1. Handle(g) = {[s EXCEPT !.guest = Exit(s.guest)] : s \in ShutdownReply(h)}
      BY <1>7, Zenon DEF Handle, h
    <2>2. PICK s \in ShutdownReply(h) : r = [s EXCEPT !.guest = Exit(s.guest)]
      BY <2>1
    <2>3. PICK done \in UnmountData(k) :
            s = [guest |-> [k EXCEPT !.mounted = @ /\ ~done],
                 reply |-> IF done THEN "unmounted" ELSE "no"]
      BY <2>2 DEF ShutdownReply
    <2> DEFINE o == h.orphans \/ h.child
    <2>3a. k = [h EXCEPT !.child = FALSE, !.orphans = o]
      BY Zenon DEF TakeAppChild
    <2>3b. o \in BOOLEAN
      BY <1>3 DEF Guest
    <2> HIDE DEF o, k
    <2>4. k \in Guest /\ k.up = h.up /\ k.mounted = h.mounted
      BY <1>3, <2>3a, <2>3b DEF Guest
    <2>5. done \in BOOLEAN
      BY <2>3 DEF UnmountData
    <2> DEFINE m == [k EXCEPT !.mounted = @ /\ ~done]
    <2>6. m \in Guest /\ m.up = k.up /\ m.mounted = (k.mounted /\ ~done)
      BY <2>4, <2>5 DEF Guest
    <2>7. s.guest = m /\ s.reply = IF done THEN "unmounted" ELSE "no"
      BY <2>3
    <2> HIDE DEF m
    <2>8. r.guest = Exit(m) /\ r.reply = s.reply
      BY <2>2, <2>3, <2>7
    <2>9. <<>> \in Seq(Connection) /\ Len(<<>>) <= MaxBacklog
      BY AgentAssumption
    <2>10. /\ Exit(m) \in Guest /\ Exit(m).up = m.up /\ Exit(m).agent = "exited"
           /\ Exit(m).backlog = <<>> /\ Exit(m).mounted = m.mounted
      BY <2>6, <2>9 DEF Exit, Guest
    <2>11. r.guest.mounted => g.mounted
      BY <1>3, <2>4, <2>6, <2>8, <2>10
    <2>12. r.reply = "unmounted" => ~r.guest.mounted
      BY <2>6, <2>7, <2>8, <2>10
    <2> QED BY <1>3, <1>4, <1>7, <2>4, <2>6, <2>7, <2>8, <2>10, <2>11, <2>12 DEF Served, Replies
  <1> QED BY <1>4, <1>5, <1>6, <1>7 DEF Commands

-----------------------------------------------------------------------------
(* Every action keeps Control. *)

LEMMA RejectKeeps ==
  ASSUME Control, NEW c \in Conns, Reject(c)
  PROVE  Control'
  <1> DEFINE t == [thread[c] EXCEPT !.at = "answer", !.out = "error"]
  <1>1. At(c, "reject") /\ ~At(c, "none")
    BY DEF Reject, At
  <1>2. /\ thread' = [thread EXCEPT ![c] = t]
        /\ guest' \in [Ids -> Guest] /\ UNCHANGED <<link, lock, disk>>
    BY UnderWay, <1>1 DEF Reject, Decide, Control, TypeOK
  <1>3. t \in Thread /\ t.req = thread[c].req /\ t.at = "answer" /\ t.out = "error"
    <2>1. thread[c] \in Thread
      BY UnderWay, <1>1
    <2>2. "answer" \in Places
      BY DEF Places
    <2> QED BY <2>1, <2>2 DEF Thread
  <1> HIDE DEF t
  <1>4. /\ Placed(t) /\ (InHandler(t) <=> InHandler(thread[c]))
        /\ InHandler(t) => Directory(t, store[Id(c)])
    BY UnderWay, <1>1, <1>3
    DEF Placed, MayBeAt, InHandler, Directory, At, Id, Op, Locked, Reads
  <1> QED BY <1>1, <1>2, <1>3, <1>4, QuietStep

LEMMA LoadStoreKeeps ==
  ASSUME Control, NEW c \in Conns, LoadStore(c)
  PROVE  Control'
  <1> DEFINE t == [thread[c] EXCEPT !.at = "file", !.todo = {i \in Ids : store[i] # "absent"}]
  <1>1. At(c, "load") /\ ~At(c, "none")
    BY DEF LoadStore, At
  <1>2. /\ thread' = [thread EXCEPT ![c] = t]
        /\ guest' \in [Ids -> Guest] /\ UNCHANGED <<link, lock, disk>>
    BY UnderWay, <1>1 DEF LoadStore, At, Control, TypeOK
  <1>3. t \in Thread /\ t.req = thread[c].req /\ t.at = "file"
    <2>1. thread[c] \in Thread
      BY UnderWay, <1>1
    <2>2. "file" \in Places
      BY DEF Places
    <2> QED BY <2>1, <2>2 DEF Thread
  <1> HIDE DEF t
  <1>4. /\ Placed(t) /\ (InHandler(t) <=> InHandler(thread[c]))
        /\ InHandler(t) => Directory(t, store[Id(c)])
    BY UnderWay, <1>1, <1>3
    DEF Placed, MayBeAt, InHandler, Directory, At, Id, Op, Locked, Reads
  <1> QED BY <1>1, <1>2, <1>3, <1>4, QuietStep

LEMMA ObservedKeeps ==
  ASSUME Control, NEW c \in Conns, Observed(c)
  PROVE  Control'
  <1> DEFINE t == [thread[c] EXCEPT !.at = "answer", !.out = "ok"]
  <1>1. At(c, "probe") /\ ~At(c, "none")
    BY DEF Observed, At
  <1>2. /\ thread' = [thread EXCEPT ![c] = t]
        /\ guest' \in [Ids -> Guest] /\ UNCHANGED <<link, lock, disk>>
    BY UnderWay, <1>1 DEF Observed, Decide, Control, TypeOK
  <1>3. t \in Thread /\ t.req = thread[c].req /\ t.at = "answer" /\ t.out = "ok"
    <2>1. thread[c] \in Thread
      BY UnderWay, <1>1
    <2>2. "answer" \in Places
      BY DEF Places
    <2> QED BY <2>1, <2>2 DEF Thread
  <1> HIDE DEF t
  <1>4. /\ Placed(t) /\ (InHandler(t) <=> InHandler(thread[c]))
        /\ InHandler(t) => Directory(t, store[Id(c)])
    BY UnderWay, <1>1, <1>3
    DEF Placed, MayBeAt, InHandler, Directory, At, Id, Op, Locked, Reads
  <1> QED BY <1>1, <1>2, <1>3, <1>4, QuietStep

LEMMA BuildLineKeeps ==
  ASSUME Control, NEW c \in Conns, BuildLine(c)
  PROVE  Control'
  <1> DEFINE t == [thread[c] EXCEPT !.at = "progress"]
  <1>1. At(c, "build") /\ ~At(c, "none")
    BY DEF BuildLine, At
  <1>2. /\ thread' = [thread EXCEPT ![c] = t]
        /\ guest' \in [Ids -> Guest] /\ UNCHANGED <<link, lock, disk>>
    BY UnderWay, <1>1 DEF BuildLine, Goto, Control, TypeOK
  <1>3. t \in Thread /\ t.req = thread[c].req /\ t.at = "progress"
        /\ t.lines = thread[c].lines /\ thread[c].lines < MaxLines
    BY UnderWay, <1>1 DEF BuildLine, Thread, Places
  <1> HIDE DEF t
  <1>4. /\ Placed(t) /\ (InHandler(t) <=> InHandler(thread[c]))
        /\ InHandler(t) => Directory(t, store[Id(c)])
    BY UnderWay, <1>1, <1>3
    DEF Placed, MayBeAt, InHandler, Directory, At, Id, Op, Locked, Reads
  <1> QED BY <1>1, <1>2, <1>3, <1>4, QuietStep

LEMMA IsFileKeeps ==
  ASSUME Control, NEW c \in Conns, IsFile(c)
  PROVE  Control'
  <1>1. At(c, "file") /\ ~At(c, "none")
    BY DEF IsFile, At
  <1>2. PICK i \in thread[c].todo :
          thread' = [thread EXCEPT ![c].todo = @ \ {i},
                                   ![c].file = IF store[i] = "full" THEN i ELSE NoId]
    BY DEF IsFile
  <1> DEFINE t == [thread[c] EXCEPT !.todo = @ \ {i},
                                    !.file = IF store[i] = "full" THEN i ELSE NoId]
  <1>3. /\ thread' = [thread EXCEPT ![c] = t]
        /\ guest' \in [Ids -> Guest] /\ UNCHANGED <<link, lock, disk>>
    BY UnderWay, <1>1, <1>2 DEF IsFile, Control, TypeOK
  <1>4. t \in Thread /\ t.req = thread[c].req /\ t.at = "file"
    <2>1. thread[c] \in Thread
      BY UnderWay, <1>1
    <2> QED BY <2>1, <1>1 DEF Thread, At
  <1> HIDE DEF t
  <1>5. /\ Placed(t) /\ (InHandler(t) <=> InHandler(thread[c]))
        /\ InHandler(t) => Directory(t, store[Id(c)])
    BY UnderWay, <1>1, <1>4
    DEF Placed, MayBeAt, InHandler, Directory, At, Id, Op, Locked, Reads
  <1> QED BY <1>1, <1>3, <1>4, <1>5, QuietStep

LEMMA ReadConfigKeeps ==
  ASSUME Control, NEW c \in Conns, ReadConfig(c)
  PROVE  Control'
  <1>1. At(c, "file") /\ ~At(c, "none")
    BY DEF ReadConfig, At
  <1>2. CASE store[thread[c].file] = "full"
    <2> DEFINE t == [thread[c] EXCEPT !.file = NoId, !.found = @ \cup {thread[c].file}]
    <2>1. /\ thread' = [thread EXCEPT ![c] = t]
          /\ guest' \in [Ids -> Guest] /\ UNCHANGED <<link, lock, disk>>
      BY UnderWay, <1>1, <1>2, ServiceAssumption DEF ReadConfig, At, Control, TypeOK
    <2>4. thread[c].file \in Ids
      BY UnderWay, <1>1 DEF ReadConfig, Thread
    <2>2. t \in Thread /\ t.req = thread[c].req /\ t.at = "file"
      BY UnderWay, <1>1, <2>4 DEF Thread, At
    <2> HIDE DEF t
    <2>3. /\ Placed(t) /\ (InHandler(t) <=> InHandler(thread[c]))
          /\ InHandler(t) => Directory(t, store[Id(c)])
      BY UnderWay, <1>1, <1>2, <2>2
      DEF Placed, MayBeAt, InHandler, Directory, At, Id, Op, Locked, Reads
    <2> QED BY <1>1, <2>1, <2>2, <2>3, QuietStep
  <1>3. CASE store[thread[c].file] # "full"
    <2> DEFINE t == [thread[c] EXCEPT !.at = "answer", !.out = "error"]
    <2>1. /\ thread' = [thread EXCEPT ![c] = t]
          /\ guest' \in [Ids -> Guest] /\ UNCHANGED <<link, lock, disk>>
      BY UnderWay, <1>1, <1>3, ServiceAssumption DEF ReadConfig, Decide, Control, TypeOK
    <2>2. t \in Thread /\ t.req = thread[c].req /\ t.at = "answer" /\ t.out = "error"
      <3>1. thread[c] \in Thread
        BY UnderWay, <1>1
      <3>2. "answer" \in Places
        BY DEF Places
      <3> QED BY <3>1, <3>2 DEF Thread
    <2> HIDE DEF t
    <2>3. /\ Placed(t) /\ (InHandler(t) <=> InHandler(thread[c]))
          /\ InHandler(t) => Directory(t, store[Id(c)])
      BY UnderWay, <1>1, <1>3, <2>2
      DEF Placed, MayBeAt, InHandler, Directory, At, Id, Op, Locked, Reads
    <2> QED BY <1>1, <2>1, <2>2, <2>3, QuietStep
  <1> QED BY <1>2, <1>3

LEMMA LoadedKeeps ==
  ASSUME Control, NEW c \in Conns, Loaded(c)
  PROVE  Control'
  <1>1. At(c, "file") /\ ~At(c, "none")
    BY DEF Loaded, At
  <1>2. CASE Op(c) = "describe" /\ Id(c) \notin thread[c].found
    <2> DEFINE t == [thread[c] EXCEPT !.at = "answer", !.out = "error"]
    <2>1. /\ thread' = [thread EXCEPT ![c] = t]
          /\ guest' \in [Ids -> Guest] /\ UNCHANGED <<link, lock, disk>>
      BY UnderWay, <1>1, <1>2, ServiceAssumption DEF Loaded, Decide, Control, TypeOK
    <2>2. t \in Thread /\ t.req = thread[c].req /\ t.at = "answer" /\ t.out = "error"
      <3>1. thread[c] \in Thread
        BY UnderWay, <1>1
      <3>2. "answer" \in Places
        BY DEF Places
      <3> QED BY <3>1, <3>2 DEF Thread
    <2> HIDE DEF t
    <2>3. /\ Placed(t) /\ (InHandler(t) <=> InHandler(thread[c]))
          /\ InHandler(t) => Directory(t, store[Id(c)])
      BY UnderWay, <1>1, <1>2, <2>2
      DEF Placed, MayBeAt, InHandler, Directory, At, Id, Op, Locked, Reads
    <2> QED BY <1>1, <2>1, <2>2, <2>3, QuietStep
  <1>3. Op(c) = "describe" => Id(c) \in Ids
    BY UnderWay, <1>1, ServiceAssumption DEF Placed, Op, Id
  <1>4. CASE ~(Op(c) = "describe" /\ Id(c) \notin thread[c].found)
    <2> DEFINE t == [thread[c] EXCEPT !.at = "probe", !.todo = IF Op(c) = "list" THEN thread[c].found ELSE {Id(c)}]
    <2>1. /\ thread' = [thread EXCEPT ![c] = t]
          /\ guest' \in [Ids -> Guest] /\ UNCHANGED <<link, lock, disk>>
      BY UnderWay, <1>1, <1>4, ServiceAssumption DEF Loaded, At, Control, TypeOK
    <2>4. Op(c) \in {"list", "describe"}
      BY UnderWay, <1>1 DEF Placed, MayBeAt, At, Op, Locked, Reads
    <2>2. t \in Thread /\ t.req = thread[c].req /\ t.at = "probe"
      <3>1. (IF Op(c) = "list" THEN thread[c].found ELSE {Id(c)}) \in SUBSET Ids
        BY UnderWay, <1>1, <1>3, <2>4 DEF Thread
      <3>2. thread[c] \in Thread
        BY UnderWay, <1>1
      <3>3. "probe" \in Places
        BY DEF Places
      <3> QED BY <3>1, <3>2, <3>3 DEF Thread
    <2> HIDE DEF t
    <2>3. /\ Placed(t) /\ (InHandler(t) <=> InHandler(thread[c]))
          /\ InHandler(t) => Directory(t, store[Id(c)])
      BY UnderWay, <1>1, <1>4, <2>2
      DEF Placed, MayBeAt, InHandler, Directory, At, Id, Op, Locked, Reads
    <2> QED BY <1>1, <2>1, <2>2, <2>3, QuietStep
  <1> QED BY <1>2, <1>4

LEMMA CreateVolumesKeeps ==
  ASSUME Control, NEW c \in Conns, CreateVolumes(c)
  PROVE  Control'
  <1>1. At(c, "volumes") /\ ~At(c, "none")
    BY DEF CreateVolumes, At
  <1>2. CASE Decide(c, "release", "ok")
    <2> DEFINE t == [thread[c] EXCEPT !.at = "release", !.out = "ok"]
    <2>1. /\ thread' = [thread EXCEPT ![c] = t]
          /\ guest' \in [Ids -> Guest] /\ UNCHANGED <<link, lock, disk>>
      BY UnderWay, <1>1, <1>2, ServiceAssumption DEF CreateVolumes, Decide, Control, TypeOK
    <2>2. t \in Thread /\ t.req = thread[c].req /\ t.at = "release" /\ t.out = "ok"
      <3>1. thread[c] \in Thread
        BY UnderWay, <1>1
      <3>2. "release" \in Places
        BY DEF Places
      <3> QED BY <3>1, <3>2 DEF Thread
    <2> HIDE DEF t
    <2>3. /\ Placed(t) /\ (InHandler(t) <=> InHandler(thread[c]))
          /\ InHandler(t) => Directory(t, store[Id(c)])
      BY UnderWay, <1>1, <1>2, <2>2
      DEF Placed, MayBeAt, InHandler, Directory, At, Id, Op, Locked, Reads
    <2> QED BY <1>1, <2>1, <2>2, <2>3, QuietStep
  <1>3. CASE Goto(c, "unlink")
    <2> DEFINE t == [thread[c] EXCEPT !.at = "unlink"]
    <2>1. /\ thread' = [thread EXCEPT ![c] = t]
          /\ guest' \in [Ids -> Guest] /\ UNCHANGED <<link, lock, disk>>
      BY UnderWay, <1>1, <1>3, ServiceAssumption DEF CreateVolumes, Goto, Control, TypeOK
    <2>2. t \in Thread /\ t.req = thread[c].req /\ t.at = "unlink"
      BY UnderWay, <1>1 DEF Thread, Places
    <2> HIDE DEF t
    <2>3. /\ Placed(t) /\ (InHandler(t) <=> InHandler(thread[c]))
          /\ InHandler(t) => Directory(t, store[Id(c)])
      BY UnderWay, <1>1, <1>3, <2>2
      DEF Placed, MayBeAt, InHandler, Directory, At, Id, Op, Locked, Reads
    <2> QED BY <1>1, <2>1, <2>2, <2>3, QuietStep
  <1> QED BY <1>2, <1>3 DEF CreateVolumes

LEMMA BuildEndsKeeps ==
  ASSUME Control, NEW c \in Conns, BuildEnds(c)
  PROVE  Control'
  <1>1. At(c, "build") /\ ~At(c, "none")
    BY DEF BuildEnds, At
  <1>2. PICK out \in {"ok", "error"} : Decide(c, "answer", out)
    BY DEF BuildEnds
  <1> DEFINE t == [thread[c] EXCEPT !.at = "answer", !.out = out]
  <1>3. /\ thread' = [thread EXCEPT ![c] = t]
        /\ guest' \in [Ids -> Guest] /\ UNCHANGED <<link, lock, disk>>
    BY UnderWay, <1>1, <1>2 DEF BuildEnds, Decide, Control, TypeOK
  <1>4. t \in Thread /\ t.req = thread[c].req /\ t.at = "answer" /\ t.out = out
    <2>1. thread[c] \in Thread
      BY UnderWay, <1>1
    <2>2. "answer" \in Places
      BY DEF Places
    <2> QED BY <2>1, <2>2 DEF Thread
  <1> HIDE DEF t
  <1>5. /\ Placed(t) /\ (InHandler(t) <=> InHandler(thread[c]))
        /\ InHandler(t) => Directory(t, store[Id(c)])
    BY UnderWay, <1>1, <1>4
    DEF Placed, MayBeAt, InHandler, Directory, At, Id, Op, Locked, Reads
  <1> QED BY <1>1, <1>3, <1>4, <1>5, QuietStep

LEMMA KillAndReapKeeps ==
  ASSUME Control, NEW c \in Conns, KillAndReap(c)
  PROVE  Control'
  <1> DEFINE t == [thread[c] EXCEPT !.at = "release", !.out = "ok"]
  <1>1. At(c, "kill") /\ ~At(c, "none")
    BY DEF KillAndReap, At
  <1>2. /\ thread' = [thread EXCEPT ![c] = t]
        /\ guest' \in [Ids -> Guest] /\ UNCHANGED <<link, lock, disk>>
    BY UnderWay, <1>1, PoweredOffGuest DEF KillAndReap, Decide, Control, TypeOK
  <1>3. t \in Thread /\ t.req = thread[c].req /\ t.at = "release" /\ t.out = "ok"
    <2>1. thread[c] \in Thread
      BY UnderWay, <1>1
    <2>2. "release" \in Places
      BY DEF Places
    <2> QED BY <2>1, <2>2 DEF Thread
  <1> HIDE DEF t
  <1>4. /\ Placed(t) /\ (InHandler(t) <=> InHandler(thread[c]))
        /\ InHandler(t) => Directory(t, store[Id(c)])
    BY UnderWay, <1>1, <1>3
    DEF Placed, MayBeAt, InHandler, Directory, At, Id, Op, Locked, Reads
  <1> QED BY <1>1, <1>2, <1>3, <1>4, QuietStep

\* The thread that has sent a frame to the agent of i.
Waiting(c, i, cmd) ==
  [thread[c] EXCEPT !.at = "wait", !.cmd = cmd, !.target = i, !.todo = @ \ {i}]

LEMMA CallWaits ==
  ASSUME Control, NEW c \in Conns, ~At(c, "none"), NEW i \in Ids,
         NEW cmd \in Commands, Call(c, i, cmd), MayBeAt(Op(c), "wait"),
         MayCall(Op(c), cmd), Op(c) \in Locked => i = Id(c)
  PROVE  /\ Waiting(c, i, cmd) \in Thread
         /\ Waiting(c, i, cmd).req = thread[c].req
         /\ Waiting(c, i, cmd).at = "wait"
         /\ Placed(Waiting(c, i, cmd))
         /\ thread' = [thread EXCEPT ![c] = Waiting(c, i, cmd)]
         /\ guest' \in [Ids -> Guest]
  <1> DEFINE t == Waiting(c, i, cmd)
  <1>1. /\ t \in Thread /\ t.req = thread[c].req /\ t.at = "wait"
        /\ t.cmd = cmd /\ t.target = i
    <2>1. thread[c] \in Thread
      BY UnderWay
    <2> QED BY <2>1 DEF Thread, Places, Waiting
  <1>2. thread' = [thread EXCEPT ![c] = t]
    BY UnderWay DEF Call, Waiting
  <1>3. guest' \in [Ids -> Guest]
    BY SendGuest DEF Call, Control, TypeOK
  <1> HIDE DEF t
  <1>4. Placed(t)
    BY UnderWay, <1>1 DEF Placed, Op, Id
  <1> QED BY <1>1, <1>2, <1>3, <1>4 DEF t

LEMMA CallAgentKeeps ==
  ASSUME Control, NEW c \in Conns, CallAgent(c)
  PROVE  Control'
  <1>1. thread[c].at \in {"health", "exec-app"} /\ ~At(c, "none")
    BY DEF CallAgent, At
  <1>2. Op(c) = "start" /\ Id(c) \in Ids
    BY UnderWay, <1>1 DEF Placed, MayBeAt, Op, Locked, Reads
  <1>3. thread[c].at \in Commands /\ MayCall(Op(c), thread[c].at) /\ MayBeAt(Op(c), "wait")
    BY <1>1, <1>2 DEF Commands, MayCall, MayBeAt
  <1> DEFINE t == Waiting(c, Id(c), thread[c].at)
  <1>4. /\ t \in Thread /\ t.req = thread[c].req /\ t.at = "wait" /\ Placed(t)
        /\ thread' = [thread EXCEPT ![c] = t] /\ guest' \in [Ids -> Guest]
    BY <1>1, <1>2, <1>3, CallWaits DEF CallAgent
  <1>5. UNCHANGED <<link, lock, disk>>
    BY DEF CallAgent
  <1> HIDE DEF t
  <1>6. /\ InHandler(t) <=> InHandler(thread[c])
        /\ InHandler(t) => Directory(t, store[Id(c)])
    BY UnderWay, <1>1, <1>2, <1>4 DEF InHandler, Directory, Op, Id, Locked
  <1> QED BY <1>1, <1>4, <1>5, <1>6, QuietStep

LEMMA ProbeKeeps ==
  ASSUME Control, NEW c \in Conns, Probe(c)
  PROVE  Control'
  <1>1. At(c, "probe") /\ ~At(c, "none") /\ thread[c].todo # {} /\ UNCHANGED <<link, lock, disk>>
    BY DEF Probe, At
  <1> DEFINE i == CHOOSE i \in thread[c].todo : TRUE
  <1>2. i \in thread[c].todo /\ i \in Ids
    BY UnderWay, <1>1 DEF Thread
  <1>3. IF guest[i].up THEN Call(c, i, "health")
        ELSE thread' = [thread EXCEPT ![c].todo = @ \ {i}] /\ UNCHANGED guest
    BY DEF Probe
  <1> HIDE DEF i
  <1>4. Op(c) \in Reads /\ Op(c) \notin Locked
    BY UnderWay, <1>1 DEF Placed, MayBeAt, At, Op, Locked, Reads
  <1>5. CASE guest[i].up
    <2> DEFINE t == Waiting(c, i, "health")
    <2>1. MayBeAt(Op(c), "wait") /\ MayCall(Op(c), "health") /\ "health" \in Commands
      BY <1>4 DEF MayBeAt, MayCall, Commands
    <2>2. /\ t \in Thread /\ t.req = thread[c].req /\ t.at = "wait" /\ Placed(t)
          /\ thread' = [thread EXCEPT ![c] = t] /\ guest' \in [Ids -> Guest]
      BY <1>1, <1>2, <1>3, <1>4, <1>5, <2>1, CallWaits
    <2> HIDE DEF t
    <2>3. ~InHandler(t) /\ ~InHandler(thread[c])
      BY <1>4, <2>2 DEF InHandler, Op
    <2> QED BY <1>1, <2>2, <2>3, QuietStep
  <1>6. CASE ~guest[i].up
    <2> DEFINE t == [thread[c] EXCEPT !.todo = @ \ {i}]
    <2>1. /\ thread' = [thread EXCEPT ![c] = t] /\ guest' \in [Ids -> Guest]
      BY <1>1, <1>3, <1>6, UnderWay DEF Control, TypeOK
    <2>2. t \in Thread /\ t.req = thread[c].req /\ t.at = "probe"
      BY UnderWay, <1>1 DEF Thread, At
    <2> HIDE DEF t
    <2>3. Placed(t) /\ ~InHandler(t) /\ ~InHandler(thread[c])
      BY UnderWay, <1>1, <1>4, <2>2 DEF InHandler, Op, Placed, MayBeAt
    <2> QED BY <1>1, <2>1, <2>2, <2>3, QuietStep
  <1> QED BY <1>5, <1>6

\* A call that has ended takes the handler where Returns says.
LEMMA ReturnKeeps ==
  ASSUME Control, NEW c \in Conns, At(c, "wait"), NEW t, Returns(thread[c], t),
         thread' = [thread EXCEPT ![c] = t],
         guest' \in [Ids -> Guest], UNCHANGED <<link, lock, disk>>
  PROVE  Control'
  <1>1. ~At(c, "none")
    BY DEF At
  <1>2. t \in Thread /\ t.req = thread[c].req
    BY DEF Returns
  <1>3. Placed(t) /\ (InHandler(t) <=> InHandler(thread[c]))
    BY UnderWay, <1>1, <1>2 DEF Returns, Placed, MayBeAt, InHandler, At, Locked, Reads
  <1>4. InHandler(t) => Directory(t, store[Id(c)])
    BY UnderWay, <1>1, <1>2, <1>3 DEF Returns, InHandler, Directory, At, Locked, Reads
  <1> QED BY <1>1, <1>2, <1>3, <1>4, QuietStep

LEMMA TakeReplyKeeps ==
  ASSUME Control, NEW c \in Conns, TakeReply(c)
  PROVE  Control'
  <1>1. At(c, "wait") /\ ~At(c, "none") /\ UNCHANGED <<link, lock, disk, guest>>
    BY DEF TakeReply, At
  <1>2. PICK t \in AfterCall(c, thread[c].reply) : thread' = [thread EXCEPT ![c] = t]
    BY DEF TakeReply
  <1>3. Returns(thread[c], t)
    BY <1>1, UnderWay, AfterCallReturns
  <1>4. guest' \in [Ids -> Guest]
    BY <1>1 DEF Control, TypeOK
  <1> QED BY <1>1, <1>2, <1>3, <1>4, ReturnKeeps

LEMMA CallFailsKeeps ==
  ASSUME Control, NEW c \in Conns, CallFails(c)
  PROVE  Control'
  <1>1. At(c, "wait") /\ ~At(c, "none") /\ UNCHANGED <<link, lock, disk>>
    BY DEF CallFails, At
  <1>2. PICK t \in AfterCall(c, "none") : thread' = [thread EXCEPT ![c] = t]
    BY DEF CallFails
  <1>3. Returns(thread[c], t)
    BY <1>1, UnderWay, AfterCallReturns
  <1>4. guest' \in [Ids -> Guest]
    BY AbandonGuest DEF CallFails, Control, TypeOK
  <1> QED BY <1>1, <1>2, <1>3, <1>4, ReturnKeeps

LEMMA RefuseKeeps ==
  ASSUME Control, NEW c \in Conns, NEW op, NEW allowed, Refuse(c, op, allowed)
  PROVE  Control'
  <1> DEFINE t == [thread[c] EXCEPT !.at = "release", !.out = "error"]
  <1>1. At(c, "lock") /\ ~At(c, "none") /\ Acquire(c) /\ UNCHANGED <<link, disk, guest>>
    BY DEF Refuse, At
  <1>2. thread' = [thread EXCEPT ![c] = t] /\ guest' \in [Ids -> Guest]
    BY UnderWay, <1>1 DEF Refuse, Decide, Control, TypeOK
  <1>3. t \in Thread /\ t.req = thread[c].req /\ t.at = "release" /\ t.out = "error"
    <2>1. thread[c] \in Thread
      BY UnderWay, <1>1
    <2>2. "release" \in Places
      BY DEF Places
    <2> QED BY <2>1, <2>2 DEF Thread
  <1> HIDE DEF t
  <1>4. Placed(t) /\ InHandler(t) /\ Directory(t, store[Id(c)])
    BY UnderWay, <1>1, <1>3
    DEF Placed, MayBeAt, InHandler, Directory, At, Id, Op, Locked, Reads
  <1> QED BY <1>1, <1>2, <1>3, <1>4, AcquireStep

\* A step of a handler that has the lock, or takes it, and writes dir as the
\* state of its directory.
LEMMA StoreStep ==
  ASSUME Control, NEW c \in Conns, ~At(c, "none"), Op(c) \in {"create", "destroy"},
         NEW t \in Thread, t.req = thread[c].req, Placed(t), InHandler(t),
         NEW dir \in {"absent", "bare", "full"}, Directory(t, dir),
         thread' = [thread EXCEPT ![c] = t],
         store' = [store EXCEPT ![Id(c)] = dir],
         lock' = c, lock \in {c, Nobody}, UNCHANGED <<link, guest>>,
         seen' \in [Conns -> [always : SUBSET Ids, ever : SUBSET Ids]]
  PROVE  Control'
  <1>1. Id(c) \in Ids /\ Id(c) = t.req.id /\ store \in [Ids -> {"absent", "bare", "full"}]
    BY UnderWay DEF Locked, Id, Control, TypeOK
  <1>2. /\ store' \in [Ids -> {"absent", "bare", "full"}] /\ store'[t.req.id] = dir
        /\ \A i \in Ids : store'[i] # store[i] => i = t.req.id
    BY <1>1
  <1>3. client' = client /\ wire' = wire /\ guest' \in [Ids -> Guest]
    BY DEF link, Control, TypeOK
  <1> QED BY <1>1, <1>2, <1>3, ThreadStep

LEMMA CreateKeeps ==
  ASSUME Control, NEW c \in Conns, Create(c)
  PROVE  Control'
  <1>1. CASE Refuse(c, "create", Id(c) \notin Stored)
    BY <1>1, RefuseKeeps
  <1>2. CASE /\ At(c, "lock") /\ Op(c) = "create" /\ Id(c) \notin Stored
             /\ Acquire(c)
             /\ store' = [store EXCEPT ![Id(c)] = "bare"]
             /\ Goto(c, "config")
             /\ UNCHANGED <<link, guest, seen>>
    <2> DEFINE t == [thread[c] EXCEPT !.at = "config"]
    <2>1. ~At(c, "none") /\ lock' = c /\ lock = Nobody
      BY <1>2 DEF At, Acquire
    <2>2. /\ thread' = [thread EXCEPT ![c] = t]
          /\ seen' \in [Conns -> [always : SUBSET Ids, ever : SUBSET Ids]]
      BY UnderWay, <1>2, <2>1 DEF Goto, Control, TypeOK
    <2>3. t \in Thread /\ t.req = thread[c].req /\ t.at = "config"
      BY UnderWay, <2>1 DEF Thread, Places
    <2> HIDE DEF t
    <2>4. Placed(t) /\ InHandler(t) /\ Directory(t, "bare")
      BY UnderWay, <1>2, <2>1, <2>3
      DEF Placed, MayBeAt, InHandler, Directory, At, Id, Op, Locked, Reads
    <2> QED BY <1>2, <2>1, <2>2, <2>3, <2>4, StoreStep
  <1> QED BY <1>1, <1>2 DEF Create

\* Witness keeps the type of what readers could have seen.
LEMMA WitnessType ==
  ASSUME seen \in [Conns -> [always : SUBSET Ids, ever : SUBSET Ids]],
         NEW now \in SUBSET Ids, Witness(now)
  PROVE  seen' \in [Conns -> [always : SUBSET Ids, ever : SUBSET Ids]]
  BY DEF Witness

LEMMA WriteConfigKeeps ==
  ASSUME Control, NEW c \in Conns, WriteConfig(c)
  PROVE  Control'
  <1> DEFINE t == [thread[c] EXCEPT !.at = "volumes"]
  <1>1. At(c, "config") /\ ~At(c, "none")
    BY DEF WriteConfig, At
  <1>2. Op(c) = "create" /\ Id(c) \in Ids /\ lock = c
    BY UnderWay, <1>1 DEF Placed, MayBeAt, InHandler, At, Op, Locked, Reads
  <1>3. seen' \in [Conns -> [always : SUBSET Ids, ever : SUBSET Ids]]
    <2>1. Stored \cup {Id(c)} \in SUBSET Ids
      BY <1>2 DEF Stored
    <2> QED BY <2>1, WitnessType DEF WriteConfig, Control, TypeOK
  <1>4. thread' = [thread EXCEPT ![c] = t] /\ lock' = c
    BY UnderWay, <1>1, <1>2 DEF WriteConfig, Goto
  <1>5. t \in Thread /\ t.req = thread[c].req /\ t.at = "volumes"
    BY UnderWay, <1>1 DEF Thread, Places
  <1> HIDE DEF t
  <1>6. Placed(t) /\ InHandler(t) /\ Directory(t, "full")
    BY UnderWay, <1>1, <1>2, <1>5
    DEF Placed, MayBeAt, InHandler, Directory, At, Id, Op, Locked, Reads
  <1>7. store' = [store EXCEPT ![Id(c)] = "full"] /\ UNCHANGED <<link, guest>>
    BY DEF WriteConfig
  <1> QED BY <1>1, <1>2, <1>3, <1>4, <1>5, <1>6, <1>7, StoreStep

LEMMA UnlinkConfigKeeps ==
  ASSUME Control, NEW c \in Conns, UnlinkConfig(c)
  PROVE  Control'
  <1> DEFINE t == [thread[c] EXCEPT !.at = "rmdir"]
  <1>1. At(c, "unlink") /\ ~At(c, "none")
    BY DEF UnlinkConfig, At
  <1>2. Op(c) \in {"create", "destroy"} /\ Id(c) \in Ids /\ lock = c
    BY UnderWay, <1>1 DEF Placed, MayBeAt, InHandler, At, Op, Locked, Reads
  <1>3. seen' \in [Conns -> [always : SUBSET Ids, ever : SUBSET Ids]]
    <2>1. Stored \ {Id(c)} \in SUBSET Ids
      BY DEF Stored
    <2> QED BY <2>1, WitnessType DEF UnlinkConfig, Control, TypeOK
  <1>4. thread' = [thread EXCEPT ![c] = t] /\ lock' = c
    BY UnderWay, <1>1, <1>2 DEF UnlinkConfig, Goto
  <1>5. t \in Thread /\ t.req = thread[c].req /\ t.at = "rmdir"
    BY UnderWay, <1>1 DEF Thread, Places
  <1> HIDE DEF t
  <1>6. Placed(t) /\ InHandler(t) /\ Directory(t, "bare")
    BY UnderWay, <1>1, <1>2, <1>5
    DEF Placed, MayBeAt, InHandler, Directory, At, Id, Op, Locked, Reads
  <1>7. store' = [store EXCEPT ![Id(c)] = "bare"] /\ UNCHANGED <<link, guest>>
    BY DEF UnlinkConfig
  <1> QED BY <1>1, <1>2, <1>3, <1>4, <1>5, <1>6, <1>7, StoreStep

LEMMA RemoveDirKeeps ==
  ASSUME Control, NEW c \in Conns, RemoveDir(c)
  PROVE  Control'
  <1>1. At(c, "rmdir") /\ ~At(c, "none")
    BY DEF RemoveDir, At
  <1>2. Op(c) \in {"create", "destroy"} /\ Id(c) \in Ids /\ lock = c
    BY UnderWay, <1>1 DEF Placed, MayBeAt, InHandler, At, Op, Locked, Reads
  <1>3. PICK out \in {"ok", "error"} :
          Decide(c, "release", out) /\ (Op(c) = "create" => out = "error")
    BY DEF RemoveDir
  <1> DEFINE t == [thread[c] EXCEPT !.at = "release", !.out = out]
  <1>4. thread' = [thread EXCEPT ![c] = t] /\ lock' = c
    BY UnderWay, <1>1, <1>2, <1>3 DEF RemoveDir, Decide
  <1>5. t \in Thread /\ t.req = thread[c].req /\ t.at = "release" /\ t.out = out
    <2>1. thread[c] \in Thread
      BY UnderWay, <1>1
    <2>2. "release" \in Places
      BY DEF Places
    <2> QED BY <2>1, <2>2 DEF Thread
  <1> HIDE DEF t
  <1>6. Placed(t) /\ InHandler(t) /\ Directory(t, "absent")
    BY UnderWay, <1>1, <1>2, <1>3, <1>5
    DEF Placed, MayBeAt, InHandler, Directory, At, Id, Op, Locked, Reads
  <1>7. /\ store' = [store EXCEPT ![Id(c)] = "absent"] /\ UNCHANGED <<link, guest>>
        /\ seen' \in [Conns -> [always : SUBSET Ids, ever : SUBSET Ids]]
    BY DEF RemoveDir, Control, TypeOK
  <1> QED BY <1>1, <1>2, <1>4, <1>5, <1>6, <1>7, StoreStep

LEMMA DestroyKeeps ==
  ASSUME Control, NEW c \in Conns, Destroy(c)
  PROVE  Control'
  <1>1. CASE Refuse(c, "destroy", Id(c) \in Stored /\ ~guest[Id(c)].up)
    BY <1>1, RefuseKeeps
  <1>2. CASE /\ At(c, "lock") /\ Op(c) = "destroy" /\ Id(c) \in Stored /\ ~guest[Id(c)].up
             /\ Acquire(c)
             /\ Goto(c, "unlink")
             /\ UNCHANGED <<link, disk, guest>>
    <2> DEFINE t == [thread[c] EXCEPT !.at = "unlink"]
    <2>1. ~At(c, "none")
      BY <1>2 DEF At
    <2>2. thread' = [thread EXCEPT ![c] = t] /\ guest' \in [Ids -> Guest]
      BY UnderWay, <1>2, <2>1 DEF Goto, Control, TypeOK
    <2>3. t \in Thread /\ t.req = thread[c].req /\ t.at = "unlink"
      BY UnderWay, <2>1 DEF Thread, Places
    <2> HIDE DEF t
    <2>4. Placed(t) /\ InHandler(t) /\ Directory(t, store[Id(c)])
      BY UnderWay, <1>2, <2>1, <2>3
      DEF Placed, MayBeAt, InHandler, Directory, At, Id, Op, Locked, Reads, Stored
    <2> QED BY <1>2, <2>2, <2>3, <2>4, AcquireStep
  <1> QED BY <1>1, <1>2 DEF Destroy

LEMMA StartKeeps ==
  ASSUME Control, NEW c \in Conns, Start(c)
  PROVE  Control'
  <1>1. CASE Refuse(c, "start", Id(c) \in Stored /\ ~guest[Id(c)].up)
    BY <1>1, RefuseKeeps
  <1>2. ASSUME At(c, "lock"), Op(c) = "start", Id(c) \in Stored, Acquire(c),
               UNCHANGED <<link, disk>>,
               guest' = [guest EXCEPT ![Id(c)] = Booted(Id(c) \in Volumes)],
               Goto(c, "health")
        PROVE  Control'
    <2> DEFINE t == [thread[c] EXCEPT !.at = "health"]
    <2>1. ~At(c, "none")
      BY <1>2 DEF At
    <2>2. thread' = [thread EXCEPT ![c] = t]
      BY UnderWay, <1>2, <2>1 DEF Goto
    <2>3. guest' \in [Ids -> Guest]
      <3>1. (Id(c) \in Volumes) \in BOOLEAN
        OBVIOUS
      <3>2. Booted(Id(c) \in Volumes) \in Guest
        BY <3>1, BootedGuest
      <3> QED BY <1>2, <3>2 DEF Control, TypeOK
    <2>4. t \in Thread /\ t.req = thread[c].req /\ t.at = "health"
      BY UnderWay, <2>1 DEF Thread, Places
    <2> HIDE DEF t
    <2>5. Placed(t) /\ InHandler(t) /\ Directory(t, store[Id(c)])
      BY UnderWay, <1>2, <2>1, <2>4
      DEF Placed, MayBeAt, InHandler, Directory, At, Id, Op, Locked, Reads, Stored
    <2> QED BY <1>2, <2>2, <2>3, <2>4, <2>5, AcquireStep
  <1>3. ASSUME At(c, "lock"), Op(c) = "start", Acquire(c),
               UNCHANGED <<link, disk>>, UNCHANGED guest,
               Decide(c, "release", "error")
        PROVE  Control'
    <2> DEFINE t == [thread[c] EXCEPT !.at = "release", !.out = "error"]
    <2>1. ~At(c, "none")
      BY <1>3 DEF At
    <2>2. thread' = [thread EXCEPT ![c] = t] /\ guest' \in [Ids -> Guest]
      BY UnderWay, <1>3, <2>1 DEF Decide, Control, TypeOK
    <2>3. t \in Thread /\ t.req = thread[c].req /\ t.at = "release" /\ t.out = "error"
      <3>1. thread[c] \in Thread
        BY UnderWay, <2>1
      <3>2. "release" \in Places
        BY DEF Places
      <3> QED BY <3>1, <3>2 DEF Thread
    <2> HIDE DEF t
    <2>4. Placed(t) /\ InHandler(t) /\ Directory(t, store[Id(c)])
      BY UnderWay, <1>3, <2>1, <2>3
      DEF Placed, MayBeAt, InHandler, Directory, At, Id, Op, Locked, Reads
    <2> QED BY <1>3, <2>2, <2>3, <2>4, AcquireStep
  <1> QED BY <1>1, <1>2, <1>3 DEF Start

\* stop and open-window: the lock is taken and the agent of the space called.
LEMMA AcquireAndCall ==
  ASSUME Control, NEW c \in Conns, At(c, "lock"), Id(c) \in Stored, Acquire(c),
         NEW cmd \in Commands, Call(c, Id(c), cmd), MayCall(Op(c), cmd),
         Op(c) \in {"stop", "open-window"}, UNCHANGED <<link, disk>>
  PROVE  Control'
  <1> DEFINE t == Waiting(c, Id(c), cmd)
  <1>1. ~At(c, "none") /\ Id(c) \in Ids /\ store[Id(c)] = "full" /\ MayBeAt(Op(c), "wait")
    BY DEF At, Stored, MayBeAt
  <1>2. /\ t \in Thread /\ t.req = thread[c].req /\ t.at = "wait" /\ Placed(t)
        /\ thread' = [thread EXCEPT ![c] = t] /\ guest' \in [Ids -> Guest]
    BY <1>1, CallWaits
  <1> HIDE DEF t
  <1>3. InHandler(t) /\ Directory(t, store[Id(c)])
    BY <1>1, <1>2 DEF InHandler, Directory, Op, Id, Locked
  <1> QED BY <1>2, <1>3, AcquireStep

LEMMA StopKeeps ==
  ASSUME Control, NEW c \in Conns, Stop(c)
  PROVE  Control'
  <1>1. CASE Refuse(c, "stop", Id(c) \in Stored /\ guest[Id(c)].up)
    BY <1>1, RefuseKeeps
  <1>2. CASE /\ At(c, "lock") /\ Op(c) = "stop" /\ Id(c) \in Stored /\ guest[Id(c)].up
             /\ Acquire(c)
             /\ Call(c, Id(c), "shutdown")
             /\ UNCHANGED <<link, disk>>
    BY <1>2, AcquireAndCall DEF MayCall, Commands
  <1> QED BY <1>1, <1>2 DEF Stop

LEMMA OpenWindowKeeps ==
  ASSUME Control, NEW c \in Conns, OpenWindow(c)
  PROVE  Control'
  <1>1. CASE Refuse(c, "open-window", Id(c) \in Stored /\ guest[Id(c)].up)
    BY <1>1, RefuseKeeps
  <1>2. CASE /\ At(c, "lock") /\ Op(c) = "open-window" /\ Id(c) \in Stored /\ guest[Id(c)].up
             /\ Acquire(c)
             /\ Call(c, Id(c), "exec-app")
             /\ UNCHANGED <<link, disk>>
    BY <1>2, AcquireAndCall DEF MayCall, Commands
  <1> QED BY <1>1, <1>2 DEF OpenWindow

LEMMA ReleaseKeeps ==
  ASSUME Control, NEW c \in Conns, Release(c)
  PROVE  Control'
  <1> DEFINE t == [thread[c] EXCEPT !.at = "answer"]
  <1>1. At(c, "release") /\ ~At(c, "none")
    BY DEF Release, At
  <1>2. thread' = [thread EXCEPT ![c] = t] /\ guest' \in [Ids -> Guest]
    BY UnderWay, <1>1 DEF Release, Goto, Control, TypeOK
  <1>3. t \in Thread /\ t.req = thread[c].req /\ t.at = "answer" /\ t.out = thread[c].out
    BY UnderWay, <1>1 DEF Thread, Places
  <1> HIDE DEF t
  <1>4. Placed(t) /\ ~InHandler(t) /\ lock = c
    BY UnderWay, <1>1, <1>3
    DEF Placed, MayBeAt, InHandler, Directory, At, Id, Op, Locked, Reads
  <1>5. /\ lock' = Nobody /\ client' = client /\ wire' = wire /\ store' = store
        /\ store' \in [Ids -> {"absent", "bare", "full"}]
        /\ seen' \in [Conns -> [always : SUBSET Ids, ever : SUBSET Ids]]
    BY DEF Release, link, disk, Control, TypeOK
  <1> QED BY <1>1, <1>2, <1>3, <1>4, <1>5, ThreadStep

LEMMA FrameInBuffer == ASSUME NEW f \in Frames PROVE <<f>> \in Buffer
  BY DEF Buffer

LEMMA ProgressKeeps ==
  ASSUME Control, NEW c \in Conns, Progress(c)
  PROVE  Control'
  <1> DEFINE t == [thread[c] EXCEPT !.lines = @ + 1,
                     !.at = IF Op(c) = "start" THEN "health" ELSE "build"]
  <1>1. At(c, "progress") /\ ~At(c, "none")
    BY DEF Progress, At
  <1>2. thread' = [thread EXCEPT ![c] = t] /\ guest' \in [Ids -> Guest]
    BY UnderWay, <1>1 DEF Progress, Control, TypeOK
  <1>3. thread[c].lines \in 0..MaxLines /\ thread[c].lines < MaxLines
        /\ Op(c) \in {"start", "build"}
    BY UnderWay, <1>1 DEF Placed, MayBeAt, At, Op, Thread, Locked, Reads
  <1>4. thread[c].lines + 1 \in 0..MaxLines
    BY <1>3, ServiceAssumption
  <1>5. t \in Thread /\ t.req = thread[c].req
        /\ t.at = IF Op(c) = "start" THEN "health" ELSE "build"
    <2>1. thread[c] \in Thread
      BY UnderWay, <1>1
    <2>2. (IF Op(c) = "start" THEN "health" ELSE "build") \in Places
      BY DEF Places
    <2> QED BY <1>4, <2>1, <2>2 DEF Thread
  <1> HIDE DEF t
  <1>6. /\ Placed(t) /\ (InHandler(t) <=> InHandler(thread[c]))
        /\ InHandler(t) => Directory(t, store[Id(c)])
    BY UnderWay, <1>1, <1>3, <1>5
    DEF Placed, MayBeAt, InHandler, Directory, At, Id, Op, Locked, Reads
  <1>7. /\ lock' = lock /\ client' = client /\ store' = store
        /\ store' \in [Ids -> {"absent", "bare", "full"}]
        /\ seen' \in [Conns -> [always : SUBSET Ids, ever : SUBSET Ids]]
    BY DEF Progress, disk, Control, TypeOK
  <1>8. \/ wire' = wire
        \/ /\ client[c] = "waiting"
           /\ \E b \in Buffer \ {<<"ok">>, <<"error">>} : wire' = [wire EXCEPT ![c] = b]
    <2>1. "progress" \in Frames /\ <<"progress">> \notin {<<"ok">>, <<"error">>}
      BY DEF Frames
    <2>2. <<"progress">> \in Buffer
      BY <2>1, FrameInBuffer
    <2> QED BY <2>1, <2>2 DEF Progress, Write
  <1>9. lock = c <=> InHandler(thread[c])
    BY UnderWay, <1>1
  <1> QED BY <1>1, <1>2, <1>5, <1>6, <1>7, <1>8, <1>9, ThreadStep DEF Id

LEMMA NoThreadType ==
  NoThread \in Thread /\ NoThread.at = "none" /\ NoThread.req = NoRequest
  BY ServiceAssumption DEF NoThread, Thread, Places

\* A thread ends: it drops the lock if it has it, a client that has left is
\* gone.
LEMMA CloseStep ==
  ASSUME Control, NEW c \in Conns, ~At(c, "none"), Close(c),
         lock' = IF lock = c THEN Nobody ELSE lock,
         \/ wire' = wire
         \/ client[c] = "waiting" /\ \E b \in Buffer : wire' = [wire EXCEPT ![c] = b],
         store' = store, guest' \in [Ids -> Guest]
  PROVE  Control'
  <1> USE DEF Control
  <1>1. NoThread \in Thread /\ NoThread.at = "none" /\ NoThread.req = NoRequest
    BY NoThreadType
  <1>2. /\ thread' \in [Conns -> Thread] /\ thread'[c].at = "none"
        /\ thread'[c].req = NoRequest /\ \A d \in Conns \ {c} : thread'[d] = thread[d]
    BY <1>1 DEF Close, TypeOK
  <1>3. lock' \in Conns \cup {Nobody} /\ Nobody \notin Conns
    BY AgentAssumption DEF TypeOK, Conns
  <1>4. /\ wire' \in [Conns -> Buffer] /\ \A d \in Conns \ {c} : wire'[d] = wire[d]
        /\ client[c] = "left" => wire'[c] = wire[c]
    BY DEF TypeOK
  <1>5. /\ client' \in [Conns -> {"idle", "waiting", "left"}]
        /\ client[c] # "idle"
        /\ client'[c] = IF client[c] = "left" THEN "idle" ELSE "waiting"
        /\ \A d \in Conns \ {c} : client'[d] = client[d]
    BY UnderWay DEF Close, Hangup, TypeOK
  <1>6. seen' \in [Conns -> [always : SUBSET Ids, ever : SUBSET Ids]]
    BY DEF Close, NotSeen, TypeOK
  <1>7. TypeOK'
    BY <1>2, <1>3, <1>4, <1>5, <1>6 DEF TypeOK
  <1>8. PlaceInvariant'
    BY <1>2 DEF PlaceInvariant, At
  <1>9. LockInvariant'
    BY <1>2, <1>3 DEF LockInvariant, InHandler
  <1>10. SocketInvariant'
    BY <1>2, <1>4, <1>5 DEF SocketInvariant, At
  <1>11. StoreInvariant'
    BY <1>2 DEF StoreInvariant, InHandler, Id
  <1> QED BY <1>7, <1>8, <1>9, <1>10, <1>11

LEMMA AnswerKeeps ==
  ASSUME Control, NEW c \in Conns, Answer(c)
  PROVE  Control'
  <1>1. At(c, "answer") /\ ~At(c, "none") /\ Close(c) /\ UNCHANGED <<lock, store, guest>>
    BY DEF Answer, At
  <1>2. lock # c /\ thread[c].out \in Frames
    BY <1>1, UnderWay DEF InHandler, At, Placed, Thread, Frames
  <1>3. <<thread[c].out>> \in Buffer
    BY <1>2, FrameInBuffer
  <1>4. \/ wire' = wire
        \/ client[c] = "waiting" /\ \E b \in Buffer : wire' = [wire EXCEPT ![c] = b]
    BY <1>3 DEF Answer, Write
  <1>5. guest' \in [Ids -> Guest]
    BY <1>1 DEF Control, TypeOK
  <1> QED BY <1>1, <1>2, <1>4, <1>5, CloseStep

LEMMA PanicKeeps ==
  ASSUME Control, NEW c \in Conns, Panic(c)
  PROVE  Control'
  <1>1. ~At(c, "none")
    BY ServiceAssumption DEF Panic, At
  <1>2. guest' \in [Ids -> Guest]
    BY AbandonGuest DEF Panic, Control, TypeOK
  <1> QED BY <1>1, <1>2, CloseStep DEF Panic

LEMMA AskKeeps ==
  ASSUME Control, NEW c \in Conns, NEW req \in Requests, Ask(c, req)
  PROVE  Control'
  <1> USE DEF Control
  <1> DEFINE t == [NoThread EXCEPT !.req = req, !.at = Dispatch(req)]
  <1>1. /\ t \in Thread /\ t.req = req /\ t.at = Dispatch(req)
    BY DispatchPlaces, NoThreadType DEF Thread
  <1>2. client[c] = "idle" /\ At(c, "none") /\ wire[c] = <<>>
    BY DEF Ask, SocketInvariant
  <1>3. /\ thread' \in [Conns -> Thread] /\ thread'[c] = t
        /\ \A d \in Conns \ {c} : thread'[d] = thread[d]
    BY <1>1 DEF Ask, TypeOK
  <1>4. /\ client' \in [Conns -> {"idle", "waiting", "left"}] /\ client'[c] = "waiting"
        /\ \A d \in Conns \ {c} : client'[d] = client[d]
    BY DEF Ask, TypeOK
  <1>5. seen' \in [Conns -> [always : SUBSET Ids, ever : SUBSET Ids]]
    BY DEF Ask, NotSeen, TypeOK, Stored
  <1> HIDE DEF t
  <1>6. TypeOK'
    BY <1>3, <1>4, <1>5 DEF TypeOK, Ask
  <1>7. ~InHandler(thread[c]) /\ ~InHandler(t) /\ Placed(t) /\ t.at # "none"
    BY <1>1, <1>2, DispatchPlaces DEF InHandler, At, Placed
  <1>8. PlaceInvariant'
    BY <1>3, <1>7 DEF PlaceInvariant, At
  <1>9. LockInvariant'
    BY <1>3, <1>7 DEF LockInvariant, Ask
  <1>10. SocketInvariant'
    BY <1>2, <1>3, <1>4, <1>7 DEF SocketInvariant, At, Ask
  <1>11. StoreInvariant'
    BY <1>3, <1>7 DEF StoreInvariant, Id, Ask
  <1> QED BY <1>6, <1>8, <1>9, <1>10, <1>11

\* What a client reads is the one frame of the socket.
LEMMA BufferHolds ==
  ASSUME NEW b \in Buffer, b # <<>>
  PROVE  /\ Head(b) \in Frames /\ b = <<Head(b)>> /\ Tail(b) = <<>>
         /\ Head(b) # "progress" <=> b \in {<<"ok">>, <<"error">>}
  <1>1. PICK f \in Frames : b = <<f>>
    BY DEF Buffer
  <1> QED BY <1>1 DEF Frames

LEMMA ReadFrameKeeps ==
  ASSUME Control, NEW c \in Conns, ReadFrame(c)
  PROVE  Control'
  <1> USE DEF Control
  <1>1. /\ client[c] = "waiting" /\ wire[c] # <<>> /\ wire[c] \in Buffer
        /\ UNCHANGED <<thread, lock, store, guest, seen>>
    BY DEF ReadFrame, TypeOK
  <1>2. /\ wire' = [wire EXCEPT ![c] = <<>>]
        /\ Head(wire[c]) # "progress" => wire[c] \in {<<"ok">>, <<"error">>}
    BY <1>1, BufferHolds DEF ReadFrame
  <1>3. /\ client' \in [Conns -> {"idle", "waiting", "left"}]
        /\ \A d \in Conns \ {c} : client'[d] = client[d]
        /\ client'[c] = IF Head(wire[c]) = "progress" THEN "waiting" ELSE "idle"
    BY DEF ReadFrame, TypeOK
  <1>4. <<>> \in Buffer /\ <<>> \notin {<<"ok">>, <<"error">>}
    BY DEF Buffer
  <1>5. /\ wire' \in [Conns -> Buffer] /\ wire'[c] = <<>>
        /\ \A d \in Conns \ {c} : wire'[d] = wire[d]
    BY <1>2, <1>4 DEF TypeOK
  <1>6. TypeOK'
    BY <1>1, <1>3, <1>5 DEF TypeOK
  <1>7. SocketInvariant'
    BY <1>1, <1>2, <1>3, <1>4, <1>5 DEF SocketInvariant, At
  <1>8. PlaceInvariant' /\ LockInvariant' /\ StoreInvariant'
    BY <1>1 DEF PlaceInvariant, LockInvariant, StoreInvariant, At, Id
  <1> QED BY <1>6, <1>7, <1>8

LEMMA EndOfStreamKeeps ==
  ASSUME Control, NEW c \in Conns, EndOfStream(c)
  PROVE  Control'
  BY DEF EndOfStream, Control, TypeOK, SocketInvariant, PlaceInvariant, LockInvariant,
         StoreInvariant, At, Id

LEMMA GiveUpKeeps ==
  ASSUME Control, NEW c \in Conns, GiveUp(c)
  PROVE  Control'
  BY DEF GiveUp, Control, TypeOK, SocketInvariant, PlaceInvariant, LockInvariant,
         StoreInvariant, At, Id

\* A step of a guest: threads at most learn their replies.
LEMMA GuestStep ==
  ASSUME Control, UNCHANGED <<link, lock, disk>>, guest' \in [Ids -> Guest],
         \/ thread' = thread
         \/ \E c \in Conns, reply \in Replies : thread' = [thread EXCEPT ![c].reply = reply]
  PROVE  Control'
  <1>1. /\ thread' \in [Conns -> Thread]
        /\ \A d \in Conns : /\ thread'[d].at = thread[d].at /\ thread'[d].req = thread[d].req
                            /\ thread'[d].out = thread[d].out /\ thread'[d].cmd = thread[d].cmd
                            /\ thread'[d].target = thread[d].target
                            /\ thread'[d].lines = thread[d].lines
    <2>1. CASE thread' = thread
      BY <2>1 DEF Control, TypeOK
    <2>2. CASE \E c \in Conns, reply \in Replies : thread' = [thread EXCEPT ![c].reply = reply]
      <3>1. PICK c \in Conns, reply \in Replies : thread' = [thread EXCEPT ![c].reply = reply]
        BY <2>2
      <3> DEFINE t == [thread[c] EXCEPT !.reply = reply]
      <3>2. thread \in [Conns -> Thread] /\ thread[c] \in Thread
        BY DEF Control, TypeOK
      <3>3. /\ t \in Thread /\ t.at = thread[c].at /\ t.req = thread[c].req
            /\ t.out = thread[c].out /\ t.cmd = thread[c].cmd
            /\ t.target = thread[c].target /\ t.lines = thread[c].lines
        BY <3>2 DEF Thread
      <3>4. thread' = [thread EXCEPT ![c] = t]
        BY <3>1, <3>2
      <3> HIDE DEF t
      <3> QED BY <3>2, <3>3, <3>4
    <2> QED BY <2>1, <2>2
  <1>2. client' = client /\ wire' = wire /\ store' = store /\ seen' = seen /\ lock' = lock
    BY DEF link, disk
  <1>3. TypeOK'
    BY <1>1, <1>2 DEF Control, TypeOK
  <1>4. PlaceInvariant'
    BY <1>1 DEF Control, PlaceInvariant, At, Placed
  <1>5. SocketInvariant'
    BY <1>1, <1>2 DEF Control, SocketInvariant, At
  <1>6. LockInvariant' /\ StoreInvariant'
    BY <1>1, <1>2 DEF Control, LockInvariant, StoreInvariant, InHandler, Directory, Id
  <1> QED BY <1>3, <1>4, <1>5, <1>6 DEF Control

LEMMA AgentListensKeeps ==
  ASSUME Control, NEW i \in Ids, AgentListens(i)
  PROVE  Control'
  <1>1. guest \in [Ids -> Guest] /\ guest[i] \in Guest
    BY DEF Control, TypeOK
  <1>2. [guest[i] EXCEPT !.agent = "listening"] \in Guest
    BY <1>1 DEF Guest
  <1>3. guest' = [guest EXCEPT ![i] = [guest[i] EXCEPT !.agent = "listening"]]
    BY DEF AgentListens
  <1>4. guest' \in [Ids -> Guest]
    BY <1>1, <1>2, <1>3
  <1> QED BY <1>4, GuestStep DEF AgentListens

\* What AgentHandles does: it serves the first connection of the backlog.
LEMMA HandlesServes ==
  ASSUME guest \in [Ids -> Guest], NEW i \in Ids, AgentHandles(i)
  PROVE  /\ guest[i].agent = "listening" /\ guest[i].backlog # <<>>
         /\ guest[i].backlog \in Seq(Connection) /\ Head(guest[i].backlog) \in Connection
         /\ UNCHANGED <<link, lock, disk>>
         /\ \E r : /\ Served(guest[i], r) /\ guest' = [guest EXCEPT ![i] = r.guest]
                   /\ LET c == Head(guest[i].backlog).from
                      IN thread' = IF c = Nobody THEN thread
                                   ELSE [thread EXCEPT ![c].reply = r.reply]
  <1>1. guest[i].backlog # <<>> /\ guest[i] \in Guest
    BY DEF AgentHandles
  <1>2. guest[i].backlog \in Seq(Connection)
    BY DEF Guest
  <1>3. Head(guest[i].backlog) \in Connection
    BY <1>1, <1>2
  <1>4. PICK r \in Handle(guest[i]) :
          /\ guest' = [guest EXCEPT ![i] = r.guest]
          /\ LET c == Head(guest[i].backlog).from
             IN thread' = IF c = Nobody THEN thread
                          ELSE [thread EXCEPT ![c].reply = r.reply]
    BY DEF AgentHandles
  <1>5. Served(guest[i], r)
    BY <1>1, HandleServes
  <1> QED BY <1>1, <1>2, <1>3, <1>4, <1>5 DEF AgentHandles

LEMMA AgentHandlesKeeps ==
  ASSUME Control, NEW i \in Ids, AgentHandles(i)
  PROVE  Control'
  <1>1. guest \in [Ids -> Guest]
    BY DEF Control, TypeOK
  <1> DEFINE c == Head(guest[i].backlog).from
  <1>2. PICK r : /\ Served(guest[i], r) /\ guest' = [guest EXCEPT ![i] = r.guest]
                 /\ thread' = IF c = Nobody THEN thread
                              ELSE [thread EXCEPT ![c].reply = r.reply]
    BY <1>1, HandlesServes
  <1>3. c \in Conns \cup {Nobody} /\ UNCHANGED <<link, lock, disk>>
    BY <1>1, HandlesServes DEF Connection, Conns
  <1>4. guest' \in [Ids -> Guest] /\ r.reply \in Replies
    BY <1>1, <1>2 DEF Served
  <1> HIDE DEF c
  <1> QED BY <1>2, <1>3, <1>4, GuestStep

LEMMA AppExitsKeeps ==
  ASSUME Control, NEW i \in Ids, AppExits(i)
  PROVE  Control'
  <1>0. guest[i] \in Guest
    BY DEF Control, TypeOK
  <1>1. [guest[i] EXCEPT !.child = FALSE] \in Guest /\ [guest[i] EXCEPT !.orphans = FALSE] \in Guest
    BY <1>0 DEF Guest
  <1>2. \/ guest' = [guest EXCEPT ![i] = [guest[i] EXCEPT !.child = FALSE]]
        \/ guest' = [guest EXCEPT ![i] = [guest[i] EXCEPT !.orphans = FALSE]]
    BY DEF AppExits
  <1>3. guest' \in [Ids -> Guest]
    BY <1>1, <1>2 DEF Control, TypeOK
  <1> QED BY <1>3, GuestStep DEF AppExits

LEMMA GuestDiesKeeps ==
  ASSUME Control, NEW i \in Ids, GuestDies(i)
  PROVE  Control'
  <1>1. guest' \in [Ids -> Guest]
    BY PoweredOffGuest DEF GuestDies, Control, TypeOK
  <1> QED BY <1>1, GuestStep DEF GuestDies

\* Control is inductive: one step per action of Next.
LEMMA NextControl == Control /\ [Next]_vars => Control'
  <1> SUFFICES ASSUME Control, [Next]_vars PROVE Control'
    OBVIOUS
  <1>1. CASE UNCHANGED vars
    BY <1>1 DEF vars, Control, TypeOK, PlaceInvariant, LockInvariant,
                SocketInvariant, StoreInvariant, At, Id
  <1>2. ASSUME NEW c \in Conns, NEW req \in MayAsk[c], Ask(c, req) PROVE Control'
    <2>1. req \in Requests
      BY <1>2, ServiceAssumption
    <2> QED BY <1>2, <2>1, AskKeeps
  <1>3. ASSUME NEW c \in Conns, ReadFrame(c) \/ EndOfStream(c) \/ GiveUp(c) \/ Panic(c)
        PROVE  Control'
    BY <1>3, ReadFrameKeeps, EndOfStreamKeeps, GiveUpKeeps, PanicKeeps
  <1>4. ASSUME NEW c \in Conns, Serve(c) PROVE Control'
    BY <1>4, RejectKeeps, AnswerKeeps, ReleaseKeeps, LoadStoreKeeps, IsFileKeeps,
       ReadConfigKeeps, LoadedKeeps, CallAgentKeeps, ProbeKeeps, ObservedKeeps,
       TakeReplyKeeps, CallFailsKeeps, CreateKeeps, WriteConfigKeeps,
       CreateVolumesKeeps, DestroyKeeps, UnlinkConfigKeeps, RemoveDirKeeps,
       StartKeeps, ProgressKeeps, StopKeeps, KillAndReapKeeps, OpenWindowKeeps,
       BuildLineKeeps, BuildEndsKeeps, Zenon
    DEF Serve
  <1>5. ASSUME NEW i \in Ids,
               AgentListens(i) \/ AgentHandles(i) \/ AppExits(i) \/ GuestDies(i)
        PROVE  Control'
    BY <1>5, AgentListensKeeps, AgentHandlesKeeps, AppExitsKeeps, GuestDiesKeeps
  <1> QED BY <1>1, <1>2, <1>3, <1>4, <1>5 DEF Next

LEMMA ControlAlways == Spec => []Control
  BY InitControl, NextControl, PTL DEF Spec

\* The type invariant of the daemon and its clients.
THEOREM TypeCorrect == Spec => []TypeOK
  BY ControlAlways, PTL DEF Control

-----------------------------------------------------------------------------
(* The guests: how a step may change one. *)

Evolves(g, h, hasData) ==
  \/ \E q : h = [g EXCEPT !.backlog = q]
  \/ lock = Nobody /\ ~g.up /\ h = Booted(hasData)
  \/ h = PoweredOff(g)
  \/ g.agent = "booting" /\ h = [g EXCEPT !.agent = "listening"]
  \/ g.agent = "listening" /\ \E r : Served(g, r) /\ h = r.guest
  \/ h = [g EXCEPT !.child = FALSE] \/ h = [g EXCEPT !.orphans = FALSE]

LEMMA SameGuest == ASSUME NEW g \in Guest, NEW b PROVE Evolves(g, g, b)
  <1>1. g = [g EXCEPT !.backlog = g.backlog]
    BY DEF Guest
  <1> QED BY <1>1 DEF Evolves

LEMMA SendEvolves ==
  ASSUME guest \in [Ids -> Guest], NEW c, NEW i \in Ids, NEW cmd, Send(c, i, cmd),
         NEW j \in Ids
  PROVE  Evolves(guest[j], guest'[j], j \in Volumes)
  <1>1. CASE guest' = guest
    BY <1>1, SameGuest
  <1>2. CASE guest' = [guest EXCEPT ![i].backlog = Append(@, [from |-> c, cmd |-> cmd])]
    <2>1. CASE j = i
      <3>1. guest'[j] = [guest[j] EXCEPT !.backlog =
                           Append(guest[j].backlog, [from |-> c, cmd |-> cmd])]
        BY <1>2, <2>1
      <3> QED BY <3>1 DEF Evolves
    <2>2. CASE j # i
      BY <1>2, <2>2, SameGuest
    <2> QED BY <2>1, <2>2
  <1> QED BY <1>1, <1>2 DEF Send

\* The actions of a thread that leave every guest alone.
LEMMA GuestsLeftAlone ==
  ASSUME NEW c \in Conns,
         \/ Reject(c) \/ Answer(c) \/ Release(c)
         \/ LoadStore(c) \/ IsFile(c) \/ ReadConfig(c) \/ Loaded(c)
         \/ Observed(c) \/ TakeReply(c)
         \/ Create(c) \/ WriteConfig(c) \/ CreateVolumes(c)
         \/ Destroy(c) \/ UnlinkConfig(c) \/ RemoveDir(c)
         \/ Progress(c) \/ BuildLine(c) \/ BuildEnds(c)
         \/ ReadFrame(c) \/ EndOfStream(c) \/ GiveUp(c)
  PROVE  guest' = guest
  <1>1. Reject(c) \/ Answer(c) \/ Release(c) => guest' = guest
    BY DEF Reject, Answer, Release
  <1>2. LoadStore(c) \/ IsFile(c) \/ ReadConfig(c) \/ Loaded(c) => guest' = guest
    BY DEF LoadStore, IsFile, ReadConfig, Loaded
  <1>3. Observed(c) \/ TakeReply(c) => guest' = guest
    BY DEF Observed, TakeReply
  <1>4. Create(c) \/ WriteConfig(c) \/ CreateVolumes(c) => guest' = guest
    BY DEF Create, Refuse, WriteConfig, CreateVolumes
  <1>5. Destroy(c) \/ UnlinkConfig(c) \/ RemoveDir(c) => guest' = guest
    BY DEF Destroy, Refuse, UnlinkConfig, RemoveDir
  <1>6. Progress(c) \/ BuildLine(c) \/ BuildEnds(c) => guest' = guest
    BY DEF Progress, BuildLine, BuildEnds
  <1>7. ReadFrame(c) \/ EndOfStream(c) \/ GiveUp(c) => guest' = guest
    BY DEF ReadFrame, EndOfStream, GiveUp
  <1> QED BY <1>1, <1>2, <1>3, <1>4, <1>5, <1>6, <1>7, Zenon

LEMMA GuestEvolves ==
  ASSUME Control, [Next]_vars, NEW j \in Ids
  PROVE  Evolves(guest[j], guest'[j], j \in Volumes)
  <1>1. guest \in [Ids -> Guest] /\ guest[j] \in Guest
    BY DEF Control, TypeOK
  <1>2. CASE guest' = guest
    BY <1>1, <1>2, SameGuest
  <1>3. ASSUME NEW c \in Conns, NEW i \in Ids, NEW cmd, Call(c, i, cmd)
        PROVE  Evolves(guest[j], guest'[j], j \in Volumes)
    BY <1>1, <1>3, SendEvolves DEF Call
  <1>4. ASSUME NEW c \in Conns, AbandonCall(c)
        PROVE  Evolves(guest[j], guest'[j], j \in Volumes)
    <2>1. guest'[j] = [guest[j] EXCEPT !.backlog = guest'[j].backlog]
      BY <1>1, <1>4, AbandonGuest
    <2> QED BY <2>1 DEF Evolves
  <1>5. ASSUME NEW c \in Conns, CallAgent(c) PROVE Evolves(guest[j], guest'[j], j \in Volumes)
    <2>1. thread[c].at \in {"health", "exec-app"} /\ ~At(c, "none")
      BY <1>5 DEF CallAgent, At
    <2>2. Id(c) \in Ids
      BY UnderWay, <2>1 DEF Placed, MayBeAt, Op, Locked, Reads
    <2> QED BY <1>3, <1>5, <2>2 DEF CallAgent
  <1>6. ASSUME NEW c \in Conns, Probe(c) PROVE Evolves(guest[j], guest'[j], j \in Volumes)
    <2> DEFINE i == CHOOSE i \in thread[c].todo : TRUE
    <2>1. i \in Ids
      BY <1>6 DEF Probe, Control, TypeOK, Thread
    <2>2. Call(c, i, "health") \/ guest' = guest
      BY <1>6 DEF Probe
    <2> HIDE DEF i
    <2> QED BY <1>2, <1>3, <2>1, <2>2
  <1>7. ASSUME NEW c \in Conns, Start(c) PROVE Evolves(guest[j], guest'[j], j \in Volumes)
    <2>1. \/ guest' = guest
          \/ /\ lock = Nobody /\ Id(c) \in Ids /\ ~guest[Id(c)].up
             /\ guest' = [guest EXCEPT ![Id(c)] = Booted(Id(c) \in Volumes)]
      BY <1>7 DEF Start, Refuse, Acquire, Stored
    <2>2. CASE /\ lock = Nobody /\ Id(c) \in Ids /\ ~guest[Id(c)].up
               /\ guest' = [guest EXCEPT ![Id(c)] = Booted(Id(c) \in Volumes)]
      <3>1. CASE j = Id(c)
        BY <1>1, <2>2, <3>1 DEF Evolves
      <3>2. CASE j # Id(c)
        BY <1>1, <2>2, <3>2, SameGuest
      <3> QED BY <3>1, <3>2
    <2> QED BY <1>2, <2>1, <2>2
  <1>8. ASSUME NEW c \in Conns, Stop(c) \/ OpenWindow(c)
        PROVE  Evolves(guest[j], guest'[j], j \in Volumes)
    <2>1. Stop(c) \/ OpenWindow(c) =>
            guest' = guest \/ (Id(c) \in Ids /\ \E cmd \in Commands : Call(c, Id(c), cmd))
      <3> DEFINE allowed == Id(c) \in Stored /\ guest[Id(c)].up
      <3>1. Refuse(c, "stop", allowed) \/ Refuse(c, "open-window", allowed) => guest' = guest
        BY DEF Refuse
      <3>2. Id(c) \in Stored => Id(c) \in Ids
        BY DEF Stored
      <3> QED BY <3>1, <3>2, Zenon DEF Stop, OpenWindow, Commands
    <2> QED BY <1>2, <1>3, <1>8, <2>1
  <1>9. ASSUME NEW i \in Ids, guest' = [guest EXCEPT ![i] = PoweredOff(@)]
        PROVE  Evolves(guest[j], guest'[j], j \in Volumes)
    <2>1. guest'[j] = guest[j] \/ guest'[j] = PoweredOff(guest[j])
      BY <1>1, <1>9
    <2>2. CASE guest'[j] = guest[j]
      BY <1>1, <2>2, SameGuest
    <2>3. CASE guest'[j] = PoweredOff(guest[j])
      BY <2>3 DEF Evolves
    <2> QED BY <2>1, <2>2, <2>3
  <1>10. ASSUME NEW c \in Conns, KillAndReap(c)
         PROVE  Evolves(guest[j], guest'[j], j \in Volumes)
    <2>1. At(c, "kill") /\ ~At(c, "none")
      BY <1>10 DEF KillAndReap, At
    <2>2. Id(c) \in Ids
      BY UnderWay, <2>1 DEF Placed, MayBeAt, Op, At, Locked, Reads
    <2> QED BY <1>9, <1>10, <2>2 DEF KillAndReap
  <1>11. ASSUME NEW i \in Ids, AgentListens(i) \/ AppExits(i)
         PROVE  Evolves(guest[j], guest'[j], j \in Volumes)
    <2>1. CASE j # i
      <3>1. guest'[j] = guest[j]
        BY <1>1, <1>11, <2>1 DEF AgentListens, AppExits
      <3> QED BY <1>1, <3>1, SameGuest
    <2>2. CASE j = i
      <3>1. \/ guest[j].agent = "booting" /\ guest'[j] = [guest[j] EXCEPT !.agent = "listening"]
            \/ guest'[j] = [guest[j] EXCEPT !.child = FALSE]
            \/ guest'[j] = [guest[j] EXCEPT !.orphans = FALSE]
        BY <1>1, <1>11, <2>2 DEF AgentListens, AppExits
      <3> QED BY <3>1 DEF Evolves
    <2> QED BY <2>1, <2>2
  <1>12. ASSUME NEW i \in Ids, AgentHandles(i)
         PROVE  Evolves(guest[j], guest'[j], j \in Volumes)
    <2>1. PICK r : Served(guest[i], r) /\ guest' = [guest EXCEPT ![i] = r.guest]
      BY <1>1, <1>12, HandlesServes
    <2>2. guest[i].agent = "listening"
      BY <1>12 DEF AgentHandles
    <2>3. CASE j # i
      <3>1. guest'[j] = guest[j]
        BY <1>1, <2>1, <2>3
      <3> QED BY <1>1, <3>1, SameGuest
    <2>4. CASE j = i
      BY <1>1, <2>1, <2>2, <2>4 DEF Evolves
    <2> QED BY <2>3, <2>4
  <1>13. ASSUME NEW i \in Ids, GuestDies(i)
         PROVE  Evolves(guest[j], guest'[j], j \in Volumes)
    BY <1>9, <1>13 DEF GuestDies
  <1>14. ASSUME NEW c \in Conns, Serve(c) PROVE Evolves(guest[j], guest'[j], j \in Volumes)
    BY <1>2, <1>4, <1>5, <1>6, <1>7, <1>8, <1>10, <1>14, GuestsLeftAlone, Zenon
    DEF Serve, CallFails
  <1>15. ASSUME NEW c \in Conns, \/ \E req \in MayAsk[c] : Ask(c, req)
                                 \/ ReadFrame(c) \/ EndOfStream(c) \/ GiveUp(c)
         PROVE  guest' = guest
    BY <1>15, GuestsLeftAlone DEF Ask
  <1>16. ASSUME NEW c \in Conns, Panic(c) PROVE Evolves(guest[j], guest'[j], j \in Volumes)
    BY <1>4, <1>16 DEF Panic
  <1>17. CASE Next
    BY <1>2, <1>11, <1>12, <1>13, <1>14, <1>15, <1>16, <1>17, Zenon DEF Next
  <1>18. CASE UNCHANGED vars
    BY <1>2, <1>18 DEF vars
  <1> QED BY <1>17, <1>18

\* What is known of every guest, hasData saying whether its space has a volume:
\* as long as the agent serves, the volume is mounted.
Sound(g, hasData) == hasData /\ g.up /\ g.agent # "exited" => g.mounted

GuestInvariant == \A i \in Ids : Sound(guest[i], i \in Volumes)

LEMMA EvolvesSound ==
  ASSUME NEW g \in Guest, NEW h \in Guest, NEW b \in BOOLEAN, Evolves(g, h, b), Sound(g, b)
  PROVE  Sound(h, b)
  <1>1. CASE \E q : h = [g EXCEPT !.backlog = q]
    BY <1>1 DEF Sound, Guest
  <1>2. CASE h = Booted(b)
    BY <1>2 DEF Sound, Booted, NeverBooted
  <1>3. CASE h = PoweredOff(g)
    BY <1>3 DEF Sound, PoweredOff, NeverBooted
  <1>4. CASE g.agent = "booting" /\ h = [g EXCEPT !.agent = "listening"]
    BY <1>4 DEF Sound, Guest
  <1>5. ASSUME g.agent = "listening", NEW r, Served(g, r), h = r.guest
        PROVE  Sound(h, b)
    <2>1. CASE Head(g.backlog).cmd = "shutdown"
      BY <1>5, <2>1 DEF Sound, Served
    <2>2. CASE Head(g.backlog).cmd # "shutdown"
      BY <1>5, <2>2 DEF Sound, Served
    <2> QED BY <2>1, <2>2
  <1>6. CASE h = [g EXCEPT !.child = FALSE] \/ h = [g EXCEPT !.orphans = FALSE]
    BY <1>6 DEF Sound, Guest
  <1> QED BY <1>1, <1>2, <1>3, <1>4, <1>5, <1>6 DEF Evolves

LEMMA GuestsSound == Spec => []GuestInvariant
  <1>1. Init => GuestInvariant
    BY DEF Init, GuestInvariant, Sound, NeverBooted
  <1>2. Control /\ Control' /\ GuestInvariant /\ [Next]_vars => GuestInvariant'
    <2> SUFFICES ASSUME Control, Control', GuestInvariant, [Next]_vars, NEW i \in Ids
                 PROVE  Sound(guest'[i], i \in Volumes)
      BY DEF GuestInvariant
    <2> DEFINE b == i \in Volumes
    <2>1. guest[i] \in Guest /\ guest'[i] \in Guest /\ b \in BOOLEAN
      BY DEF Control, TypeOK
    <2>2. Evolves(guest[i], guest'[i], b)
      BY GuestEvolves
    <2>3. Sound(guest[i], b)
      BY DEF GuestInvariant
    <2> HIDE DEF b
    <2>4. Sound(guest'[i], b)
      BY <2>1, <2>2, <2>3, EvolvesSound
    <2> QED BY <2>4 DEF b
  <1> QED BY <1>1, <1>2, ControlAlways, PTL DEF Spec

\* After a shutdown the agent exits, and a guest whose volume is unmounted is
\* one whose agent has exited: an exec-app left in the backlog by a caller that
\* gave up starts nothing.
THEOREM NoAppAfterUnmountTheorem == Spec => NoAppAfterUnmount
  <1> DEFINE Step == \A i \in Ids :
               i \in Volumes /\ guest[i].up /\ ~guest[i].mounted =>
                 /\ guest'[i].child => guest[i].child
                 /\ guest'[i].orphans => guest[i].orphans
  <1>1. ASSUME Control, GuestInvariant, [Next]_vars PROVE Step \/ UNCHANGED vars
    <2> SUFFICES ASSUME NEW i \in Ids, i \in Volumes, guest[i].up, ~guest[i].mounted
                 PROVE  /\ guest'[i].child => guest[i].child
                        /\ guest'[i].orphans => guest[i].orphans
      OBVIOUS
    <2> DEFINE g == guest[i]
               h == guest'[i]
    <2>1. g \in Guest /\ g.agent = "exited"
      BY <1>1 DEF Control, TypeOK, GuestInvariant, Sound
    <2>2. Evolves(g, h, i \in Volumes)
      BY <1>1, GuestEvolves
    <2>3. \/ \E q : h = [g EXCEPT !.backlog = q]
          \/ h = PoweredOff(g)
          \/ h = [g EXCEPT !.child = FALSE] \/ h = [g EXCEPT !.orphans = FALSE]
      BY <2>1, <2>2 DEF Evolves
    <2> HIDE DEF g, h
    <2>4. (h.child => g.child) /\ (h.orphans => g.orphans)
      BY <2>1, <2>3 DEF Guest, PoweredOff, NeverBooted
    <2> QED BY <2>4 DEF g, h
  <1>2. Control /\ GuestInvariant /\ [Next]_vars => [Step]_vars
    BY <1>1
  <1> QED BY <1>2, ControlAlways, GuestsSound, PTL DEF Spec, NoAppAfterUnmount

-----------------------------------------------------------------------------
(* Calls of the agents: a frame in a backlog whose caller has not given up   *)
(* is the one call its caller waits for.                                     *)

Awaits(t, i, cmd) ==
  t.at = "wait" /\ t.target = i /\ t.cmd = cmd /\ t.reply = "none"

Owned(q, i, threads) ==
  \A k \in 1..Len(q) :
    q[k].from # Nobody =>
      /\ Awaits(threads[q[k].from], i, q[k].cmd)
      /\ \A l \in 1..Len(q) : l # k => q[l].from # q[k].from

BacklogInvariant == \A i \in Ids : Owned(guest[i].backlog, i, thread)

ReplyInvariant == \A c \in Conns : ~At(c, "wait") => thread[c].reply = "none"

\* A stop that believes in an unmount is right about it.
Believes(t) ==
  /\ \/ t.at = "wait" /\ t.reply = "unmounted"
     \/ t.at = "kill" /\ t.graceful
     \/ t.at = "release" /\ t.out = "ok" /\ t.graceful
  /\ t.req.op = "stop"

CleanInvariant ==
  \A c \in Conns :
    Believes(thread[c]) => ~guest[Id(c)].mounted

\* No frame of c is in the backlog q.
NotFrom(c, q) == \A k \in 1..Len(q) : q[k].from # c

LEMMA OwnedEmpty == ASSUME NEW i, NEW th PROVE Owned(<<>>, i, th)
  BY DEF Owned

\* The thread of c may change when no frame of the backlog is from c.
LEMMA OwnedElsewhere ==
  ASSUME NEW q \in Seq(Connection), NEW i, NEW c \in Conns, NEW th, NEW ti,
         Owned(q, i, th), NotFrom(c, q), \A d \in Conns \ {c} : ti[d] = th[d]
  PROVE  Owned(q, i, ti)
  <1>1. \A k \in 1..Len(q) : q[k] \in Connection
    OBVIOUS
  <1>2. \A k \in 1..Len(q) : q[k].from \in Conns \cup {Nobody}
    BY <1>1 DEF Connection, Conns
  <1> QED BY <1>2 DEF Owned, NotFrom

\* Frames of c are left to Nobody.
LEMMA OwnedAbandoned ==
  ASSUME NEW q \in Seq(Connection), NEW p \in Seq(Connection), NEW i,
         NEW c \in Conns, NEW th, NEW ti, Owned(q, i, th),
         \A d \in Conns \ {c} : ti[d] = th[d], Len(p) = Len(q),
         \A k \in 1..Len(q) : /\ p[k].cmd = q[k].cmd
                              /\ p[k].from = IF q[k].from = c THEN Nobody ELSE q[k].from
  PROVE  Owned(p, i, ti)
  <1>1. \A k \in 1..Len(q) : q[k] \in Connection
    OBVIOUS
  <1>2. \A k \in 1..Len(q) : q[k].from \in Conns \cup {Nobody}
    BY <1>1 DEF Connection, Conns
  <1>3. Nobody \notin Conns
    BY AgentAssumption DEF Conns
  <1> QED BY <1>2, <1>3 DEF Owned

\* A frame is added by a thread that waits for its reply from now on.
LEMMA OwnedAppend ==
  ASSUME NEW q \in Seq(Connection), NEW i, NEW c \in Conns, NEW cmd \in Commands,
         NEW th, NEW ti, Owned(q, i, th), NotFrom(c, q),
         \A d \in Conns \ {c} : ti[d] = th[d], Awaits(ti[c], i, cmd)
  PROVE  Owned(Append(q, [from |-> c, cmd |-> cmd]), i, ti)
  <1> DEFINE e == [from |-> c, cmd |-> cmd]
             p == Append(q, e)
  <1>1. e \in Connection /\ e.from = c /\ e.cmd = cmd
    BY DEF Connection, Conns
  <1> HIDE DEF e
  <1>2. /\ p \in Seq(Connection) /\ Len(p) = Len(q) + 1 /\ Len(q) \in Nat
        /\ \A k \in 1..Len(q) : p[k] = q[k]
        /\ p[Len(q) + 1] = e
    BY <1>1
  <1> HIDE DEF p
  <1>3. Owned(q, i, ti)
    BY OwnedElsewhere
  <1>4. Owned(p, i, ti)
    <2> SUFFICES ASSUME NEW k \in 1..Len(p), p[k].from # Nobody
                 PROVE  /\ Awaits(ti[p[k].from], i, p[k].cmd)
                        /\ \A l \in 1..Len(p) : l # k => p[l].from # p[k].from
      BY DEF Owned
    <2>1. CASE k = Len(q) + 1
      <3>1. p[k].from = c /\ p[k].cmd = cmd
        BY <1>1, <1>2, <2>1
      <3>2. ASSUME NEW l \in 1..Len(p), l # k PROVE p[l].from # c
        <4>1. l \in 1..Len(q)
          BY <1>2, <2>1, <3>2
        <4> QED BY <1>2, <4>1 DEF NotFrom
      <3> QED BY <3>1, <3>2
    <2>2. CASE k \in 1..Len(q)
      <3>1. p[k] = q[k] /\ q[k].from # c
        BY <1>2, <2>2 DEF NotFrom
      <3>2. Awaits(ti[p[k].from], i, p[k].cmd)
        BY <1>3, <2>2, <3>1 DEF Owned
      <3>3. ASSUME NEW l \in 1..Len(p), l # k PROVE p[l].from # p[k].from
        <4>1. CASE l = Len(q) + 1
          BY <1>1, <1>2, <3>1, <4>1
        <4>2. CASE l \in 1..Len(q)
          BY <1>2, <1>3, <2>2, <3>1, <3>3, <4>2 DEF Owned
        <4> QED BY <1>2, <4>1, <4>2
      <3> QED BY <3>2, <3>3
    <2> QED BY <1>2, <2>1, <2>2
  <1> QED BY <1>4 DEF p, e

\* The first frame has been served and only its caller knows.
LEMMA OwnedTail ==
  ASSUME NEW q \in Seq(Connection), q # <<>>, NEW i, NEW th, NEW ti, Owned(q, i, th),
         \A d \in Conns \ {Head(q).from} : ti[d] = th[d]
  PROVE  Owned(Tail(q), i, ti)
  <1> DEFINE p == Tail(q)
  <1>1. /\ p \in Seq(Connection) /\ Len(p) = Len(q) - 1 /\ Len(q) \in Nat
        /\ \A k \in 1..Len(p) : p[k] = q[k + 1]
    OBVIOUS
  <1>2. Len(q) > 0 /\ Head(q) = q[1]
    OBVIOUS
  <1> HIDE DEF p
  <1>3. ASSUME NEW k \in 1..Len(p), p[k].from # Nobody
        PROVE  /\ Awaits(ti[p[k].from], i, p[k].cmd)
               /\ \A l \in 1..Len(p) : l # k => p[l].from # p[k].from
    <2>1. k + 1 \in 1..Len(q) /\ 1 \in 1..Len(q) /\ k + 1 # 1
      BY <1>1, <1>2
    <2>2. p[k] = q[k + 1] /\ q[k + 1] \in Connection
      BY <1>1, <2>1
    <2>3. q[1].from # q[k + 1].from /\ Awaits(th[q[k + 1].from], i, q[k + 1].cmd)
      BY <1>3, <2>1, <2>2 DEF Owned
    <2>4. p[k].from \in Conns \ {Head(q).from}
      BY <1>2, <1>3, <2>2, <2>3 DEF Connection, Conns
    <2>5. ASSUME NEW l \in 1..Len(p), l # k PROVE p[l].from # p[k].from
      <3>1. l + 1 \in 1..Len(q) /\ l + 1 # k + 1 /\ p[l] = q[l + 1]
        BY <1>1, <2>5
      <3> QED BY <1>3, <2>1, <2>2, <3>1 DEF Owned
    <2> QED BY <2>2, <2>3, <2>4, <2>5
  <1>4. Owned(p, i, ti)
    BY <1>3 DEF Owned
  <1> QED BY <1>4 DEF p

CallInvariant == BacklogInvariant /\ ReplyInvariant /\ CleanInvariant

LEMMA NoFrames ==
  ASSUME Control, BacklogInvariant, NEW c \in Conns,
         ~(At(c, "wait") /\ thread[c].reply = "none"), NEW i \in Ids
  PROVE  NotFrom(c, guest[i].backlog)
  <1>1. Nobody \notin Conns
    BY AgentAssumption DEF Conns
  <1> QED BY <1>1 DEF BacklogInvariant, Owned, Awaits, NotFrom, At

LEMMA Backlogs ==
  ASSUME Control, NEW i \in Ids
  PROVE  guest[i] \in Guest /\ guest[i].backlog \in Seq(Connection)
  BY DEF Control, TypeOK, Guest

\* Only start mounts a volume, and it holds the lock when it does.
LEMMA NoMountUnderLock ==
  ASSUME Control, Control', [Next]_vars, lock # Nobody, NEW i \in Ids, guest'[i].mounted
  PROVE  guest[i].mounted
  <1> DEFINE g == guest[i]
             h == guest'[i]
  <1>1. g \in Guest /\ h \in Guest
    BY DEF Control, TypeOK
  <1>2. Evolves(g, h, i \in Volumes)
    BY GuestEvolves
  <1>3. CASE g.agent = "listening" /\ \E r : Served(g, r) /\ h = r.guest
    BY <1>1, <1>3 DEF Served, Guest
  <1>4. CASE \/ \E q : h = [g EXCEPT !.backlog = q]
             \/ g.agent = "booting" /\ h = [g EXCEPT !.agent = "listening"]
             \/ h = [g EXCEPT !.child = FALSE] \/ h = [g EXCEPT !.orphans = FALSE]
    <2> HIDE DEF g, h
    <2>1. h.mounted = g.mounted
      BY <1>1, <1>4 DEF Guest
    <2> QED BY <2>1 DEF g, h
  <1>5. CASE h = PoweredOff(g)
    BY <1>5 DEF PoweredOff, NeverBooted
  <1> QED BY <1>2, <1>3, <1>4, <1>5 DEF Evolves

LEMMA BelieverHolds ==
  ASSUME Control, NEW c \in Conns, Believes(thread[c])
  PROVE  InHandler(thread[c]) /\ lock = c /\ lock # Nobody /\ Id(c) \in Ids /\ ~At(c, "none")
  <1>1. ~At(c, "none") /\ InHandler(thread[c])
    BY DEF Believes, At, InHandler, Locked
  <1>2. Nobody \notin Conns
    BY AgentAssumption DEF Conns
  <1> QED BY <1>1, <1>2, UnderWay DEF InHandler, Op

\* Enough for a step of the thread of c.
LEMMA CallStep ==
  ASSUME Control, Control', CallInvariant, [Next]_vars, NEW c \in Conns,
         \A d \in Conns \ {c} : thread'[d] = thread[d],
         thread'[c].at # "wait" => thread'[c].reply = "none",
         Believes(thread'[c]) =>
           \/ Believes(thread[c]) /\ thread'[c].req = thread[c].req
           \/ ~guest'[thread'[c].req.id].mounted,
         \A i \in Ids : Owned(guest'[i].backlog, i, thread')
  PROVE  CallInvariant'
  <1>1. BacklogInvariant' /\ ReplyInvariant'
    BY DEF BacklogInvariant, ReplyInvariant, CallInvariant, At
  <1>2. ASSUME NEW d \in Conns, Believes(thread[d]) PROVE ~guest'[Id(d)].mounted
    <2>1. lock # Nobody /\ Id(d) \in Ids /\ ~guest[Id(d)].mounted
      BY <1>2, BelieverHolds DEF CallInvariant, CleanInvariant
    <2> QED BY <2>1, NoMountUnderLock
  <1>3. CleanInvariant'
    BY <1>2 DEF CleanInvariant, Id
  <1> QED BY <1>1, <1>3 DEF CallInvariant

\* The steps of a thread that neither call an agent nor touch a guest.
Plain(c) ==
  \/ Reject(c) \/ Release(c)
  \/ LoadStore(c) \/ IsFile(c) \/ ReadConfig(c) \/ Loaded(c) \/ Observed(c)
  \/ Create(c) \/ WriteConfig(c) \/ CreateVolumes(c)
  \/ Destroy(c) \/ UnlinkConfig(c) \/ RemoveDir(c)
  \/ Progress(c) \/ BuildLine(c) \/ BuildEnds(c)

\* What these steps do to the threads.
Onward(c) ==
  /\ thread[c].at \notin {"none", "wait"}
  /\ \A d \in Conns \ {c} : thread'[d] = thread[d]
  /\ thread'[c].req = thread[c].req /\ thread'[c].reply = thread[c].reply
  /\ thread'[c].at \notin {"none", "wait", "kill"}
  /\ thread'[c].at = "release" => thread'[c].out = "error" \/ Op(c) # "stop"

LEMMA RefuseOnward ==
  ASSUME Control, NEW c \in Conns, NEW op, NEW allowed, Refuse(c, op, allowed)
  PROVE  Onward(c)
  <1>1. At(c, "lock") /\ ~At(c, "none")
    BY DEF Refuse, At
  <1>2. thread \in [Conns -> Thread] /\ thread[c] \in Thread
    BY <1>1, UnderWay
  <1> QED BY <1>1, <1>2 DEF Refuse, Decide, Onward, At, Thread

LEMMA PlainOnward ==
  ASSUME Control, NEW c \in Conns, Plain(c)
  PROVE  Onward(c)
  <1>1. thread \in [Conns -> Thread] /\ thread[c] \in Thread
    BY DEF Control, TypeOK
  <1> USE DEF Onward, At, Thread, Decide, Goto
  <1>2. CASE Reject(c)
    BY <1>1, <1>2 DEF Reject
  <1>3. CASE Release(c)
    BY <1>1, <1>3 DEF Release
  <1>4. CASE LoadStore(c)
    BY <1>1, <1>4 DEF LoadStore
  <1>5. CASE IsFile(c)
    BY <1>1, <1>5 DEF IsFile
  <1>6. CASE ReadConfig(c)
    BY <1>1, <1>6 DEF ReadConfig
  <1>7. CASE Loaded(c)
    BY <1>1, <1>7 DEF Loaded
  <1>8. CASE Observed(c)
    BY <1>1, <1>8 DEF Observed
  <1>9. CASE Create(c)
    BY <1>1, <1>9, RefuseOnward DEF Create
  <1>10. CASE WriteConfig(c)
    BY <1>1, <1>10 DEF WriteConfig
  <1>11. CASE CreateVolumes(c)
    <2>1. Op(c) = "create"
      BY UnderWay, <1>11 DEF CreateVolumes, Placed, MayBeAt, Op, Locked, Reads
    <2> QED BY <1>1, <1>11, <2>1 DEF CreateVolumes
  <1>12. CASE Destroy(c)
    BY <1>1, <1>12, RefuseOnward DEF Destroy
  <1>13. CASE UnlinkConfig(c)
    BY <1>1, <1>13 DEF UnlinkConfig
  <1>14. CASE RemoveDir(c)
    <2>1. Op(c) \in {"create", "destroy"}
      BY UnderWay, <1>14 DEF RemoveDir, Placed, MayBeAt, Op, Locked, Reads
    <2> QED BY <1>1, <1>14, <2>1 DEF RemoveDir
  <1>15. CASE Progress(c)
    BY <1>1, <1>15 DEF Progress
  <1>16. CASE BuildLine(c)
    BY <1>1, <1>16 DEF BuildLine
  <1>17. CASE BuildEnds(c)
    BY <1>1, <1>17 DEF BuildEnds
  <1> QED BY <1>2, <1>3, <1>4, <1>5, <1>6, <1>7, <1>8, <1>9, <1>10, <1>11, <1>12,
             <1>13, <1>14, <1>15, <1>16, <1>17, Zenon DEF Plain

LEMMA PlainCalls ==
  ASSUME Control, Control', CallInvariant, [Next]_vars, NEW c \in Conns,
         Onward(c), guest' = guest
  PROVE  CallInvariant'
  <1>1. ~At(c, "wait") /\ thread[c].reply = "none"
    BY DEF Onward, At, CallInvariant, ReplyInvariant
  <1>2. ~Believes(thread'[c])
    BY DEF Onward, Believes, Op
  <1>3. \A d \in Conns \ {c} : thread'[d] = thread[d]
    BY DEF Onward
  <1>4. ASSUME NEW i \in Ids PROVE Owned(guest'[i].backlog, i, thread')
    <2>1. NotFrom(c, guest[i].backlog)
      BY <1>1, NoFrames DEF CallInvariant
    <2>2. Owned(guest[i].backlog, i, thread)
      BY DEF CallInvariant, BacklogInvariant
    <2> QED BY <1>3, <2>1, <2>2, Backlogs, OwnedElsewhere
  <1>5. thread'[c].reply = "none"
    BY <1>1 DEF Onward
  <1> QED BY <1>2, <1>3, <1>4, <1>5, CallStep

\* One guest is given an empty backlog, c is not waiting.
LEMMA ClearedCalls ==
  ASSUME Control, Control', CallInvariant, [Next]_vars, NEW c \in Conns,
         ~At(c, "wait"), \A d \in Conns \ {c} : thread'[d] = thread[d],
         thread'[c].at # "wait", thread'[c].reply = thread[c].reply,
         Believes(thread'[c]) => Believes(thread[c]) /\ thread'[c].req = thread[c].req,
         \A i \in Ids : guest'[i].backlog \in {<<>>, guest[i].backlog}
  PROVE  CallInvariant'
  <1>1. thread[c].reply = "none"
    BY DEF CallInvariant, ReplyInvariant
  <1>2. ASSUME NEW i \in Ids PROVE Owned(guest'[i].backlog, i, thread')
    <2>1. NotFrom(c, guest[i].backlog)
      BY NoFrames DEF CallInvariant
    <2>2. Owned(guest[i].backlog, i, thread)
      BY DEF CallInvariant, BacklogInvariant
    <2>3. Owned(guest[i].backlog, i, thread')
      BY <2>1, <2>2, Backlogs, OwnedElsewhere
    <2> QED BY <2>3, OwnedEmpty
  <1> QED BY <1>1, <1>2, CallStep

LEMMA StartCalls ==
  ASSUME Control, Control', CallInvariant, [Next]_vars, NEW c \in Conns, Start(c)
  PROVE  CallInvariant'
  <1>1. CASE Refuse(c, "start", Id(c) \in Stored /\ ~guest[Id(c)].up)
    <2>1. guest' = guest
      BY <1>1 DEF Refuse
    <2> QED BY <1>1, <2>1, RefuseOnward, PlainCalls
  <1>2. CASE /\ At(c, "lock") /\ Op(c) = "start" /\ Id(c) \in Stored /\ ~guest[Id(c)].up
             /\ Acquire(c)
             /\ \/ /\ guest' = [guest EXCEPT ![Id(c)] = Booted(Id(c) \in Volumes)]
                   /\ Goto(c, "health")
                \/ Decide(c, "release", "error") /\ UNCHANGED guest
             /\ UNCHANGED <<link, disk>>
    <2>1. thread \in [Conns -> Thread] /\ thread[c] \in Thread /\ guest \in [Ids -> Guest]
      BY DEF Control, TypeOK
    <2>2. /\ ~At(c, "wait") /\ \A d \in Conns \ {c} : thread'[d] = thread[d]
          /\ thread'[c].at \in {"health", "release"} /\ thread'[c].reply = thread[c].reply
          /\ thread'[c].req = thread[c].req /\ Op(c) = "start"
      BY <1>2, <2>1 DEF At, Goto, Decide, Thread
    <2>3. ~Believes(thread'[c])
      BY <2>2 DEF Believes, Op
    <2>4. ASSUME NEW i \in Ids PROVE guest'[i].backlog \in {<<>>, guest[i].backlog}
      BY <1>2, <2>1 DEF Booted, NeverBooted
    <2> QED BY <2>2, <2>3, <2>4, ClearedCalls
  <1> QED BY <1>1, <1>2 DEF Start

LEMMA KillCalls ==
  ASSUME Control, Control', CallInvariant, [Next]_vars, NEW c \in Conns, KillAndReap(c)
  PROVE  CallInvariant'
  <1>1. thread \in [Conns -> Thread] /\ thread[c] \in Thread /\ guest \in [Ids -> Guest]
    BY DEF Control, TypeOK
  <1>2. /\ At(c, "kill") /\ ~At(c, "wait") /\ \A d \in Conns \ {c} : thread'[d] = thread[d]
        /\ thread'[c].at = "release" /\ thread'[c].reply = thread[c].reply
        /\ thread'[c].req = thread[c].req /\ thread'[c].graceful = thread[c].graceful
    BY <1>1 DEF KillAndReap, At, Decide, Thread
  <1>3. Believes(thread'[c]) => Believes(thread[c])
    BY <1>2 DEF Believes, At
  <1>4. ASSUME NEW i \in Ids PROVE guest'[i].backlog \in {<<>>, guest[i].backlog}
    BY <1>1 DEF KillAndReap, PoweredOff, NeverBooted
  <1> QED BY <1>2, <1>3, <1>4, ClearedCalls

\* The frames of c are abandoned.
LEMMA AbandonedCalls ==
  ASSUME Control, Control', CallInvariant, [Next]_vars, NEW c \in Conns, AbandonCall(c),
         \A d \in Conns \ {c} : thread'[d] = thread[d],
         thread'[c].reply = "none", ~Believes(thread'[c])
  PROVE  CallInvariant'
  <1>1. ASSUME NEW i \in Ids PROVE Owned(guest'[i].backlog, i, thread')
    <2> DEFINE q == guest[i].backlog
               p == guest'[i].backlog
    <2>1. guest \in [Ids -> Guest] /\ q \in Seq(Connection)
      BY Backlogs DEF Control, TypeOK
    <2>2. /\ p \in Seq(Connection) /\ Len(p) = Len(q)
          /\ \A k \in 1..Len(q) : /\ p[k].cmd = q[k].cmd
                                  /\ p[k].from = IF q[k].from = c THEN Nobody ELSE q[k].from
      BY <2>1, AbandonGuest
    <2>3. Owned(q, i, thread)
      BY DEF CallInvariant, BacklogInvariant
    <2> HIDE DEF p, q
    <2>4. Owned(p, i, thread')
      BY <2>1, <2>2, <2>3, OwnedAbandoned
    <2> QED BY <2>4 DEF p
  <1> QED BY <1>1, CallStep

\* What Close leaves.
LEMMA Closed ==
  ASSUME Control, NEW c \in Conns, Close(c)
  PROVE  /\ \A d \in Conns \ {c} : thread'[d] = thread[d]
         /\ thread'[c] = NoThread /\ NoThread.reply = "none" /\ NoThread.at = "none"
         /\ ~Believes(thread'[c])
  <1>1. /\ \A d \in Conns \ {c} : thread'[d] = thread[d]
        /\ thread'[c] = NoThread
    BY DEF Control, TypeOK, Close
  <1>2. NoThread.reply = "none" /\ NoThread.at = "none"
    BY DEF NoThread
  <1> QED BY <1>1, <1>2 DEF Believes

LEMMA EndCalls ==
  ASSUME Control, Control', CallInvariant, [Next]_vars, NEW c \in Conns, Answer(c) \/ Panic(c)
  PROVE  CallInvariant'
  <1>1. Close(c)
    BY DEF Answer, Panic
  <1>2. CASE Panic(c)
    BY <1>1, <1>2, Closed, AbandonedCalls DEF Panic
  <1>3. CASE Answer(c)
    <2>1. At(c, "answer") /\ ~At(c, "wait") /\ guest' = guest
      BY <1>3 DEF Answer, At
    <2>2. thread[c].reply = "none"
      BY <2>1 DEF CallInvariant, ReplyInvariant
    <2> QED BY <1>1, <2>1, <2>2, Closed, ClearedCalls
  <1> QED BY <1>2, <1>3

LEMMA ReturnCalls ==
  ASSUME Control, Control', CallInvariant, [Next]_vars, NEW c \in Conns,
         TakeReply(c) \/ CallFails(c)
  PROVE  CallInvariant'
  <1>1. At(c, "wait") /\ ~At(c, "none") /\ thread \in [Conns -> Thread]
    BY DEF TakeReply, CallFails, At, Control, TypeOK
  <1>2. ASSUME NEW reply, NEW t \in AfterCall(c, reply), thread' = [thread EXCEPT ![c] = t]
        PROVE  /\ \A d \in Conns \ {c} : thread'[d] = thread[d]
               /\ thread'[c].reply = "none" /\ thread'[c].at # "wait"
               /\ thread'[c].req = thread[c].req
               /\ Believes(thread'[c]) => Op(c) = "stop" /\ reply = "unmounted"
    <2>1. Returns(thread[c], t) /\ (Op(c) = "stop" => t.graceful = Graceful(reply))
      BY <1>1, UnderWay, AfterCallReturns
    <2>2. thread'[c] = t /\ \A d \in Conns \ {c} : thread'[d] = thread[d]
      BY <1>1, <1>2
    <2>3. t.reply = "none" /\ t.at # "wait" /\ t.req = thread[c].req
      BY <2>1 DEF Returns
    <2>4. Believes(t) => Op(c) = "stop" /\ reply = "unmounted"
      BY <2>1, <2>3 DEF Returns, Believes, Op, Graceful, Reads
    <2> QED BY <2>2, <2>3, <2>4
  <1>3. CASE TakeReply(c)
    <2>1. PICK t \in AfterCall(c, thread[c].reply) : thread' = [thread EXCEPT ![c] = t]
      BY <1>3 DEF TakeReply
    <2>2. guest' = guest /\ thread[c].reply # "none"
      BY <1>3 DEF TakeReply
    <2>3. Believes(thread'[c]) => Believes(thread[c])
      BY <1>1, <1>2, <2>1 DEF Believes, At, Op
    <2>5. \A d \in Conns \ {c} : thread'[d] = thread[d]
      BY <1>2, <2>1
    <2>4. ASSUME NEW i \in Ids PROVE Owned(guest'[i].backlog, i, thread')
      <3>1. NotFrom(c, guest[i].backlog)
        BY <2>2, NoFrames DEF CallInvariant
      <3>2. Owned(guest[i].backlog, i, thread)
        BY DEF CallInvariant, BacklogInvariant
      <3>3. Owned(guest[i].backlog, i, thread')
        BY <2>5, <3>1, <3>2, Backlogs, OwnedElsewhere
      <3> QED BY <2>2, <3>3
    <2> QED BY <1>2, <2>1, <2>3, <2>4, CallStep
  <1>4. CASE CallFails(c)
    <2>1. PICK t \in AfterCall(c, "none") : thread' = [thread EXCEPT ![c] = t]
      BY <1>4 DEF CallFails
    <2>2. AbandonCall(c)
      BY <1>4 DEF CallFails
    <2> QED BY <1>2, <2>1, <2>2, AbandonedCalls
  <1> QED BY <1>3, <1>4

\* c calls the agent of i.
LEMMA CallCalls ==
  ASSUME Control, Control', CallInvariant, [Next]_vars, NEW c \in Conns, ~At(c, "wait"),
         NEW i \in Ids, NEW cmd \in Commands, Call(c, i, cmd)
  PROVE  CallInvariant'
  <1>1. thread \in [Conns -> Thread] /\ thread[c] \in Thread /\ guest \in [Ids -> Guest]
    BY DEF Control, TypeOK
  <1>2. thread[c].reply = "none"
    BY DEF CallInvariant, ReplyInvariant
  <1>3. /\ \A d \in Conns \ {c} : thread'[d] = thread[d]
        /\ thread'[c].reply = "none" /\ thread'[c].at = "wait"
        /\ thread'[c].target = i /\ thread'[c].cmd = cmd
    BY <1>1, <1>2 DEF Call, Thread
  <1>4. ~Believes(thread'[c])
    BY <1>3 DEF Believes
  <1>5. ASSUME NEW j \in Ids PROVE Owned(guest'[j].backlog, j, thread')
    <2> DEFINE q == guest[j].backlog
    <2>1. NotFrom(c, q) /\ Owned(q, j, thread) /\ q \in Seq(Connection)
      BY NoFrames, Backlogs DEF CallInvariant, BacklogInvariant
    <2>2. \/ guest'[j].backlog = q
          \/ j = i /\ guest'[j].backlog = Append(q, [from |-> c, cmd |-> cmd])
      BY <1>1 DEF Call, Send, Guest
    <2> HIDE DEF q
    <2>3. Owned(q, j, thread')
      BY <1>3, <2>1, OwnedElsewhere
    <2>4. CASE j = i /\ guest'[j].backlog = Append(q, [from |-> c, cmd |-> cmd])
      <3>1. Awaits(thread'[c], j, cmd)
        BY <1>3, <2>4 DEF Awaits
      <3>2. Owned(Append(q, [from |-> c, cmd |-> cmd]), j, thread')
        BY <1>3, <2>1, <3>1, OwnedAppend
      <3> QED BY <2>4, <3>2
    <2> QED BY <2>2, <2>3, <2>4
  <1> QED BY <1>3, <1>4, <1>5, CallStep

LEMMA CallingCalls ==
  ASSUME Control, Control', CallInvariant, [Next]_vars, NEW c \in Conns,
         CallAgent(c) \/ Probe(c) \/ Stop(c) \/ OpenWindow(c)
  PROVE  CallInvariant'
  <1>1. CASE CallAgent(c)
    <2>1. thread[c].at \in {"health", "exec-app"} /\ ~At(c, "none") /\ ~At(c, "wait")
      BY <1>1 DEF CallAgent, At
    <2>2. Id(c) \in Ids /\ thread[c].at \in Commands
      BY UnderWay, <2>1 DEF Placed, MayBeAt, Op, Locked, Reads, Commands
    <2> QED BY <1>1, <2>1, <2>2, CallCalls DEF CallAgent
  <1>2. CASE Probe(c)
    <2> DEFINE i == CHOOSE i \in thread[c].todo : TRUE
    <2>1. /\ At(c, "probe") /\ thread[c].todo # {}
          /\ IF guest[i].up THEN Call(c, i, "health")
             ELSE thread' = [thread EXCEPT ![c].todo = @ \ {i}] /\ UNCHANGED guest
      BY <1>2 DEF Probe
    <2>2. i \in Ids /\ thread \in [Conns -> Thread] /\ thread[c] \in Thread
      BY <2>1 DEF Control, TypeOK, Thread
    <2> HIDE DEF i
    <2>3. CASE guest[i].up
      BY <2>1, <2>2, <2>3, CallCalls DEF Commands, At
    <2>4. CASE ~guest[i].up
      <3>1. Onward(c)
        BY <2>1, <2>2, <2>4 DEF Onward, At, Thread
      <3> QED BY <2>1, <2>4, <3>1, PlainCalls
    <2> QED BY <2>3, <2>4
  <1>3. ASSUME NEW op, NEW allowed, Refuse(c, op, allowed) PROVE CallInvariant'
    <2>1. guest' = guest
      BY <1>3 DEF Refuse
    <2> QED BY <1>3, <2>1, RefuseOnward, PlainCalls
  <1>4. ASSUME NEW cmd \in Commands, At(c, "lock"), Id(c) \in Stored, Call(c, Id(c), cmd)
        PROVE  CallInvariant'
    BY <1>4, CallCalls DEF Stored, At
  <1>5. "shutdown" \in Commands /\ "exec-app" \in Commands
    BY DEF Commands
  <1>6. CASE Stop(c)
    BY <1>3, <1>4, <1>5, <1>6, Zenon DEF Stop
  <1>7. CASE OpenWindow(c)
    BY <1>3, <1>4, <1>5, <1>7, Zenon DEF OpenWindow
  <1> QED BY <1>1, <1>2, <1>6, <1>7

LEMMA AskCalls ==
  ASSUME Control, Control', CallInvariant, [Next]_vars, NEW c \in Conns, NEW req, Ask(c, req)
  PROVE  CallInvariant'
  <1>1. thread \in [Conns -> Thread] /\ At(c, "none") /\ guest' = guest
    BY DEF Control, TypeOK, Ask, SocketInvariant
  <1>2. thread' = [thread EXCEPT ![c] = [NoThread EXCEPT !.req = req, !.at = Dispatch(req)]]
    BY DEF Ask
  <1>3. /\ \A d \in Conns \ {c} : thread'[d] = thread[d]
        /\ thread'[c].reply = "none" /\ ~thread'[c].graceful
    BY <1>1, <1>2 DEF NoThread
  <1>4. ~Believes(thread'[c])
    BY <1>3 DEF Believes
  <1>5. ASSUME NEW i \in Ids PROVE Owned(guest'[i].backlog, i, thread')
    <2>1. NotFrom(c, guest[i].backlog)
      BY <1>1, NoFrames DEF CallInvariant, At
    <2>2. Owned(guest[i].backlog, i, thread)
      BY DEF CallInvariant, BacklogInvariant
    <2> QED BY <1>1, <1>3, <2>1, <2>2, Backlogs, OwnedElsewhere
  <1> QED BY <1>3, <1>4, <1>5, CallStep

\* Steps that leave the threads alone and keep or clear each backlog.
LEMMA IdleCalls ==
  ASSUME Control, Control', CallInvariant, [Next]_vars, thread' = thread,
         \A i \in Ids : guest'[i].backlog \in {<<>>, guest[i].backlog}
  PROVE  CallInvariant'
  <1>1. BacklogInvariant' /\ ReplyInvariant'
    BY OwnedEmpty DEF CallInvariant, BacklogInvariant, ReplyInvariant, At
  <1>2. ASSUME NEW d \in Conns, Believes(thread[d]) PROVE ~guest'[Id(d)].mounted
    <2>1. lock # Nobody /\ Id(d) \in Ids /\ ~guest[Id(d)].mounted
      BY <1>2, BelieverHolds DEF CallInvariant, CleanInvariant
    <2> QED BY <2>1, NoMountUnderLock
  <1>3. CleanInvariant'
    BY <1>2 DEF CleanInvariant, Id
  <1> QED BY <1>1, <1>3 DEF CallInvariant

LEMMA GuestCalls ==
  ASSUME Control, Control', CallInvariant, [Next]_vars, NEW i \in Ids,
         AgentListens(i) \/ AppExits(i) \/ GuestDies(i)
  PROVE  CallInvariant'
  <1>1. guest \in [Ids -> Guest] /\ thread' = thread
    BY DEF Control, TypeOK, AgentListens, AppExits, GuestDies
  <1>2. ASSUME NEW j \in Ids PROVE guest'[j].backlog \in {<<>>, guest[j].backlog}
    <2>1. CASE AgentListens(i)
      BY <1>1, <2>1 DEF AgentListens, Guest
    <2>2. CASE AppExits(i)
      <3>1. \/ guest' = [guest EXCEPT ![i] = [guest[i] EXCEPT !.child = FALSE]]
            \/ guest' = [guest EXCEPT ![i] = [guest[i] EXCEPT !.orphans = FALSE]]
        BY <2>2 DEF AppExits
      <3> QED BY <1>1, <3>1 DEF Guest
    <2>3. CASE GuestDies(i)
      BY <1>1, <2>3 DEF GuestDies, PoweredOff, NeverBooted
    <2> QED BY <2>1, <2>2, <2>3
  <1> QED BY <1>1, <1>2, IdleCalls

\* The agent serves a connection: the reply goes to the thread that waits for it.
LEMMA HandledCalls ==
  ASSUME Control, Control', CallInvariant, [Next]_vars, NEW i \in Ids, AgentHandles(i)
  PROVE  CallInvariant'
  <1> DEFINE g == guest[i]
             q == g.backlog
             c == Head(q).from
  <1>1. /\ guest \in [Ids -> Guest] /\ thread \in [Conns -> Thread]
        /\ g.agent = "listening" /\ q # <<>> /\ q \in Seq(Connection)
        /\ Head(q) \in Connection
    BY HandlesServes DEF Control, TypeOK
  <1>2. PICK r : /\ Served(g, r) /\ guest' = [guest EXCEPT ![i] = r.guest]
                 /\ thread' = IF c = Nobody THEN thread
                              ELSE [thread EXCEPT ![c].reply = r.reply]
    BY <1>1, HandlesServes
  <1>3. Owned(q, i, thread) /\ 1 \in 1..Len(q) /\ Head(q) = q[1]
    BY <1>1 DEF CallInvariant, BacklogInvariant
  <1>4. guest'[i] = r.guest /\ \A j \in Ids \ {i} : guest'[j] = guest[j]
    BY <1>1, <1>2
  <1>5. r.guest.backlog = Tail(q) \/ r.guest.backlog = <<>>
    BY <1>2 DEF Served
  <1>6. c \in Conns \cup {Nobody}
    BY <1>1 DEF Connection, Conns
  <1>7. CASE c = Nobody
    <2>1. thread' = thread
      BY <1>2, <1>7
    <2>2. Owned(Tail(q), i, thread')
      <3>1. \A d \in Conns \ {Head(q).from} : thread'[d] = thread[d]
        BY <2>1
      <3> QED BY <1>1, <1>3, <3>1, OwnedTail
    <2>3. ASSUME NEW j \in Ids PROVE Owned(guest'[j].backlog, j, thread')
      BY <1>4, <1>5, <2>1, <2>2, OwnedEmpty DEF CallInvariant, BacklogInvariant
    <2>4. BacklogInvariant' /\ ReplyInvariant'
      BY <2>1, <2>3 DEF CallInvariant, BacklogInvariant, ReplyInvariant, At
    <2>5. ASSUME NEW d \in Conns, Believes(thread[d]) PROVE ~guest'[Id(d)].mounted
      <3>1. lock # Nobody /\ Id(d) \in Ids /\ ~guest[Id(d)].mounted
        BY <2>5, BelieverHolds DEF CallInvariant, CleanInvariant
      <3> QED BY <3>1, NoMountUnderLock
    <2>6. CleanInvariant'
      BY <2>1, <2>5 DEF CleanInvariant, Id
    <2> QED BY <2>4, <2>6 DEF CallInvariant
  <1>8. CASE c # Nobody
    <2>1. c \in Conns /\ thread[c] \in Thread
      BY <1>1, <1>6, <1>8
    <2>2. Awaits(thread[c], i, Head(q).cmd)
      BY <1>3, <1>8 DEF Owned
    <2> DEFINE cmd == Head(q).cmd
    <2> HIDE DEF c, q, g
    <2>3. thread' = [thread EXCEPT ![c].reply = r.reply]
      BY <1>2, <1>8
    <2>4. /\ \A d \in Conns \ {c} : thread'[d] = thread[d]
          /\ thread'[c].at = "wait" /\ thread'[c].req = thread[c].req
          /\ thread'[c].reply = r.reply
      BY <1>1, <2>1, <2>2, <2>3 DEF Awaits, Thread
    <2>5. ASSUME NEW j \in Ids PROVE Owned(guest'[j].backlog, j, thread')
      <3>1. CASE j = i
        <4>1. Owned(Tail(q), i, thread')
          BY <1>1, <1>3, <2>4, OwnedTail DEF c
        <4> QED BY <1>4, <1>5, <3>1, <4>1, OwnedEmpty
      <3>2. CASE j # i
        <4>1. guest[j].backlog \in Seq(Connection) /\ guest'[j].backlog = guest[j].backlog
          BY <1>4, <3>2, Backlogs
        <4>2. Owned(guest[j].backlog, j, thread)
          BY DEF CallInvariant, BacklogInvariant
        <4>3. thread[c].target # j
          BY <2>2, <3>2 DEF Awaits
        <4>4. NotFrom(c, guest[j].backlog)
          BY <1>8, <4>2, <4>3 DEF Owned, NotFrom, Awaits
        <4> QED BY <2>1, <2>4, <4>1, <4>2, <4>4, OwnedElsewhere
      <3> QED BY <3>1, <3>2
    <2>6. Believes(thread'[c]) => ~guest'[thread'[c].req.id].mounted
      <3> SUFFICES ASSUME Believes(thread'[c]) PROVE ~guest'[thread[c].req.id].mounted
        BY <2>4
      <3>1. r.reply = "unmounted" /\ thread[c].req.op = "stop"
        BY <2>4 DEF Believes
      <3>2. thread[c].req.id = i
        BY <2>1, <2>2, <3>1, UnderWay DEF Awaits, Placed, At, Locked
      <3>3. ~r.guest.mounted
        BY <1>2, <3>1 DEF Served, g, q
      <3> QED BY <1>4, <3>2, <3>3
    <2> QED BY <2>1, <2>4, <2>5, <2>6, CallStep
  <1> QED BY <1>7, <1>8

LEMMA NextCalls ==
  ASSUME Control, Control', CallInvariant, [Next]_vars
  PROVE  CallInvariant'
  <1>1. CASE UNCHANGED vars
    BY <1>1, IdleCalls DEF vars
  <1>2. ASSUME NEW c \in Conns, Serve(c) PROVE CallInvariant'
    <2>1. Plain(c) => guest' = guest
      BY GuestsLeftAlone, Zenon DEF Plain
    <2>2. CASE Plain(c)
      BY <2>1, <2>2, PlainOnward, PlainCalls
    <2> QED BY <1>2, <2>2, EndCalls, StartCalls, KillCalls, ReturnCalls, CallingCalls, Zenon
        DEF Serve, Plain
  <1>3. ASSUME NEW c \in Conns, ReadFrame(c) \/ EndOfStream(c) \/ GiveUp(c)
        PROVE  CallInvariant'
    <2>1. thread' = thread /\ guest' = guest
      BY <1>3 DEF ReadFrame, EndOfStream, GiveUp
    <2> QED BY <2>1, IdleCalls
  <1>4. CASE Next
    BY <1>2, <1>3, <1>4, AskCalls, EndCalls, GuestCalls, HandledCalls, Zenon DEF Next
  <1> QED BY <1>1, <1>4

LEMMA CallsAlways == Spec => []CallInvariant
  <1>1. Init => CallInvariant
    BY DEF Init, CallInvariant, BacklogInvariant, ReplyInvariant, CleanInvariant, Owned,
           Believes, NeverBooted, NoThread, At
  <1>2. Control /\ Control' /\ CallInvariant /\ [Next]_vars => CallInvariant'
    BY NextCalls
  <1> QED BY <1>1, <1>2, ControlAlways, PTL DEF Spec

\* shutdown_via_agent and stop: the outcome that is recorded as clean is that of
\* the unmount in this guest, whatever frames were left in its backlog by
\* callers that gave up and however many threads call agents meanwhile.
THEOREM CleanStopTheorem == Spec => []CleanStopIsTrue
  <1>1. CallInvariant => CleanStopIsTrue
    BY DEF CallInvariant, CleanInvariant, CleanStopIsTrue, Believes, At, Op
  <1> QED BY <1>1, CallsAlways, PTL

-----------------------------------------------------------------------------
(* Reads without the lock: what seen has recorded against what the thread    *)
(* has found so far.                                                         *)

\* t: the thread of a list or describe, s: what it could have seen, now: the
\* spaces there are.
Regular(t, s, now) ==
  /\ s.always \subseteq now /\ now \subseteq s.ever
  /\ t.found \subseteq s.ever
  /\ t.at = "load" => t.found = {} /\ t.file = NoId
  /\ t.at = "file" =>
       /\ s.always \subseteq t.found \cup t.todo \cup {t.file}
       /\ t.file # NoId => t.file \in s.ever
  /\ t.at \in {"probe", "wait"} /\ t.req.op = "list" => s.always \subseteq t.found
  /\ t.at = "answer" =>
       IF t.out = "ok" THEN t.req.op = "list" => s.always \subseteq t.found
       ELSE \/ s.always # s.ever
            \/ t.req.op = "describe" /\ t.req.id \notin s.ever

ReadInvariant ==
  \A c \in Conns :
    ~At(c, "none") /\ Op(c) \in Reads => Regular(thread[c], seen[c], Stored)

\* A step of a handler other than its end keeps its request and concerns only
\* its own thread.
LEMMA OwnThread ==
  ASSUME Control, NEW c \in Conns, Serve(c), ~Answer(c)
  PROVE  /\ ~At(c, "none")
         /\ \A d \in Conns \ {c} : thread'[d] = thread[d]
         /\ thread'[c].req = thread[c].req
  <1>1. thread \in [Conns -> Thread] /\ thread[c] \in Thread
    BY DEF Control, TypeOK
  <1> DEFINE Own == /\ ~At(c, "none")
                    /\ \A d \in Conns \ {c} : thread'[d] = thread[d]
                    /\ thread'[c].req = thread[c].req
  <1>2. CASE Plain(c)
    BY <1>2, PlainOnward DEF Onward, At
  <1>3. ASSUME NEW op, NEW allowed, Refuse(c, op, allowed) PROVE Own
    BY <1>3, RefuseOnward DEF Onward, At
  <1>4. ASSUME NEW i, NEW cmd, Call(c, i, cmd), ~At(c, "none") PROVE Own
    BY <1>1, <1>4 DEF Call, Thread
  <1>5. CASE Start(c)
    <2>1. ASSUME At(c, "lock"), Goto(c, "health") \/ Decide(c, "release", "error") PROVE Own
      BY <1>1, <2>1 DEF Goto, Decide, Thread, At
    <2> QED BY <1>3, <1>5, <2>1, Zenon DEF Start
  <1>6. CASE Stop(c) \/ OpenWindow(c)
    <2>1. At(c, "lock") => ~At(c, "none")
      BY DEF At
    <2> QED BY <1>3, <1>4, <1>6, <2>1, Zenon DEF Stop, OpenWindow
  <1>7. CASE KillAndReap(c)
    BY <1>1, <1>7 DEF KillAndReap, Decide, Thread, At
  <1>8. CASE CallAgent(c)
    BY <1>4, <1>8 DEF CallAgent, At
  <1>9. CASE Probe(c)
    <2>1. ~At(c, "none")
      BY <1>9 DEF Probe, At
    <2> DEFINE i == CHOOSE i \in thread[c].todo : TRUE
    <2>2. Call(c, i, "health") \/ thread' = [thread EXCEPT ![c].todo = @ \ {i}]
      BY <1>9 DEF Probe
    <2> HIDE DEF i
    <2>3. CASE thread' = [thread EXCEPT ![c].todo = @ \ {i}]
      BY <1>1, <2>1, <2>3 DEF Thread
    <2> QED BY <1>4, <2>1, <2>2, <2>3
  <1>10. CASE TakeReply(c) \/ CallFails(c)
    <2>1. At(c, "wait") /\ ~At(c, "none")
      BY <1>10 DEF TakeReply, CallFails, At
    <2>2. PICK reply : \E t \in AfterCall(c, reply) : thread' = [thread EXCEPT ![c] = t]
      BY <1>10 DEF TakeReply, CallFails
    <2>3. PICK t \in AfterCall(c, reply) : thread' = [thread EXCEPT ![c] = t]
      BY <2>2
    <2>4. t.req = thread[c].req
      BY <2>1, UnderWay, AfterCallReturns DEF Returns
    <2> QED BY <1>1, <2>1, <2>3, <2>4
  <1> QED BY <1>2, <1>5, <1>6, <1>7, <1>8, <1>9, <1>10, Zenon DEF Serve, Plain

\* What a reader could have seen follows the store.
LEMMA RegularThroughChange ==
  ASSUME NEW t, NEW s, NEW r, NEW old, NEW now, Regular(t, s, old),
         r.always = s.always \cap now, r.ever = s.ever \cup now
  PROVE  Regular(t, r, now)
  <1>1. s.always \subseteq s.ever
    BY DEF Regular
  <1>2. s.always # s.ever => r.always # r.ever
    BY <1>1
  <1>3. t.req.id \notin s.ever => r.always # r.ever \/ t.req.id \notin r.ever
    BY <1>1
  <1> QED BY <1>2, <1>3 DEF Regular

\* Regular does not look at what a call leaves in the thread.
LEMMA RegularSame ==
  ASSUME NEW t, NEW u, NEW s, NEW now, Regular(t, s, now), u.req = t.req,
         u.at = t.at, u.out = t.out, u.found = t.found, u.todo = t.todo, u.file = t.file
  PROVE  Regular(u, s, now)
  BY DEF Regular

\* Enough for a step of one thread that leaves config.toml everywhere as it is.
LEMMA ReadStep ==
  ASSUME Control, ReadInvariant, NEW c \in Conns,
         \A d \in Conns \ {c} : thread'[d] = thread[d] /\ seen'[d] = seen[d],
         Stored' = Stored,
         thread'[c].at # "none" /\ thread'[c].req.op \in Reads
           => Regular(thread'[c], seen'[c], Stored)
  PROVE  ReadInvariant'
  BY DEF ReadInvariant, At, Op

\* The spaces there are change only where config.toml is written or unlinked.
LEMMA StoredSame ==
  ASSUME Control, NEW c \in Conns, Create(c) \/ RemoveDir(c)
  PROVE  Stored' = Stored
  <1>1. CASE store' = store
    BY <1>1 DEF Stored
  <1>2. CASE \E dir \in {"absent", "bare"} :
               Id(c) \notin Stored /\ store' = [store EXCEPT ![Id(c)] = dir]
    BY <1>2 DEF Stored, Control, TypeOK
  <1>3. CASE Create(c)
    <2>1. Refuse(c, "create", Id(c) \notin Stored) => store' = store
      BY DEF Refuse, disk
    <2> QED BY <1>1, <1>2, <1>3, <2>1 DEF Create
  <1>4. CASE RemoveDir(c)
    <2>1. At(c, "rmdir") /\ ~At(c, "none")
      BY <1>4 DEF RemoveDir, At
    <2>2. store[Id(c)] = "bare"
      BY <2>1, UnderWay DEF Placed, MayBeAt, InHandler, Directory, At, Locked, Reads
    <2> QED BY <1>2, <1>4, <2>2 DEF RemoveDir, Stored
  <1> QED BY <1>3, <1>4

\* The steps of the handlers that do not read the store.
LEMMA HandlerReads ==
  ASSUME Control, ReadInvariant, NEW c \in Conns,
         \/ Reject(c) \/ Release(c) \/ CallAgent(c)
         \/ Create(c) \/ CreateVolumes(c) \/ Destroy(c) \/ RemoveDir(c)
         \/ Start(c) \/ Progress(c) \/ Stop(c) \/ KillAndReap(c)
         \/ OpenWindow(c) \/ BuildLine(c) \/ BuildEnds(c)
  PROVE  ReadInvariant'
  <1>1. Serve(c) /\ ~Answer(c)
    <2>1. Serve(c)
      BY Zenon DEF Serve
    <2>2. ~At(c, "answer")
      BY DEF At, Reject, Release, CallAgent, Create, Refuse, CreateVolumes, Destroy, RemoveDir,
             Start, Progress, Stop, KillAndReap, OpenWindow, BuildLine, BuildEnds
    <2> QED BY <2>1, <2>2 DEF Answer
  <1>2. Op(c) \notin Reads
    <2>1. \/ thread[c].at \in {"reject", "release", "health", "exec-app", "volumes", "lock",
                               "rmdir", "progress", "kill", "build"}
      BY DEF At, Reject, Release, CallAgent, Create, Refuse, CreateVolumes, Destroy, RemoveDir,
             Start, Progress, Stop, KillAndReap, OpenWindow, BuildLine, BuildEnds
    <2> QED BY <1>1, <2>1, OwnThread, UnderWay DEF Placed, MayBeAt, Op, Locked, Reads
  <1>3. seen' = seen
    <2>1. Reject(c) \/ Release(c) \/ CallAgent(c) \/ CreateVolumes(c) => seen' = seen
      BY DEF Reject, Release, CallAgent, CreateVolumes, disk
    <2>2. Create(c) \/ RemoveDir(c) \/ Destroy(c) => seen' = seen
      BY DEF Create, RemoveDir, Destroy, Refuse, disk
    <2>3. Start(c) => seen' = seen
      BY DEF Start, Refuse, disk
    <2>4. ASSUME NEW op, NEW allowed, Refuse(c, op, allowed) PROVE seen' = seen
      BY <2>4 DEF Refuse, disk
    <2>5. UNCHANGED <<link, disk>> => seen' = seen
      BY DEF disk
    <2>6. Stop(c) \/ OpenWindow(c) => seen' = seen
      BY <2>4, <2>5, Zenon DEF Stop, OpenWindow
    <2>7. Progress(c) \/ KillAndReap(c) \/ BuildLine(c) \/ BuildEnds(c) => seen' = seen
      BY DEF Progress, KillAndReap, BuildLine, BuildEnds, disk
    <2> QED BY <2>1, <2>2, <2>3, <2>6, <2>7, Zenon
  <1>4. Stored' = Stored
    <2>1. Reject(c) \/ Release(c) \/ CallAgent(c) \/ CreateVolumes(c) => store' = store
      BY DEF Reject, Release, CallAgent, CreateVolumes, disk
    <2>2. Destroy(c) => store' = store
      BY DEF Destroy, Refuse, disk
    <2>3. Start(c) => store' = store
      BY DEF Start, Refuse, disk
    <2>4. ASSUME NEW op, NEW allowed, Refuse(c, op, allowed) PROVE store' = store
      BY <2>4 DEF Refuse, disk
    <2>5. UNCHANGED <<link, disk>> => store' = store
      BY DEF disk
    <2>6. Stop(c) \/ OpenWindow(c) => store' = store
      BY <2>4, <2>5, Zenon DEF Stop, OpenWindow
    <2>7. Progress(c) \/ KillAndReap(c) \/ BuildLine(c) \/ BuildEnds(c) => store' = store
      BY DEF Progress, KillAndReap, BuildLine, BuildEnds, disk
    <2>8. store' = store => Stored' = Stored
      BY DEF Stored
    <2> QED BY <2>1, <2>2, <2>3, <2>6, <2>7, <2>8, StoredSame, Zenon
  <1> QED BY <1>1, <1>2, <1>3, <1>4, OwnThread, ReadStep DEF Op

LEMMA ChangeReads ==
  ASSUME Control, ReadInvariant, NEW c \in Conns, WriteConfig(c) \/ UnlinkConfig(c)
  PROVE  ReadInvariant'
  <1>1. /\ Serve(c) /\ ~Answer(c) /\ ~At(c, "none")
        /\ thread[c].at \in {"config", "unlink"}
    BY DEF Serve, WriteConfig, UnlinkConfig, Answer, At
  <1>2. Op(c) \in {"create", "destroy"} /\ Id(c) \in Ids
    BY <1>1, UnderWay DEF Placed, MayBeAt, Op, Locked, Reads
  <1>3. Witness(Stored')
    <2>1. CASE WriteConfig(c)
      <3>1. Stored' = Stored \cup {Id(c)}
        BY <1>2, <2>1 DEF WriteConfig, Stored, Control, TypeOK
      <3> QED BY <2>1, <3>1 DEF WriteConfig
    <2>2. CASE UnlinkConfig(c)
      <3>1. Stored' = Stored \ {Id(c)}
        BY <1>2, <2>2 DEF UnlinkConfig, Stored, Control, TypeOK
      <3> QED BY <2>2, <3>1 DEF UnlinkConfig
    <2> QED BY <2>1, <2>2
  <1> SUFFICES ASSUME NEW d \in Conns, thread'[d].at # "none", thread'[d].req.op \in Reads
               PROVE  Regular(thread'[d], seen'[d], Stored')
    BY DEF ReadInvariant, At, Op
  <1>4. thread'[c].req.op \notin Reads
    BY <1>1, <1>2, OwnThread DEF Op, Reads
  <1>5. d # c /\ thread'[d] = thread[d]
    BY <1>1, <1>4, OwnThread
  <1>6. thread[d].req # NoRequest /\ Op(d) \in Reads /\ ~At(d, "none")
    BY <1>5, UnderWay, ServiceAssumption DEF Placed, At, Op
  <1>7. /\ seen'[d].always = seen[d].always \cap Stored'
        /\ seen'[d].ever = seen[d].ever \cup Stored'
    BY <1>3, <1>6 DEF Witness
  <1>8. Regular(thread[d], seen[d], Stored)
    BY <1>6 DEF ReadInvariant
  <1> QED BY <1>5, <1>7, <1>8, RegularThroughChange

\* What a reader under way knows.
LEMMA Reader ==
  ASSUME Control, ReadInvariant, NEW c \in Conns, ~At(c, "none"), Op(c) \in Reads
  PROVE  /\ Regular(thread[c], seen[c], Stored) /\ thread[c] \in Thread
         /\ seen[c].always \subseteq Ids /\ thread[c].req.op \in Reads
  BY DEF ReadInvariant, Control, TypeOK, Op

\* The steps in which list and describe read the directory.
LEMMA LoadReads ==
  ASSUME Control, ReadInvariant, NEW c \in Conns,
         LoadStore(c) \/ IsFile(c) \/ ReadConfig(c) \/ Loaded(c) \/ Observed(c)
  PROVE  ReadInvariant'
  <1> DEFINE t == thread[c]
             u == thread'[c]
             s == seen[c]
  <1>1. /\ Serve(c) /\ ~Answer(c) /\ thread[c].at \in {"load", "file", "probe"}
        /\ ~At(c, "none") /\ UNCHANGED disk
    BY DEF Serve, LoadStore, IsFile, ReadConfig, Loaded, Observed, Answer, At
  <1>2. store' = store /\ seen' = seen /\ Stored' = Stored
    BY <1>1 DEF disk, Stored
  <1>3. thread \in [Conns -> Thread] /\ t \in Thread /\ Op(c) \in Reads
    BY <1>1, UnderWay DEF Placed, MayBeAt, Op, Locked, Reads
  <1>4. Regular(t, s, Stored) /\ s.always \subseteq Ids
    BY <1>1, <1>3, Reader
  <1>5. Regular(u, s, Stored)
    <2>1. CASE LoadStore(c)
      <3>1. /\ u.req = t.req /\ u.at = "file" /\ u.found = t.found /\ u.file = t.file
            /\ u.todo = {i \in Ids : store[i] # "absent"}
        BY <1>3, <2>1 DEF LoadStore, Thread
      <3>2. At(c, "load") /\ Stored \subseteq u.todo
        BY <2>1, <3>1 DEF LoadStore, Stored
      <3> QED BY <1>4, <3>1, <3>2 DEF Regular, At
    <2>2. CASE IsFile(c)
      <3>1. PICK i \in t.todo :
              thread' = [thread EXCEPT ![c].todo = @ \ {i},
                                       ![c].file = IF store[i] = "full" THEN i ELSE NoId]
        BY <2>2 DEF IsFile
      <3>2. /\ u.req = t.req /\ u.at = t.at /\ u.found = t.found /\ u.todo = t.todo \ {i}
            /\ u.file = IF store[i] = "full" THEN i ELSE NoId
        BY <1>3, <3>1 DEF Thread
      <3>3. At(c, "file") /\ t.file = NoId /\ i \in Ids /\ (store[i] = "full" <=> i \in Stored)
        BY <1>3, <2>2, <3>1 DEF IsFile, Stored, Thread
      <3>4. s.always \subseteq t.found \cup t.todo
        <4>1. NoId \notin s.always
          BY <1>4, ServiceAssumption
        <4> QED BY <1>4, <3>3, <4>1 DEF Regular, At
      <3>5. s.always \subseteq u.found \cup u.todo \cup {u.file}
        BY <1>4, <3>2, <3>3, <3>4 DEF Regular
      <3>6. u.file # NoId => u.file \in s.ever
        BY <1>4, <3>2, <3>3 DEF Regular
      <3> QED BY <1>4, <3>2, <3>3, <3>5, <3>6 DEF Regular, At
    <2>3. CASE ReadConfig(c) /\ store[t.file] = "full"
      <3>1. thread' = [thread EXCEPT ![c].file = NoId, ![c].found = @ \cup {thread[c].file}]
        BY <2>3 DEF ReadConfig
      <3>2. /\ u.req = t.req /\ u.at = t.at /\ u.todo = t.todo /\ u.file = NoId
            /\ u.found = t.found \cup {t.file}
        BY <1>3, <3>1 DEF Thread
      <3>3. At(c, "file") /\ t.file # NoId
        BY <2>3 DEF ReadConfig
      <3> QED BY <1>4, <3>2, <3>3 DEF Regular, At
    <2>4. CASE ReadConfig(c) /\ store[t.file] # "full"
      <3>1. Decide(c, "answer", "error")
        BY <2>4 DEF ReadConfig
      <3>2. u.req = t.req /\ u.at = "answer" /\ u.out = "error" /\ u.found = t.found
        BY <1>3, <3>1 DEF Decide, Thread
      <3>3. At(c, "file") /\ t.file # NoId /\ t.file \notin Stored
        BY <2>4 DEF ReadConfig, Stored
      <3>4. s.always # s.ever
        BY <1>4, <3>3 DEF Regular, At
      <3> QED BY <1>4, <3>2, <3>4 DEF Regular
    <2>5. CASE Loaded(c)
      <3>1. At(c, "file") /\ t.file = NoId /\ t.todo = {}
        BY <2>5 DEF Loaded
      <3>2. s.always \subseteq t.found
        <4>1. NoId \notin s.always
          BY <1>4, ServiceAssumption
        <4> QED BY <1>4, <3>1, <4>1 DEF Regular, At
      <3>3. CASE Op(c) = "describe" /\ Id(c) \notin t.found
        <4>1. Decide(c, "answer", "error")
          BY <2>5, <3>3 DEF Loaded
        <4>2. u.req = t.req /\ u.at = "answer" /\ u.out = "error" /\ u.found = t.found
          BY <1>3, <4>1 DEF Decide, Thread
        <4>3. s.always # s.ever \/ t.req.id \notin s.ever
          BY <3>2, <3>3 DEF Id
        <4> QED BY <1>4, <3>3, <4>2, <4>3 DEF Regular, Op
      <3>4. CASE ~(Op(c) = "describe" /\ Id(c) \notin t.found)
        <4>1. thread' = [thread EXCEPT ![c].at = "probe",
                           ![c].todo = IF Op(c) = "list" THEN thread[c].found ELSE {Id(c)}]
          BY <2>5, <3>4 DEF Loaded
        <4>2. u.req = t.req /\ u.at = "probe" /\ u.found = t.found
          BY <1>3, <4>1 DEF Thread
        <4> QED BY <1>4, <3>2, <4>2 DEF Regular
      <3> QED BY <3>3, <3>4
    <2>6. CASE Observed(c)
      <3>1. u.req = t.req /\ u.at = "answer" /\ u.out = "ok" /\ u.found = t.found
        BY <1>3, <2>6 DEF Observed, Decide, Thread
      <3>2. At(c, "probe")
        BY <2>6 DEF Observed
      <3> QED BY <1>4, <3>1, <3>2 DEF Regular, At
    <2> QED BY <2>1, <2>2, <2>3, <2>4, <2>5, <2>6
  <1> HIDE DEF u, s, t
  <1> QED BY <1>1, <1>2, <1>5, OwnThread, ReadStep DEF u, s

\* The steps in which they ask agents, and those of start, stop and open-window.
LEMMA AskingReads ==
  ASSUME Control, ReadInvariant, NEW c \in Conns, Probe(c) \/ TakeReply(c) \/ CallFails(c)
  PROVE  ReadInvariant'
  <1> DEFINE t == thread[c]
             u == thread'[c]
             s == seen[c]
  <1>1. /\ Serve(c) /\ ~Answer(c) /\ thread[c].at \in {"probe", "wait"} /\ ~At(c, "none")
    BY DEF Serve, Probe, TakeReply, CallFails, Answer, At
  <1>2. store' = store /\ seen' = seen /\ Stored' = Stored
    BY DEF Probe, TakeReply, CallFails, disk, Stored
  <1>3. thread \in [Conns -> Thread] /\ t \in Thread
    BY DEF Control, TypeOK
  <1>4. Op(c) \in Reads => u.at \in {"probe", "wait"} /\ u.found = t.found
    <2>1. CASE Probe(c)
      <3> DEFINE i == CHOOSE i \in thread[c].todo : TRUE
      <3>1. \/ thread' = [thread EXCEPT ![c].at = "wait", ![c].cmd = "health",
                                        ![c].target = i, ![c].todo = @ \ {i}]
            \/ thread' = [thread EXCEPT ![c].todo = @ \ {i}]
        BY <2>1 DEF Probe, Call
      <3> HIDE DEF i
      <3> QED BY <1>1, <1>3, <3>1 DEF Thread
    <2>2. CASE TakeReply(c) \/ CallFails(c)
      <3>1. At(c, "wait")
        BY <2>2 DEF TakeReply, CallFails
      <3>2. PICK reply : \E v \in AfterCall(c, reply) : thread' = [thread EXCEPT ![c] = v]
        BY <2>2 DEF TakeReply, CallFails
      <3>3. PICK v \in AfterCall(c, reply) : thread' = [thread EXCEPT ![c] = v]
        BY <3>2
      <3>4. Returns(t, v)
        BY <1>1, <3>1, UnderWay, AfterCallReturns
      <3>5. u = v
        BY <1>3, <3>3
      <3> QED BY <3>4, <3>5 DEF Returns, Op, Reads
    <2> QED BY <2>1, <2>2
  <1>5. Op(c) \in Reads => Regular(u, s, Stored)
    <2> SUFFICES ASSUME Op(c) \in Reads PROVE Regular(u, s, Stored)
      OBVIOUS
    <2>1. Regular(t, s, Stored) /\ u.req = t.req
      BY <1>1, Reader, OwnThread
    <2> QED BY <1>1, <1>4, <2>1 DEF Regular
  <1>6. u.req.op \in Reads => Op(c) \in Reads
    BY <1>1, OwnThread DEF Op
  <1> HIDE DEF u, s, t
  <1> QED BY <1>1, <1>2, <1>5, <1>6, OwnThread, ReadStep DEF u, s

LEMMA EndReads ==
  ASSUME Control, ReadInvariant, NEW c \in Conns, Answer(c) \/ Panic(c)
  PROVE  ReadInvariant'
  <1>1. Close(c) /\ store' = store
    BY DEF Answer, Panic
  <1>2. \A d \in Conns \ {c} : seen'[d] = seen[d]
    BY <1>1 DEF Close, Control, TypeOK
  <1>3. Stored' = Stored
    BY <1>1 DEF Stored
  <1> QED BY <1>1, <1>2, <1>3, Closed, ReadStep

LEMMA AskReads ==
  ASSUME Control, ReadInvariant, NEW c \in Conns, NEW req \in Requests, Ask(c, req)
  PROVE  ReadInvariant'
  <1> DEFINE u == [NoThread EXCEPT !.req = req, !.at = Dispatch(req)]
  <1>1. /\ NoThread \in Thread /\ NoThread.found = {} /\ NoThread.file = NoId
    BY NoThreadType DEF NoThread
  <1>2. u.req = req /\ u.at = Dispatch(req) /\ u.found = {} /\ u.file = NoId
    BY <1>1 DEF Thread
  <1>3. thread'[c] = u /\ \A d \in Conns \ {c} : thread'[d] = thread[d]
    BY DEF Ask, Control, TypeOK
  <1> HIDE DEF u
  <1>4. /\ \A d \in Conns \ {c} : seen'[d] = seen[d]
        /\ req.op \in Reads => seen'[c] = [always |-> Stored, ever |-> Stored]
    BY DEF Ask, Control, TypeOK
  <1>5. Stored' = Stored
    BY DEF Ask, Stored
  <1>6. req.op \in Reads => Regular(u, seen'[c], Stored)
    <2> SUFFICES ASSUME req.op \in Reads PROVE Regular(u, seen'[c], Stored)
      OBVIOUS
    <2>1. Dispatch(req) \in {"load", "build", "reject"}
      BY DispatchPlaces DEF Locked, Reads
    <2>2. seen'[c].always = Stored /\ seen'[c].ever = Stored
      BY <1>4
    <2> QED BY <1>2, <2>1, <2>2 DEF Regular
  <1> QED BY <1>2, <1>3, <1>4, <1>5, <1>6, ReadStep

\* Steps of clients and guests: threads at most learn their replies.
LEMMA OutsideReads ==
  ASSUME Control, ReadInvariant, UNCHANGED disk,
         \/ thread' = thread
         \/ \E c \in Conns, reply \in Replies : thread' = [thread EXCEPT ![c].reply = reply]
  PROVE  ReadInvariant'
  <1>1. store' = store /\ seen' = seen /\ Stored' = Stored
    BY DEF disk, Stored
  <1>2. ASSUME NEW d \in Conns
        PROVE  /\ thread'[d].at = thread[d].at /\ thread'[d].req = thread[d].req
               /\ thread'[d].out = thread[d].out /\ thread'[d].found = thread[d].found
               /\ thread'[d].todo = thread[d].todo /\ thread'[d].file = thread[d].file
    <2>1. CASE \E c \in Conns, reply \in Replies : thread' = [thread EXCEPT ![c].reply = reply]
      <3>1. PICK c \in Conns, reply \in Replies : thread' = [thread EXCEPT ![c].reply = reply]
        BY <2>1
      <3>2. thread'[d] = thread[d] \/ thread'[d] = [thread[d] EXCEPT !.reply = reply]
        BY <3>1 DEF Control, TypeOK
      <3> QED BY <3>2 DEF Control, TypeOK, Thread
    <2> QED BY <2>1
  <1> SUFFICES ASSUME NEW d \in Conns, thread[d].at # "none", thread[d].req.op \in Reads
               PROVE  Regular(thread'[d], seen[d], Stored)
    BY <1>1, <1>2 DEF ReadInvariant, At, Op
  <1>3. Regular(thread[d], seen[d], Stored)
    BY DEF ReadInvariant, At, Op
  <1> QED BY <1>2, <1>3, RegularSame

LEMMA NextReads ==
  ASSUME Control, ReadInvariant, [Next]_vars
  PROVE  ReadInvariant'
  <1>1. CASE UNCHANGED vars
    BY <1>1, OutsideReads DEF vars, disk
  <1>2. ASSUME NEW c \in Conns, Serve(c) PROVE ReadInvariant'
    BY <1>2, HandlerReads, ChangeReads, LoadReads, AskingReads, EndReads, Zenon DEF Serve
  <1>3. ASSUME NEW c \in Conns, ReadFrame(c) \/ EndOfStream(c) \/ GiveUp(c)
        PROVE  ReadInvariant'
    <2>1. thread' = thread /\ UNCHANGED disk
      BY <1>3 DEF ReadFrame, EndOfStream, GiveUp, disk
    <2> QED BY <2>1, OutsideReads
  <1>4. ASSUME NEW c \in Conns, NEW req \in MayAsk[c], Ask(c, req) PROVE ReadInvariant'
    <2>1. req \in Requests
      BY <1>4, ServiceAssumption
    <2> QED BY <1>4, <2>1, AskReads
  <1>5. ASSUME NEW i \in Ids, AgentListens(i) \/ AppExits(i) \/ GuestDies(i)
        PROVE  ReadInvariant'
    <2>1. thread' = thread /\ UNCHANGED disk
      BY <1>5 DEF AgentListens, AppExits, GuestDies
    <2> QED BY <2>1, OutsideReads
  <1>6. ASSUME NEW i \in Ids, AgentHandles(i) PROVE ReadInvariant'
    <2> DEFINE c == Head(guest[i].backlog).from
    <2>1. guest \in [Ids -> Guest]
      BY DEF Control, TypeOK
    <2>2. PICK r : /\ Served(guest[i], r)
                   /\ thread' = IF c = Nobody THEN thread
                                ELSE [thread EXCEPT ![c].reply = r.reply]
      BY <1>6, <2>1, HandlesServes
    <2>3. c \in Conns \cup {Nobody} /\ UNCHANGED disk
      BY <1>6, <2>1, HandlesServes DEF Connection, Conns
    <2>4. r.reply \in Replies
      BY <2>2 DEF Served
    <2> HIDE DEF c
    <2> QED BY <2>2, <2>3, <2>4, OutsideReads
  <1>7. CASE Next
    BY <1>2, <1>3, <1>4, <1>5, <1>6, <1>7, EndReads, Zenon DEF Next
  <1> QED BY <1>1, <1>7

\* list and describe, which take no lock: a space that is in the store for the
\* whole request is found, one that is found was in the store during the
\* request, and an error about the store has a change of the store behind it.
THEOREM ReadsAreRegularTheorem == Spec => []ReadsAreRegular
  <1>1. Init => ReadInvariant
    BY DEF Init, ReadInvariant, NoThread, At
  <1>2. Control /\ ReadInvariant /\ [Next]_vars => ReadInvariant'
    BY NextReads
  <1>3. Control /\ ReadInvariant => ReadsAreRegular
    <2> SUFFICES ASSUME Control, ReadInvariant, NEW c \in Conns,
                        At(c, "answer"), Op(c) \in Reads
                 PROVE  IF thread[c].out = "ok"
                        THEN /\ Op(c) = "list" => seen[c].always \subseteq thread[c].found
                             /\ thread[c].found \subseteq seen[c].ever
                        ELSE \/ seen[c].always # seen[c].ever
                             \/ Op(c) = "describe" /\ Id(c) \notin seen[c].ever
      BY DEF ReadsAreRegular
    <2>1. Regular(thread[c], seen[c], Stored)
      BY DEF ReadInvariant, At
    <2> QED BY <2>1 DEF Regular, At, Op, Id
  <1> QED BY <1>1, <1>2, <1>3, ControlAlways, PTL DEF Spec

-----------------------------------------------------------------------------
(* The daemon keeps the promise of Calls: every step of Service is one     *)
(* step of Calls, or none, under the mapping at the end of Service.        *)

(* The mapping, as functions of what they look at: the call of a client is a *)
(* view of its socket and thread, the world is the store as the handler that *)
(* holds the lock has found it.                                              *)

Decided(out, l) ==
  [st |-> "decided", req |-> NoRequest, out |-> out, listening |-> l]
Asked(req, l) == [st |-> "asked", req |-> req, out |-> "none", listening |-> l]
Broken(l) == [st |-> "broken", req |-> NoRequest, out |-> "none", listening |-> l]
NoCall == [st |-> "idle", req |-> NoRequest, out |-> "none", listening |-> FALSE]

View(cl, w, t) ==
  IF cl = "idle" THEN NoCall
  ELSE IF t.at = "answer" THEN Decided(t.out, cl = "waiting")
  ELSE IF t.at # "none" THEN Asked(t.req, cl = "waiting")
  ELSE IF w \in {<<"ok">>, <<"error">>} THEN Decided(Head(w), cl = "waiting")
  ELSE Broken(cl = "waiting")

LEMMA CallOfView ==
  ASSUME NEW c \in Conns
  PROVE  CallOf(c) = View(client[c], wire[c], thread[c])
  <1>1. CASE client[c] = "idle"
    BY <1>1, Zenon DEF CallOf, View, NoCall
  <1>2. CASE ~(client[c] = "idle") /\ thread[c].at = "answer"
    <2>1. ~(thread[c].at = "none")
      BY <1>2
    <2> QED BY <1>2, <2>1, Zenon DEF CallOf, View, Decided, At
  <1>3. CASE ~(client[c] = "idle") /\ thread[c].at = "none"
    <2>1. ~(thread[c].at = "answer")
      BY <1>3
    <2>2. CASE wire[c] \in {<<"ok">>, <<"error">>}
      BY <1>3, <2>1, <2>2, Zenon DEF CallOf, View, Decided, At
    <2>3. CASE ~(wire[c] \in {<<"ok">>, <<"error">>})
      BY <1>3, <2>1, <2>3, Zenon DEF CallOf, View, Broken, At
    <2> QED BY <2>2, <2>3
  <1>4. CASE ~(client[c] = "idle") /\ ~(thread[c].at = "answer") /\ ~(thread[c].at = "none")
    BY <1>4, Zenon DEF CallOf, View, Asked, At
  <1> QED BY <1>1, <1>2, <1>3, <1>4

LEMMA CallOfViewNext ==
  ASSUME NEW c \in Conns
  PROVE  CallOf(c)' = View(client'[c], wire'[c], thread'[c])
  <1>1. \A d \in Conns : CallOf(d) = View(client[d], wire[d], thread[d])
    BY CallOfView
  <1>2. (\A d \in Conns : CallOf(d) = View(client[d], wire[d], thread[d]))'
    BY <1>1, PTL
  <1> QED BY <1>2

\* A handler that has not released the lock, and will say ok if it has decided.
Undone(t) ==
  /\ t.at \in {"config", "volumes", "unlink", "rmdir", "release"}
  /\ t.at = "release" => t.out = "ok"

\* The spaces its thread t has found, those there are now being the set now.
Found(now, t) ==
  IF Undone(t) /\ t.req.op = "create" THEN now \ {t.req.id}
  ELSE IF Undone(t) /\ t.req.op = "destroy" THEN now \cup {t.req.id}
  ELSE now

LEMMA WorldFound ==
  World = IF lock = Nobody THEN Stored ELSE Found(Stored, thread[lock])
  <1> DEFINE u == lock # Nobody /\ Undone(thread[lock])
             op == thread[lock].req.op
  <1>1. World = CASE u /\ op = "create"  -> Stored \ {Id(lock)}
                  [] u /\ op = "destroy" -> Stored \cup {Id(lock)}
                  [] OTHER -> Stored
    BY Zenon DEF World, Undone, At, Op
  <1> HIDE DEF u, op
  <1>2. CASE u /\ op = "create"
    <2>1. ~(op = "destroy")
      BY <1>2
    <2>2. World = Stored \ {Id(lock)}
      BY <1>1, <1>2, <2>1, Zenon
    <2> QED BY <1>2, <2>2 DEF u, op, Found, Id
  <1>3. CASE u /\ op = "destroy"
    <2>1. ~(op = "create")
      BY <1>3
    <2>2. World = Stored \cup {Id(lock)}
      BY <1>1, <1>3, <2>1, Zenon
    <2> QED BY <1>3, <2>1, <2>2 DEF u, op, Found, Id
  <1>4. CASE ~(u /\ op = "create") /\ ~(u /\ op = "destroy")
    <2>1. World = Stored
      BY <1>1, <1>4, Zenon
    <2> QED BY <1>4, <2>1 DEF u, op, Found
  <1> QED BY <1>2, <1>3, <1>4

LEMMA WorldFoundNext ==
  World' = IF lock' = Nobody THEN Stored' ELSE Found(Stored', thread'[lock'])
  <1>1. (World = IF lock = Nobody THEN Stored ELSE Found(Stored, thread[lock]))'
    BY WorldFound, PTL
  <1> QED BY <1>1, Zenon

-----------------------------------------------------------------------------
(* The steps of Calls, one call at a time. *)

Calls1 == [c \in Conns |-> CallOf(c)]

\* A step that concerns the call of c alone.
LEMMA OneCall ==
  ASSUME NEW c \in Conns, NEW r, CallOf(c)' = r,
         \A d \in Conns \ {c} : CallOf(d)' = CallOf(d)
  PROVE  Calls1' = [Calls1 EXCEPT ![c] = r]
  BY DEF Calls1

LEMMA AskStep ==
  ASSUME NEW c \in Conns, NEW req \in Requests, CallOf(c) = NoCall,
         CallOf(c)' = Asked(req, TRUE),
         \A d \in Conns \ {c} : CallOf(d)' = CallOf(d), World' = World
  PROVE  Promise!Ask(c)
  <1>1. Calls1' = [Calls1 EXCEPT ![c] = Asked(req, TRUE)]
    BY OneCall
  <1>2. Calls1[c].st = "idle"
    BY DEF Calls1, NoCall
  <1> QED BY <1>1, <1>2 DEF Promise!Ask, Asked, Calls1

LEMMA TakeEffectStep ==
  ASSUME NEW c \in Conns, NEW req, NEW l, NEW out, CallOf(c) = Asked(req, l),
         CallOf(c)' = Decided(out, l),
         \A d \in Conns \ {c} : CallOf(d)' = CallOf(d),
         [world |-> World', out |-> out] \in Promise!Outcomes(req, World)
  PROVE  Promise!TakeEffect(c)
  <1>1. Calls1' = [Calls1 EXCEPT ![c] = Decided(out, l)]
    BY OneCall
  <1>2. Calls1[c] = Asked(req, l)
    BY DEF Calls1
  <1>3. Calls1' = [Calls1 EXCEPT ![c] = [st |-> "decided", req |-> NoRequest, out |-> out,
                                         listening |-> @.listening]]
    BY <1>1, <1>2 DEF Asked, Decided
  <1>4. Calls1[c].st = "asked" /\ Calls1[c].req = req
    BY <1>2 DEF Asked
  <1> DEFINE o == [world |-> World', out |-> out]
  <1>5. o.world = World' /\ o.out = out
    OBVIOUS
  <1> HIDE DEF o
  <1>6. o \in Promise!Outcomes(req, World)
    BY DEF o
  <1> QED BY <1>3, <1>4, <1>5, <1>6 DEF Promise!TakeEffect, Calls1

LEMMA AnswerStep ==
  ASSUME NEW c \in Conns, NEW l, NEW out, CallOf(c) = Decided(out, l),
         CallOf(c)' = NoCall,
         \A d \in Conns \ {c} : CallOf(d)' = CallOf(d), World' = World
  PROVE  Promise!Answer(c)
  <1>1. Calls1' = [Calls1 EXCEPT ![c] = NoCall]
    BY OneCall
  <1>2. Calls1[c].st = "decided"
    BY DEF Calls1, Decided
  <1> QED BY <1>1, <1>2 DEF Promise!Answer, Promise!NoCall, NoCall, Calls1

LEMMA GiveUpStep ==
  ASSUME NEW c \in Conns, NEW r, CallOf(c) = r,
         (\E req : r = Asked(req, TRUE)) \/ (\E out : r = Decided(out, TRUE)),
         CallOf(c)' = [r EXCEPT !.listening = FALSE],
         \A d \in Conns \ {c} : CallOf(d)' = CallOf(d), World' = World
  PROVE  Promise!GiveUp(c)
  <1>1. Calls1' = [Calls1 EXCEPT ![c] = [r EXCEPT !.listening = FALSE]]
    BY OneCall
  <1>2. Calls1[c] = r /\ r.st \in {"asked", "decided"} /\ r.listening
    BY DEF Calls1, Asked, Decided
  <1> QED BY <1>1, <1>2 DEF Promise!GiveUp, Calls1

LEMMA NoticeBreakStep ==
  ASSUME NEW c \in Conns, NEW l, CallOf(c) = Broken(l), CallOf(c)' = NoCall,
         \A d \in Conns \ {c} : CallOf(d)' = CallOf(d), World' = World
  PROVE  Promise!NoticeBreak(c)
  <1>1. Calls1' = [Calls1 EXCEPT ![c] = NoCall]
    BY OneCall
  <1>2. Calls1[c].st = "broken"
    BY DEF Calls1, Broken
  <1> QED BY <1>1, <1>2 DEF Promise!NoticeBreak, Promise!NoCall, NoCall, Calls1

LEMMA BreakStep ==
  ASSUME NEW c \in Conns, NEW r, CallOf(c) = r, NEW l \in BOOLEAN,
         \/ /\ \E req : /\ r = Asked(req, l)
                        /\ \E out : [world |-> World', out |-> out] \in Promise!Outcomes(req, World)
         \/ /\ \E out : r = Decided(out, l)
            /\ World' = World,
         CallOf(c)' = IF l THEN Broken(TRUE) ELSE NoCall,
         \A d \in Conns \ {c} : CallOf(d)' = CallOf(d)
  PROVE  Promise!Break(c)
  <1>1. Calls1' = [Calls1 EXCEPT ![c] = IF l THEN Broken(TRUE) ELSE NoCall]
    BY OneCall
  <1>2. Calls1[c] = r /\ r.st \in {"asked", "decided"} /\ r.listening = l
    BY DEF Calls1, Asked, Decided
  <1>3. Calls1' = [Calls1 EXCEPT ![c] =
                     IF @.listening
                     THEN [Promise!NoCall EXCEPT !.st = "broken", !.listening = TRUE]
                     ELSE Promise!NoCall]
    BY <1>1, <1>2 DEF Promise!NoCall, NoCall, Broken
  <1>4. IF r.st = "asked"
        THEN \E o \in Promise!Outcomes(r.req, World) : World' = o.world
        ELSE World' = World
    <2>1. CASE \E req : /\ r = Asked(req, l)
                        /\ \E out : [world |-> World', out |-> out] \in Promise!Outcomes(req, World)
      <3>1. PICK req : /\ r = Asked(req, l)
                       /\ \E out : [world |-> World', out |-> out] \in Promise!Outcomes(req, World)
        BY <2>1
      <3>2. PICK out : [world |-> World', out |-> out] \in Promise!Outcomes(req, World)
        BY <3>1
      <3> DEFINE o == [world |-> World', out |-> out]
      <3>3. o.world = World'
        OBVIOUS
      <3>4. r.st = "asked" /\ r.req = req
        BY <3>1 DEF Asked
      <3> HIDE DEF o
      <3>5. o \in Promise!Outcomes(req, World)
        BY <3>2 DEF o
      <3> QED BY <3>3, <3>4, <3>5
    <2>2. CASE (\E out : r = Decided(out, l)) /\ World' = World
      BY <2>2 DEF Decided
    <2> QED BY <2>1, <2>2
  <1> QED BY <1>2, <1>3, <1>4 DEF Promise!Break, Calls1

LEMMA Stutter ==
  ASSUME \A d \in Conns : CallOf(d)' = CallOf(d), World' = World
  PROVE  UNCHANGED <<World, Calls1>>
  BY DEF Calls1

\* What a request may have done.
LEMMA Outcome ==
  ASSUME NEW req, NEW w, NEW out, NEW v,
         \/ out = "error" /\ v = w
         \/ out = "ok" /\ req.op = "create" /\ req.id \notin w /\ v = w \cup {req.id}
         \/ out = "ok" /\ req.op = "destroy" /\ req.id \in w /\ v = w \ {req.id}
         \/ out = "ok" /\ req.op \in {"start", "stop", "open-window"} /\ req.id \in w /\ v = w
         \/ out = "ok" /\ req.op \notin Locked /\ v = w
  PROVE  [world |-> v, out |-> out] \in Promise!Outcomes(req, w)
  <1> DEFINE o == [world |-> v, out |-> out]
  <1>1. CASE out = "error" /\ v = w
    BY <1>1, Zenon DEF Promise!Outcomes
  <1>2. CASE out = "ok" /\ req.op = "create" /\ req.id \notin w /\ v = w \cup {req.id}
    <2>1. ~(req.op = "destroy") /\ ~(req.op \in {"start", "stop", "open-window"})
      BY <1>2
    <2> QED BY <1>2, <2>1, Zenon DEF Promise!Outcomes
  <1>3. CASE out = "ok" /\ req.op = "destroy" /\ req.id \in w /\ v = w \ {req.id}
    <2>1. ~(req.op = "create") /\ ~(req.op \in {"start", "stop", "open-window"})
      BY <1>3
    <2> QED BY <1>3, <2>1, Zenon DEF Promise!Outcomes
  <1>4. CASE out = "ok" /\ req.op \in {"start", "stop", "open-window"} /\ req.id \in w /\ v = w
    <2>1. ~(req.op = "create") /\ ~(req.op = "destroy")
      BY <1>4
    <2> QED BY <1>4, <2>1, Zenon DEF Promise!Outcomes
  <1>5. CASE out = "ok" /\ req.op \notin Locked /\ v = w
    <2>1. ~(req.op = "create") /\ ~(req.op = "destroy")
          /\ ~(req.op \in {"start", "stop", "open-window"})
      BY <1>5 DEF Locked
    <2> QED BY <1>5, <2>1, Zenon DEF Promise!Outcomes
  <1> QED BY <1>1, <1>2, <1>3, <1>4, <1>5

-----------------------------------------------------------------------------
(* What the steps of a thread are to Calls. *)

LEMMA HolderKnown ==
  ASSUME Control
  PROVE  lock \in Conns \cup {Nobody} /\ Nobody \notin Conns
  BY AgentAssumption DEF Control, TypeOK, Conns

\* Handlers that change nothing, and those of others, leave the world alone.
LEMMA SameWorld ==
  ASSUME Control, NEW c \in Conns, \A d \in Conns \ {c} : thread'[d] = thread[d],
         lock' = lock, Stored' = Stored,
         lock = c => Found(Stored, thread'[c]) = Found(Stored, thread[c])
  PROVE  World' = World
  BY HolderKnown, WorldFound, WorldFoundNext

LEMMA HolderWorld ==
  ASSUME Control, NEW c \in Conns, lock = c, lock' = c,
         Found(Stored', thread'[c]) = Found(Stored, thread[c])
  PROVE  World' = World
  BY HolderKnown, WorldFound, WorldFoundNext

LEMMA AcquireWorld ==
  ASSUME Control, NEW c \in Conns, lock = Nobody, lock' = c,
         Found(Stored', thread'[c]) = Stored
  PROVE  World' = World
  BY HolderKnown, WorldFound, WorldFoundNext

\* The calls of the others.
LEMMA OtherCalls ==
  ASSUME NEW c \in Conns,
         \A d \in Conns \ {c} : /\ thread'[d] = thread[d] /\ client'[d] = client[d]
                                /\ wire'[d] = wire[d]
  PROVE  \A d \in Conns \ {c} : CallOf(d)' = CallOf(d)
  BY CallOfView, CallOfViewNext

\* A step within a handler is nothing to the client.
LEMMA SilentStep ==
  ASSUME NEW c \in Conns, \A d \in Conns \ {c} : thread'[d] = thread[d],
         thread'[c].req = thread[c].req, thread[c].at \notin {"none", "answer"},
         thread'[c].at \notin {"none", "answer"}, client' = client,
         \A d \in Conns \ {c} : wire'[d] = wire[d], World' = World
  PROVE  UNCHANGED <<World, Calls1>>
  <1>1. CallOf(c)' = CallOf(c)
    BY CallOfView, CallOfViewNext DEF View
  <1>2. \A d \in Conns \ {c} : CallOf(d)' = CallOf(d)
    BY OtherCalls
  <1> QED BY <1>1, <1>2, Stutter

\* The step with which a handler has its answer.
LEMMA DecidingStep ==
  ASSUME NEW c \in Conns, \A d \in Conns \ {c} : thread'[d] = thread[d],
         thread[c].at \notin {"none", "answer"}, client[c] # "idle",
         thread'[c].at = "answer", client' = client, wire' = wire,
         [world |-> World', out |-> thread'[c].out] \in Promise!Outcomes(thread[c].req, World)
  PROVE  Promise!TakeEffect(c)
  <1> DEFINE l == client[c] = "waiting"
  <1>1. CallOf(c) = Asked(thread[c].req, l)
    BY CallOfView DEF View
  <1>2. CallOf(c)' = Decided(thread'[c].out, l)
    BY CallOfViewNext DEF View
  <1>3. \A d \in Conns \ {c} : CallOf(d)' = CallOf(d)
    BY OtherCalls
  <1> HIDE DEF l
  <1> QED BY <1>1, <1>2, <1>3, TakeEffectStep

\* Deciding without the lock: an error, or an operation that changes no space.
LEMMA DecidingUnlocked ==
  ASSUME Control, NEW c \in Conns, NEW out, Decide(c, "answer", out),
         out = "error" \/ (out = "ok" /\ Op(c) \notin Locked),
         thread[c].at \notin {"none", "answer"}, ~InHandler(thread[c]),
         UNCHANGED <<link, lock, disk, guest>>
  PROVE  Promise!TakeEffect(c)
  <1>1. thread \in [Conns -> Thread] /\ thread[c] \in Thread /\ client[c] # "idle" /\ lock # c
    BY UnderWay DEF At
  <1>2. /\ \A d \in Conns \ {c} : thread'[d] = thread[d]
        /\ thread'[c].at = "answer" /\ thread'[c].out = out
    BY <1>1 DEF Decide, Thread
  <1>3. client' = client /\ wire' = wire /\ lock' = lock /\ Stored' = Stored
    BY DEF link, disk, Stored
  <1>4. World' = World
    BY <1>1, <1>2, <1>3, SameWorld
  <1>5. [world |-> World', out |-> out] \in Promise!Outcomes(thread[c].req, World)
    BY <1>4, Outcome DEF Op
  <1> QED BY <1>1, <1>2, <1>3, <1>5, DecidingStep

LEMMA TakeEffectIsNext == ASSUME NEW c \in Conns, Promise!TakeEffect(c) PROVE Promise!Next
  BY Zenon DEF Promise!Next

LEMMA RejectDeed ==
  ASSUME Control, NEW c \in Conns, Reject(c)
  PROVE  Promise!Next
  <1>1. thread[c].at \notin {"none", "answer"} /\ ~InHandler(thread[c])
    <2>1. ~At(c, "none") /\ At(c, "reject")
      BY DEF Reject, At
    <2> QED BY <2>1, UnderWay DEF Placed, MayBeAt, InHandler, At, Locked, Reads
  <1> QED BY <1>1, DecidingUnlocked, TakeEffectIsNext DEF Reject

LEMMA BuildEndsDeed ==
  ASSUME Control, NEW c \in Conns, BuildEnds(c)
  PROVE  Promise!Next
  <1>1. thread[c].at \notin {"none", "answer"} /\ ~InHandler(thread[c]) /\ Op(c) \notin Locked
    <2>1. ~At(c, "none") /\ At(c, "build")
      BY DEF BuildEnds, At
    <2> QED BY <2>1, UnderWay DEF Placed, MayBeAt, InHandler, At, Op, Locked, Reads
  <1>2. PICK out \in {"ok", "error"} : Decide(c, "answer", out)
    BY DEF BuildEnds
  <1>3. UNCHANGED <<link, lock, disk, guest>>
    BY DEF BuildEnds
  <1> QED BY <1>1, <1>2, <1>3, DecidingUnlocked, TakeEffectIsNext

\* The steps of list and describe.
LEMMA ReaderDeed ==
  ASSUME Control, NEW c \in Conns,
         LoadStore(c) \/ IsFile(c) \/ ReadConfig(c) \/ Loaded(c) \/ Observed(c) \/ Probe(c)
  PROVE  (UNCHANGED <<World, Calls1>>) \/ Promise!Next
  <1>1. /\ Serve(c) /\ ~Answer(c) /\ thread[c].at \in {"load", "file", "probe"} /\ ~At(c, "none")
    BY DEF Serve, LoadStore, IsFile, ReadConfig, Loaded, Observed, Probe, Answer, At
  <1>2. /\ Op(c) \in Reads /\ Op(c) \notin Locked /\ ~InHandler(thread[c])
        /\ thread \in [Conns -> Thread] /\ thread[c] \in Thread /\ lock # c
    BY <1>1, UnderWay DEF Placed, MayBeAt, InHandler, Op, Locked, Reads
  <1>3. /\ client' = client /\ wire' = wire /\ lock' = lock /\ Stored' = Stored
    BY DEF LoadStore, IsFile, ReadConfig, Loaded, Observed, Probe, link, disk, Stored
  <1>4. /\ \A d \in Conns \ {c} : thread'[d] = thread[d]
        /\ thread'[c].req = thread[c].req
    BY <1>1, OwnThread
  <1>5. World' = World
    BY <1>2, <1>3, <1>4, SameWorld
  <1>6. CASE thread'[c].at \notin {"none", "answer"}
    BY <1>1, <1>3, <1>4, <1>5, <1>6, SilentStep
  <1>7. CASE \E out \in {"ok", "error"} : Decide(c, "answer", out)
    <2>1. PICK out \in {"ok", "error"} : Decide(c, "answer", out)
      BY <1>7
    <2>2. thread'[c].at = "answer" /\ thread'[c].out = out /\ client[c] # "idle"
      BY <1>1, <1>2, <2>1, UnderWay DEF Decide, Thread
    <2>3. [world |-> World', out |-> out] \in Promise!Outcomes(thread[c].req, World)
      BY <1>2, <1>5, Outcome DEF Op
    <2> QED BY <1>1, <1>3, <1>4, <2>2, <2>3, DecidingStep, TakeEffectIsNext
  <1>8. \/ thread'[c].at \notin {"none", "answer"}
        \/ \E out \in {"ok", "error"} : Decide(c, "answer", out)
    <2>1. CASE LoadStore(c)
      BY <1>1, <1>2, <2>1 DEF LoadStore, Thread
    <2>6. CASE IsFile(c)
      <3>1. PICK i \in thread[c].todo :
              thread' = [thread EXCEPT ![c].todo = @ \ {i},
                                       ![c].file = IF store[i] = "full" THEN i ELSE NoId]
        BY <2>6 DEF IsFile
      <3> QED BY <1>1, <1>2, <3>1 DEF Thread
    <2>2. CASE ReadConfig(c)
      BY <1>1, <1>2, <2>2 DEF ReadConfig, Thread
    <2>3. CASE Loaded(c)
      BY <1>1, <1>2, <2>3 DEF Loaded, Thread
    <2>4. CASE Observed(c)
      BY <2>4 DEF Observed
    <2>5. CASE Probe(c)
      <3> DEFINE i == CHOOSE i \in thread[c].todo : TRUE
      <3>1. \/ thread' = [thread EXCEPT ![c].at = "wait", ![c].cmd = "health",
                                        ![c].target = i, ![c].todo = @ \ {i}]
            \/ thread' = [thread EXCEPT ![c].todo = @ \ {i}]
        BY <2>5 DEF Probe, Call
      <3> HIDE DEF i
      <3> QED BY <1>1, <1>2, <3>1 DEF Thread
    <2> QED BY <2>1, <2>2, <2>3, <2>4, <2>5, <2>6
  <1> QED BY <1>6, <1>7, <1>8


\* The other steps of a handler that decide nothing: its request goes on, and
\* the spaces it has found stay what they were when it got the lock.
LEMMA HandlerDeed ==
  ASSUME Control, NEW c \in Conns, Serve(c), ~Answer(c), client' = client,
         \A d \in Conns \ {c} : wire'[d] = wire[d],
         thread[c].at # "answer", thread'[c].at \notin {"none", "answer"}, World' = World
  PROVE  UNCHANGED <<World, Calls1>>
  <1>1. /\ ~At(c, "none") /\ \A d \in Conns \ {c} : thread'[d] = thread[d]
        /\ thread'[c].req = thread[c].req
    BY OwnThread
  <1> QED BY <1>1, SilentStep DEF At

\* No space comes or goes by what start, stop, open-window and the readers do.
LEMMA FoundNow ==
  ASSUME NEW now, NEW t, t.req.op \notin {"create", "destroy"} \/ ~Undone(t)
  PROVE  Found(now, t) = now
  BY DEF Found

LEMMA ReturnDeed ==
  ASSUME Control, NEW c \in Conns, TakeReply(c) \/ CallFails(c)
  PROVE  UNCHANGED <<World, Calls1>>
  <1>1. /\ Serve(c) /\ ~Answer(c) /\ At(c, "wait") /\ ~At(c, "none") /\ thread[c].at # "answer"
    BY DEF Serve, TakeReply, CallFails, Answer, At
  <1>2. thread \in [Conns -> Thread] /\ thread[c] \in Thread /\ Placed(thread[c])
    BY <1>1, UnderWay
  <1>3. PICK reply : \E v \in AfterCall(c, reply) : thread' = [thread EXCEPT ![c] = v]
    BY DEF TakeReply, CallFails
  <1>4. PICK v \in AfterCall(c, reply) : thread' = [thread EXCEPT ![c] = v]
    BY <1>3
  <1>5. Returns(thread[c], v) /\ thread'[c] = v
    BY <1>1, <1>2, <1>4, AfterCallReturns
  <1>6. v.at \notin {"none", "answer"} /\ v.req = thread[c].req
    BY <1>5 DEF Returns
  <1>7. /\ client' = client /\ wire' = wire /\ lock' = lock /\ Stored' = Stored
    BY DEF TakeReply, CallFails, link, disk, Stored
  <1>8. thread[c].req.op \notin {"create", "destroy"}
    BY <1>1, <1>2 DEF Placed, MayBeAt, At, Locked, Reads
  <1>9. World' = World
    BY <1>1, <1>5, <1>6, <1>7, <1>8, FoundNow, SameWorld, OwnThread
  <1> QED BY <1>1, <1>5, <1>6, <1>7, <1>9, HandlerDeed

\* Refusals, and the steps of start, stop, open-window and build.
LEMMA RefuseDeed ==
  ASSUME Control, NEW c \in Conns, NEW op, NEW allowed, Refuse(c, op, allowed), Serve(c)
  PROVE  UNCHANGED <<World, Calls1>>
  <1>1. /\ At(c, "lock") /\ ~At(c, "none") /\ thread[c].at # "answer" /\ ~Answer(c)
    BY DEF Refuse, At, Answer
  <1>2. thread \in [Conns -> Thread] /\ thread[c] \in Thread
    BY <1>1, UnderWay
  <1>3. /\ thread'[c].at = "release" /\ thread'[c].out = "error"
        /\ lock = Nobody /\ lock' = c
    BY <1>2 DEF Refuse, Decide, Acquire, Thread
  <1>4. client' = client /\ wire' = wire /\ Stored' = Stored
    BY DEF Refuse, link, disk, Stored
  <1>5. World' = World
    BY <1>3, <1>4, FoundNow, AcquireWorld DEF Undone
  <1> QED BY <1>1, <1>3, <1>4, <1>5, HandlerDeed

\* A step that calls the agent.
LEMMA CallMoves ==
  ASSUME Control, NEW c \in Conns, NEW i, NEW cmd, Call(c, i, cmd)
  PROVE  thread'[c].at = "wait"
  BY DEF Control, TypeOK, Call, Thread

LEMMA LifeDeed ==
  ASSUME Control, NEW c \in Conns,
         \/ CallAgent(c) \/ Start(c) \/ Progress(c) \/ Stop(c) \/ KillAndReap(c)
         \/ OpenWindow(c) \/ BuildLine(c)
  PROVE  UNCHANGED <<World, Calls1>>
  <1>1. Serve(c)
    BY Zenon DEF Serve
  <1>2. CASE \E op, allowed : Refuse(c, op, allowed)
    BY <1>1, <1>2, RefuseDeed
  <1>3. CASE ~\E op, allowed : Refuse(c, op, allowed)
    <2>1. /\ thread[c].at \in {"health", "exec-app", "lock", "progress", "kill", "build"}
          /\ ~Answer(c) /\ ~At(c, "none")
      BY <1>3 DEF CallAgent, Start, Progress, Stop, KillAndReap, OpenWindow, BuildLine, At, Answer
    <2>2. thread \in [Conns -> Thread] /\ thread[c] \in Thread /\ Placed(thread[c])
      BY <2>1, UnderWay
    <2>3. thread[c].req.op \notin {"create", "destroy"}
      <3>1. At(c, "lock") => Op(c) \in {"start", "stop", "open-window"}
        BY <1>3 DEF CallAgent, Start, Progress, Stop, KillAndReap, OpenWindow, BuildLine, At
      <3> QED BY <2>1, <2>2, <3>1 DEF Placed, MayBeAt, At, Op, Locked, Reads
    <2>4. /\ \A d \in Conns \ {c} : thread'[d] = thread[d]
          /\ thread'[c].req = thread[c].req
      BY <1>1, <2>1, OwnThread
    <2>5. thread'[c].at \in {"wait", "health", "release", "build", "progress"}
      <3>1. CASE CallAgent(c) \/ Stop(c) \/ OpenWindow(c)
        BY <1>3, <3>1, CallMoves DEF CallAgent, Stop, OpenWindow
      <3>2. CASE Start(c)
        BY <1>3, <2>2, <3>2 DEF Start, Goto, Decide, Thread
      <3>3. CASE Progress(c)
        BY <2>2, <3>3 DEF Progress, Thread
      <3>4. CASE KillAndReap(c) \/ BuildLine(c)
        BY <2>2, <3>4 DEF KillAndReap, BuildLine, Goto, Decide, Thread
      <3> QED BY <3>1, <3>2, <3>3, <3>4
    <2>6. /\ client' = client /\ Stored' = Stored
          /\ lock' = lock \/ (lock = Nobody /\ lock' = c)
      BY <1>3 DEF CallAgent, Start, Progress, Stop, KillAndReap, OpenWindow, BuildLine,
                  link, disk, Stored, Acquire
    <2>7. \A d \in Conns \ {c} : wire'[d] = wire[d]
      <3>1. CASE Progress(c)
        BY <3>1 DEF Progress, Write, Control, TypeOK
      <3>2. CASE ~Progress(c)
        BY <1>3, <3>2 DEF CallAgent, Start, Stop, KillAndReap, OpenWindow, BuildLine, link
      <3> QED BY <3>1, <3>2
    <2>8. World' = World
      <3>1. Found(Stored, thread[c]) = Stored /\ Found(Stored, thread'[c]) = Stored
        BY <2>3, <2>4, FoundNow
      <3> QED BY <2>4, <2>6, <3>1, SameWorld, AcquireWorld
    <2>9. thread[c].at # "answer" /\ thread'[c].at \notin {"none", "answer"}
      BY <2>1, <2>5
    <2> QED BY <1>1, <2>1, <2>6, <2>7, <2>8, <2>9, HandlerDeed
  <1> QED BY <1>2, <1>3


\* The steps of create and destroy: the directory changes under the lock, the
\* spaces the handler has found do not.
LEMMA MutationDeed ==
  ASSUME Control, "refresh" \notin Faults, NEW c \in Conns,
         \/ Create(c) \/ WriteConfig(c) \/ CreateVolumes(c)
         \/ Destroy(c) \/ UnlinkConfig(c) \/ RemoveDir(c)
  PROVE  UNCHANGED <<World, Calls1>>
  <1>1. Serve(c)
    BY Zenon DEF Serve
  <1>2. CASE \E op, allowed : Refuse(c, op, allowed)
    BY <1>1, <1>2, RefuseDeed
  <1>3. CASE ~\E op, allowed : Refuse(c, op, allowed)
    <2>1. /\ thread[c].at \in {"lock", "config", "volumes", "unlink", "rmdir"}
          /\ ~Answer(c) /\ ~At(c, "none") /\ thread[c].at # "answer"
      BY <1>3 DEF Create, WriteConfig, CreateVolumes, Destroy, UnlinkConfig, RemoveDir, At, Answer
    <2>2. /\ thread \in [Conns -> Thread] /\ thread[c] \in Thread /\ Placed(thread[c])
          /\ store \in [Ids -> {"absent", "bare", "full"}]
          /\ InHandler(thread[c]) <=> lock = c
          /\ InHandler(thread[c]) => Directory(thread[c], store[Id(c)])
      BY <2>1, UnderWay DEF Control, TypeOK
    <2>3. /\ thread[c].req.op \in {"create", "destroy"}
          /\ thread[c].at \in {"config", "volumes"} => thread[c].req.op = "create"
      <3>1. At(c, "lock") => Op(c) \in {"create", "destroy"}
        BY <1>3 DEF Create, WriteConfig, CreateVolumes, Destroy, UnlinkConfig, RemoveDir, At
      <3> QED BY <2>1, <2>2, <3>1 DEF Placed, MayBeAt, At, Op, Locked, Reads
    <2>4. /\ \A d \in Conns \ {c} : thread'[d] = thread[d]
          /\ thread'[c].req = thread[c].req
      BY <1>1, <2>1, OwnThread
    <2>5. client' = client /\ wire' = wire
      BY <1>3 DEF Create, WriteConfig, CreateVolumes, Destroy, UnlinkConfig, RemoveDir, link
    <2>6. Id(c) \in Ids
      BY <2>1, <2>3, UnderWay DEF Op, Locked
    <2>7. CASE Create(c)
      <3>1. /\ Acquire(c) /\ Goto(c, "config") /\ Id(c) \notin Stored /\ Op(c) = "create"
        BY <1>3, <2>7 DEF Create
      <3>2. Stored' = Stored
        BY <2>7, StoredSame
      <3>3. thread'[c].at = "config" /\ lock = Nobody /\ lock' = c
        BY <2>2, <3>1 DEF Goto, Thread, Acquire
      <3>4. Found(Stored', thread'[c]) = Stored
        BY <2>4, <3>1, <3>2, <3>3 DEF Found, Undone, Op, Id
      <3>5. World' = World
        BY <3>3, <3>4, AcquireWorld
      <3> QED BY <1>1, <2>1, <2>5, <3>3, <3>5, HandlerDeed
    <2>8. CASE Destroy(c)
      <3>1. /\ Acquire(c) /\ Goto(c, "unlink") /\ Id(c) \in Stored /\ Op(c) = "destroy"
            /\ UNCHANGED disk
        BY <1>3, <2>8 DEF Destroy
      <3>2. Stored' = Stored
        BY <3>1 DEF disk, Stored
      <3>3. thread'[c].at = "unlink" /\ lock = Nobody /\ lock' = c
        BY <2>2, <3>1 DEF Goto, Thread, Acquire
      <3>4. Found(Stored', thread'[c]) = Stored
        BY <2>4, <3>1, <3>2, <3>3 DEF Found, Undone, Op, Id
      <3>5. World' = World
        BY <3>3, <3>4, AcquireWorld
      <3> QED BY <1>1, <2>1, <2>5, <3>3, <3>5, HandlerDeed
    <2>9. CASE WriteConfig(c) \/ CreateVolumes(c) \/ UnlinkConfig(c) \/ RemoveDir(c)
      <3>1. /\ thread[c].at \in {"config", "volumes", "unlink", "rmdir"} /\ lock' = lock
        BY <2>9 DEF WriteConfig, CreateVolumes, UnlinkConfig, RemoveDir, disk, At
      <3>2. lock = c /\ lock' = c
        BY <2>2, <2>3, <3>1 DEF InHandler, Locked
      <3>3. CASE WriteConfig(c)
        <4>1. thread'[c].at = "volumes" /\ thread[c].at = "config" /\ Op(c) = "create"
          BY <2>2, <2>3, <3>3 DEF WriteConfig, Goto, Thread, At, Op
        <4>2. Stored' = Stored \cup {Id(c)}
          BY <2>2, <2>6, <3>3 DEF WriteConfig, Stored
        <4>3. Found(Stored', thread'[c]) = Found(Stored, thread[c])
          BY <2>4, <4>1, <4>2 DEF Found, Undone, Op, Id
        <4> QED BY <1>1, <2>1, <2>5, <3>2, <4>1, <4>3, HolderWorld, HandlerDeed
      <3>4. CASE CreateVolumes(c)
        <4>1. /\ thread[c].at = "volumes" /\ Op(c) = "create"
              /\ thread'[c].at \in {"release", "unlink"}
              /\ thread'[c].at = "release" => thread'[c].out = "ok"
          BY <2>2, <2>3, <3>4 DEF CreateVolumes, Goto, Decide, Thread, At, Op
        <4>2. Stored' = Stored
          BY <3>4 DEF CreateVolumes, disk, Stored
        <4>3. Found(Stored', thread'[c]) = Found(Stored, thread[c])
          BY <2>4, <4>1, <4>2 DEF Found, Undone, Op
        <4> QED BY <1>1, <2>1, <2>5, <3>2, <4>1, <4>3, HolderWorld, HandlerDeed
      <3>5. CASE UnlinkConfig(c)
        <4>1. /\ thread[c].at = "unlink" /\ thread'[c].at = "rmdir"
          BY <2>2, <3>5 DEF UnlinkConfig, Goto, Thread, At
        <4>2. Stored' = Stored \ {Id(c)} /\ Id(c) \in Stored
          BY <2>2, <2>3, <2>6, <3>5, <4>1
          DEF UnlinkConfig, Stored, InHandler, Directory, Locked
        <4>3. Found(Stored', thread'[c]) = Found(Stored, thread[c])
          BY <2>3, <2>4, <4>1, <4>2 DEF Found, Undone, Id
        <4> QED BY <1>1, <2>1, <2>5, <3>2, <4>1, <4>3, HolderWorld, HandlerDeed
      <3>6. CASE RemoveDir(c)
        <4>1. /\ thread[c].at = "rmdir" /\ thread'[c].at = "release"
              /\ thread'[c].out = IF Op(c) = "create" THEN "error" ELSE "ok"
          BY <2>2, <3>6 DEF RemoveDir, Decide, Thread, At
        <4>2. Stored' = Stored
          BY <3>6, StoredSame
        <4>3. Id(c) \notin Stored
          BY <2>2, <2>3, <4>1 DEF Stored, InHandler, Directory, Locked
        <4>4. Found(Stored', thread'[c]) = Found(Stored, thread[c])
          BY <2>3, <2>4, <4>1, <4>2, <4>3 DEF Found, Undone, Id, Op
        <4> QED BY <1>1, <2>1, <2>5, <3>2, <4>1, <4>4, HolderWorld, HandlerDeed
      <3> QED BY <2>9, <3>3, <3>4, <3>5, <3>6
    <2> QED BY <2>7, <2>8, <2>9
  <1> QED BY <1>2, <1>3

\* The effect of the handler that drops the lock, by its end or by a panic,
\* is one its request may have.
LEMMA EndOfHandler ==
  ASSUME Control, NEW c \in Conns, lock = c, lock' = Nobody, Stored' = Stored
  PROVE  /\ \E out : [world |-> World', out |-> out] \in Promise!Outcomes(thread[c].req, World)
         /\ At(c, "release") =>
              [world |-> World', out |-> thread[c].out] \in Promise!Outcomes(thread[c].req, World)
  <1>1. InHandler(thread[c]) /\ ~At(c, "none")
    BY DEF Control, LockInvariant, InHandler, At
  <1>2. /\ thread[c] \in Thread /\ Placed(thread[c]) /\ Id(c) \in Ids
        /\ Directory(thread[c], store[Id(c)])
    BY <1>1, UnderWay DEF InHandler, Op
  <1>3. World = Found(Stored, thread[c]) /\ World' = Stored
    BY HolderKnown, WorldFound, WorldFoundNext
  <1>4. CASE ~(Undone(thread[c]) /\ thread[c].req.op \in {"create", "destroy"})
    <2>1. World' = World
      BY <1>3, <1>4, FoundNow
    <2>2. [world |-> World', out |-> "error"] \in Promise!Outcomes(thread[c].req, World)
      BY <2>1, Outcome
    <2>3. CASE thread[c].out = "error" \/ ~At(c, "release")
      BY <2>2, <2>3
    <2>4. CASE At(c, "release") /\ thread[c].out # "error"
      <3>1. thread[c].out = "ok"
        BY <1>2, <2>4 DEF Placed, Thread, At
      <3>2. thread[c].req.op \in {"start", "stop", "open-window"}
        BY <1>1, <1>4, <2>4, <3>1 DEF InHandler, Undone, Locked, At
      <3>3. thread[c].req.id \in World
        BY <1>2, <1>3, <2>1, <2>4, <3>1, <3>2 DEF Directory, Stored, Id, At
      <3>4. [world |-> World', out |-> "ok"] \in Promise!Outcomes(thread[c].req, World)
        BY <2>1, <3>2, <3>3, Outcome
      <3> QED BY <2>2, <3>1, <3>4
    <2> QED BY <2>3, <2>4
  <1>5. CASE Undone(thread[c]) /\ thread[c].req.op = "create"
    <2>1. World = Stored \ {Id(c)}
      BY <1>3, <1>5 DEF Found, Id
    <2>2. CASE Id(c) \in Stored
      <3>1. World' = World \cup {thread[c].req.id} /\ thread[c].req.id \notin World
        BY <1>3, <2>1, <2>2 DEF Id
      <3>2. [world |-> World', out |-> "ok"] \in Promise!Outcomes(thread[c].req, World)
        BY <1>5, <3>1, Outcome
      <3> QED BY <1>5, <3>2 DEF Undone, At
    <2>3. CASE Id(c) \notin Stored
      <3>1. ~At(c, "release")
        BY <1>2, <1>5, <2>3 DEF Directory, Undone, Stored, At
      <3>2. World' = World
        BY <1>3, <2>1, <2>3
      <3>3. [world |-> World', out |-> "error"] \in Promise!Outcomes(thread[c].req, World)
        BY <3>2, Outcome
      <3> QED BY <3>1, <3>3
    <2> QED BY <2>2, <2>3
  <1>6. CASE Undone(thread[c]) /\ thread[c].req.op = "destroy"
    <2>1. World = Stored \cup {Id(c)}
      BY <1>3, <1>6 DEF Found, Id
    <2>2. CASE Id(c) \notin Stored
      <3>1. World' = World \ {thread[c].req.id} /\ thread[c].req.id \in World
        BY <1>3, <2>1, <2>2 DEF Id
      <3>2. [world |-> World', out |-> "ok"] \in Promise!Outcomes(thread[c].req, World)
        BY <1>6, <3>1, Outcome
      <3> QED BY <1>6, <3>2 DEF Undone, At
    <2>3. CASE Id(c) \in Stored
      <3>1. ~At(c, "release")
        BY <1>2, <1>6, <2>3 DEF Directory, Undone, Stored, At
      <3>2. World' = World
        BY <1>3, <2>1, <2>3
      <3>3. [world |-> World', out |-> "error"] \in Promise!Outcomes(thread[c].req, World)
        BY <3>2, Outcome
      <3> QED BY <3>1, <3>3
    <2> QED BY <2>2, <2>3
  <1> QED BY <1>4, <1>5, <1>6

LEMMA ReleaseDeed ==
  ASSUME Control, NEW c \in Conns, Release(c)
  PROVE  Promise!Next
  <1>1. /\ Serve(c) /\ ~Answer(c) /\ At(c, "release") /\ ~At(c, "none")
    BY DEF Serve, Release, Answer, At
  <1>2. /\ thread \in [Conns -> Thread] /\ thread[c] \in Thread /\ client[c] # "idle"
        /\ lock = c
    BY <1>1, UnderWay DEF Placed, MayBeAt, InHandler, At, Locked, Reads
  <1>3. /\ \A d \in Conns \ {c} : thread'[d] = thread[d]
        /\ thread'[c].at = "answer" /\ thread'[c].out = thread[c].out
    BY <1>2 DEF Release, Goto, Thread
  <1>4. client' = client /\ wire' = wire /\ lock' = Nobody /\ Stored' = Stored
    BY DEF Release, link, disk, Stored
  <1>5. [world |-> World', out |-> thread'[c].out] \in Promise!Outcomes(thread[c].req, World)
    BY <1>1, <1>2, <1>3, <1>4, EndOfHandler
  <1>6. thread[c].at \notin {"none", "answer"}
    BY <1>1 DEF At
  <1> QED BY <1>2, <1>3, <1>4, <1>5, <1>6, DecidingStep, TakeEffectIsNext


-----------------------------------------------------------------------------
(* The end of a connection, the clients and the guests. *)

LEMMA AnswerDeed ==
  ASSUME Control, NEW c \in Conns, Answer(c)
  PROVE  (UNCHANGED <<World, Calls1>>) \/ Promise!Next
  <1>1. At(c, "answer") /\ ~At(c, "none") /\ Close(c)
    BY DEF Answer, At
  <1>2. /\ \A d \in Conns \ {c} : thread'[d] = thread[d]
        /\ thread'[c].at = "none" /\ lock # c
        /\ thread[c].out \in {"ok", "error"} /\ client[c] \in {"waiting", "left"}
    BY <1>1, Closed, UnderWay DEF Placed, InHandler, Thread, At, Control, TypeOK
  <1>3. lock' = lock /\ Stored' = Stored
    BY DEF Answer, Stored
  <1>4. World' = World
    BY <1>2, <1>3, SameWorld
  <1>5. /\ \A d \in Conns \ {c} : client'[d] = client[d] /\ wire'[d] = wire[d]
        /\ client'[c] = IF client[c] = "left" THEN "idle" ELSE client[c]
        /\ client[c] = "waiting" => wire'[c] = <<thread[c].out>>
    BY DEF Answer, Close, Hangup, Write, Control, TypeOK
  <1>6. \A d \in Conns \ {c} : CallOf(d)' = CallOf(d)
    BY <1>2, <1>5, OtherCalls
  <1>7. CallOf(c) = Decided(thread[c].out, client[c] = "waiting")
    BY <1>1, <1>2, CallOfView DEF View, At
  <1>8. CASE client[c] = "left"
    <2>1. CallOf(c) = Decided(thread[c].out, FALSE)
      BY <1>7, <1>8
    <2>2. CallOf(c)' = NoCall
      BY <1>5, <1>8, CallOfViewNext DEF View
    <2>3. Promise!Answer(c)
      BY <1>4, <1>6, <2>1, <2>2, AnswerStep
    <2> QED BY <2>3, Zenon DEF Promise!Next
  <1>9. CASE client[c] = "waiting"
    <2>1. CallOf(c)' = Decided(thread[c].out, TRUE)
      <3>1. wire'[c] \in {<<"ok">>, <<"error">>} /\ Head(wire'[c]) = thread[c].out
        BY <1>2, <1>5, <1>9
      <3> QED BY <1>2, <1>5, <1>9, <3>1, CallOfViewNext DEF View
    <2>2. CallOf(c)' = CallOf(c)
      BY <1>7, <1>9, <2>1
    <2>3. \A d \in Conns : CallOf(d)' = CallOf(d)
      BY <1>6, <2>2
    <2> QED BY <1>4, <2>3, Stutter
  <1> QED BY <1>2, <1>8, <1>9

LEMMA PanicDeed ==
  ASSUME Control, NEW c \in Conns, Panic(c)
  PROVE  Promise!Next
  <1>1. ~At(c, "none") /\ Close(c)
    BY ServiceAssumption DEF Panic, At
  <1>2. /\ \A d \in Conns \ {c} : thread'[d] = thread[d]
        /\ thread'[c].at = "none" /\ thread \in [Conns -> Thread]
        /\ client[c] \in {"waiting", "left"}
    BY <1>1, Closed, UnderWay DEF Control, TypeOK
  <1>3. Stored' = Stored /\ wire' = wire /\ wire[c] \notin {<<"ok">>, <<"error">>}
    BY <1>1 DEF Panic, Stored, Control, SocketInvariant
  <1>4. /\ \A d \in Conns \ {c} : client'[d] = client[d]
        /\ client'[c] = IF client[c] = "left" THEN "idle" ELSE client[c]
    BY DEF Panic, Close, Hangup, Control, TypeOK
  <1>5. \A d \in Conns \ {c} : CallOf(d)' = CallOf(d)
    BY <1>2, <1>3, <1>4, OtherCalls
  <1> DEFINE l == client[c] = "waiting"
             r == CallOf(c)
  <1>6. CallOf(c)' = IF l THEN Broken(TRUE) ELSE NoCall
    BY <1>2, <1>3, <1>4, CallOfViewNext DEF View
  <1>7. lock # c => World' = World
    <2>1. lock # c => lock' = lock
      BY DEF Panic
    <2> QED BY <1>2, <1>3, <2>1, SameWorld
  <1>8. CASE At(c, "answer")
    <2>1. r = Decided(thread[c].out, l)
      BY <1>2, <1>8, CallOfView DEF View, At
    <2>2. lock # c
      BY <1>1, <1>8, UnderWay DEF InHandler, At
    <2>3. l \in BOOLEAN /\ CallOf(c) = r
      OBVIOUS
    <2> HIDE DEF l, r
    <2> QED BY <1>5, <1>6, <1>7, <2>1, <2>2, <2>3, BreakStep, Zenon DEF Promise!Next
  <1>9. CASE ~At(c, "answer")
    <2>1. r = Asked(thread[c].req, l)
      BY <1>1, <1>2, <1>9, CallOfView DEF View, At
    <2>2. \E out : [world |-> World', out |-> out] \in Promise!Outcomes(thread[c].req, World)
      <3>1. CASE lock = c
        <4>1. lock' = Nobody
          BY <3>1 DEF Panic
        <4> QED BY <1>3, <3>1, <4>1, EndOfHandler
      <3>2. CASE lock # c
        <4>1. [world |-> World', out |-> "error"] \in Promise!Outcomes(thread[c].req, World)
          BY <1>7, <3>2, Outcome
        <4> QED BY <4>1
      <3> QED BY <3>1, <3>2
    <2>3. l \in BOOLEAN /\ CallOf(c) = r
      OBVIOUS
    <2> HIDE DEF l, r
    <2> QED BY <1>5, <1>6, <2>1, <2>2, <2>3, BreakStep, Zenon DEF Promise!Next
  <1> QED BY <1>8, <1>9

LEMMA AskDeed ==
  ASSUME Control, NEW c \in Conns, NEW req \in Requests, Ask(c, req)
  PROVE  Promise!Next
  <1>1. At(c, "none") /\ client[c] = "idle" /\ lock # c
    BY DEF Ask, Control, SocketInvariant, LockInvariant, InHandler, At
  <1>2. /\ \A d \in Conns \ {c} : thread'[d] = thread[d]
        /\ thread'[c] = [NoThread EXCEPT !.req = req, !.at = Dispatch(req)]
    BY DEF Ask, Control, TypeOK
  <1>3. /\ \A d \in Conns \ {c} : client'[d] = client[d]
        /\ client'[c] = "waiting" /\ wire' = wire /\ lock' = lock /\ Stored' = Stored
    BY DEF Ask, Control, TypeOK, Stored
  <1>4. thread'[c].req = req /\ thread'[c].at = Dispatch(req)
    BY <1>2 DEF NoThread
  <1>5. Dispatch(req) \notin {"none", "answer"}
    BY DispatchPlaces
  <1>6. CallOf(c) = NoCall /\ CallOf(c)' = Asked(req, TRUE)
    BY <1>1, <1>3, <1>4, <1>5, CallOfView, CallOfViewNext DEF View
  <1>7. World' = World
    BY <1>1, <1>2, <1>3, SameWorld
  <1>8. \A d \in Conns \ {c} : CallOf(d)' = CallOf(d)
    BY <1>2, <1>3, OtherCalls
  <1>9. Promise!Ask(c)
    BY <1>6, <1>7, <1>8, AskStep
  <1> QED BY <1>9, Zenon DEF Promise!Next

\* Only whether the client listens changes.
LEMMA Listens ==
  ASSUME NEW l, NEW m
  PROVE  /\ \A req : Asked(req, m) = [Asked(req, l) EXCEPT !.listening = m]
         /\ \A out : Decided(out, m) = [Decided(out, l) EXCEPT !.listening = m]
  <1>1. ASSUME NEW req PROVE Asked(req, m) = [Asked(req, l) EXCEPT !.listening = m]
    BY DEF Asked
  <1>2. ASSUME NEW out PROVE Decided(out, m) = [Decided(out, l) EXCEPT !.listening = m]
    BY DEF Decided
  <1> QED BY <1>1, <1>2

LEMMA Deaf ==
  /\ \A req : Asked(req, FALSE) = [Asked(req, TRUE) EXCEPT !.listening = FALSE]
  /\ \A out : Decided(out, FALSE) = [Decided(out, TRUE) EXCEPT !.listening = FALSE]
  BY Listens, Zenon

LEMMA ClientDeed ==
  ASSUME Control, NEW c \in Conns, ReadFrame(c) \/ EndOfStream(c) \/ GiveUp(c)
  PROVE  (UNCHANGED <<World, Calls1>>) \/ Promise!Next
  <1>1. thread' = thread /\ lock' = lock /\ Stored' = Stored
    BY DEF ReadFrame, EndOfStream, GiveUp, Stored
  <1>2. World' = World
    BY <1>1, SameWorld
  <1>3. /\ client[c] = "waiting"
        /\ \A d \in Conns \ {c} : client'[d] = client[d] /\ wire'[d] = wire[d]
    BY DEF ReadFrame, EndOfStream, GiveUp, Control, TypeOK
  <1>4. \A d \in Conns \ {c} : CallOf(d)' = CallOf(d)
    BY <1>1, <1>3, OtherCalls
  <1>5. CASE ReadFrame(c)
    <2>1. PICK f \in Frames : wire[c] = <<f>>
      BY <1>5 DEF ReadFrame, Buffer, Control, TypeOK
    <2>2. /\ wire'[c] = <<>> /\ Head(wire[c]) = f
          /\ client'[c] = IF f = "progress" THEN "waiting" ELSE "idle"
      BY <1>5, <2>1 DEF ReadFrame, Control, TypeOK
    <2>3. CASE f = "progress"
      <3>1. wire[c] \notin {<<"ok">>, <<"error">>} /\ wire'[c] \notin {<<"ok">>, <<"error">>}
        BY <2>1, <2>2, <2>3
      <3>2. CallOf(c)' = CallOf(c)
        BY <1>1, <1>3, <2>2, <2>3, <3>1, CallOfView, CallOfViewNext DEF View
      <3>3. \A d \in Conns : CallOf(d)' = CallOf(d)
        BY <1>4, <3>2
      <3> QED BY <1>2, <3>3, Stutter
    <2>4. CASE f # "progress"
      <3>1. wire[c] \in {<<"ok">>, <<"error">>}
        BY <2>1, <2>4 DEF Frames
      <3>2. At(c, "none")
        BY <3>1 DEF Control, SocketInvariant
      <3>3. CallOf(c) = Decided(f, TRUE)
        BY <1>3, <2>2, <3>1, <3>2, CallOfView DEF View, At
      <3>4. CallOf(c)' = NoCall
        BY <2>2, <2>4, CallOfViewNext DEF View
      <3>5. Promise!Answer(c)
        BY <1>2, <1>4, <3>3, <3>4, AnswerStep
      <3> QED BY <3>5, Zenon DEF Promise!Next
    <2> QED BY <2>3, <2>4
  <1>6. CASE EndOfStream(c)
    <2>1. At(c, "none") /\ wire[c] \notin {<<"ok">>, <<"error">>} /\ client'[c] = "idle"
      BY <1>6 DEF EndOfStream, Control, TypeOK
    <2>2. CallOf(c) = Broken(TRUE)
      BY <1>3, <2>1, CallOfView DEF View, At
    <2>3. CallOf(c)' = NoCall
      BY <2>1, CallOfViewNext DEF View
    <2>4. Promise!NoticeBreak(c)
      BY <1>2, <1>4, <2>2, <2>3, NoticeBreakStep
    <2> QED BY <2>4, Zenon DEF Promise!Next
  <1>7. CASE GiveUp(c)
    <2>1. ~At(c, "none") /\ client'[c] = "left"
      BY <1>7 DEF GiveUp, Control, TypeOK
    <2>2. \/ CallOf(c) = Asked(thread[c].req, TRUE) /\ CallOf(c)' = Asked(thread[c].req, FALSE)
          \/ CallOf(c) = Decided(thread[c].out, TRUE) /\ CallOf(c)' = Decided(thread[c].out, FALSE)
      BY <1>1, <1>3, <2>1, CallOfView, CallOfViewNext DEF View, At
    <2> DEFINE r == CallOf(c)
    <2>3. /\ (\E req : r = Asked(req, TRUE)) \/ (\E out : r = Decided(out, TRUE))
          /\ CallOf(c)' = [r EXCEPT !.listening = FALSE]
      BY <2>2, Deaf
    <2>4. CallOf(c) = r
      OBVIOUS
    <2> HIDE DEF r
    <2>5. Promise!GiveUp(c)
      BY <1>2, <1>4, <2>3, <2>4, GiveUpStep
    <2> QED BY <2>5, Zenon DEF Promise!Next
  <1> QED BY <1>5, <1>6, <1>7

\* What goes on in the guests is nothing to the clients until it is answered.
LEMMA GuestDeed ==
  ASSUME Control, NEW i \in Ids,
         AgentListens(i) \/ AgentHandles(i) \/ AppExits(i) \/ GuestDies(i)
  PROVE  UNCHANGED <<World, Calls1>>
  <1>1. client' = client /\ wire' = wire /\ lock' = lock /\ Stored' = Stored
    BY DEF AgentListens, AgentHandles, AppExits, GuestDies, link, disk, Stored
  <1>2. \A d \in Conns : /\ thread'[d].at = thread[d].at /\ thread'[d].req = thread[d].req
                         /\ thread'[d].out = thread[d].out
    <2>1. CASE thread' = thread
      BY <2>1
    <2>2. CASE AgentHandles(i)
      <3>1. guest \in [Ids -> Guest] /\ thread \in [Conns -> Thread]
        BY DEF Control, TypeOK
      <3>2. PICK r : LET c == Head(guest[i].backlog).from
                     IN thread' = IF c = Nobody THEN thread
                                  ELSE [thread EXCEPT ![c].reply = r.reply]
        BY <2>2, <3>1, HandlesServes
      <3> DEFINE c == Head(guest[i].backlog).from
      <3>3. thread' = IF c = Nobody THEN thread ELSE [thread EXCEPT ![c].reply = r.reply]
        BY <3>2
      <3> HIDE DEF c
      <3> QED BY <3>1, <3>3 DEF Thread
    <2> QED BY <2>1, <2>2 DEF AgentListens, AppExits, GuestDies
  <1>3. \A d \in Conns : CallOf(d)' = CallOf(d)
    BY <1>1, <1>2, CallOfView, CallOfViewNext DEF View
  <1>4. World' = World
    <2>1. lock # Nobody => lock \in Conns
      BY HolderKnown
    <2> QED BY <1>1, <1>2, <2>1, WorldFound, WorldFoundNext DEF Found, Undone
  <1> QED BY <1>3, <1>4, Stutter


LEMMA NextIsPromised ==
  ASSUME "refresh" \notin Faults, Control, [Next]_vars
  PROVE  [Promise!Next]_<<World, Calls1>>
  <1> DEFINE Kept == (UNCHANGED <<World, Calls1>>) \/ Promise!Next
  <1>1. CASE UNCHANGED vars
    <2>1. /\ client' = client /\ wire' = wire /\ thread' = thread /\ lock' = lock
          /\ Stored' = Stored
      BY <1>1 DEF vars, Stored
    <2>2. \A d \in Conns : CallOf(d)' = CallOf(d)
      BY <2>1, CallOfView, CallOfViewNext
    <2>3. World' = World
      BY <2>1, WorldFound, WorldFoundNext
    <2> QED BY <2>2, <2>3, Stutter
  <1>2. ASSUME NEW c \in Conns, NEW req \in MayAsk[c], Ask(c, req) PROVE Kept
    <2>1. req \in Requests
      BY <1>2, ServiceAssumption
    <2> QED BY <1>2, <2>1, AskDeed
  <1>3. ASSUME NEW c \in Conns, ReadFrame(c) \/ EndOfStream(c) \/ GiveUp(c) \/ Panic(c)
        PROVE  Kept
    BY <1>3, ClientDeed, PanicDeed, Zenon
  <1>4. ASSUME NEW c \in Conns, Serve(c) PROVE Kept
    BY <1>4, RejectDeed, AnswerDeed, ReleaseDeed, ReaderDeed, ReturnDeed, MutationDeed,
       LifeDeed, BuildEndsDeed, Zenon
    DEF Serve
  <1>5. ASSUME NEW i \in Ids,
               AgentListens(i) \/ AgentHandles(i) \/ AppExits(i) \/ GuestDies(i)
        PROVE  Kept
    BY <1>5, GuestDeed, Zenon
  <1> HIDE DEF Kept
  <1>6. Kept
    BY <1>1, <1>2, <1>3, <1>4, <1>5, Zenon DEF Next, Kept
  <1> QED BY <1>6, Zenon DEF Kept

LEMMA InitIsPromised ==
  ASSUME Init
  PROVE  Promise!Init
  <1>1. World = Stored
    BY WorldFound DEF Init
  <1>2. World \in SUBSET Ids
    BY <1>1 DEF Stored
  <1>3. \A c \in Conns : CallOf(c) = NoCall
    BY CallOfView DEF Init, View
  <1> QED BY <1>2, <1>3, Zenon DEF Promise!Init, Promise!NoCall, NoCall

\* As long as the registry and the rules can be rendered again after a destroy,
\* the daemon keeps the promise of Calls, whatever the clients ask and wherever
\* handlers panic: create and destroy take effect at once and at most once, a
\* request answered with an error has changed nothing, and one whose client gave
\* up is carried out whole or not at all.
THEOREM MutationsAreAtomicTheorem ==
  ASSUME "refresh" \notin Faults
  PROVE  Spec => MutationsAreAtomic
  <1>1. Init => Promise!Init
    BY InitIsPromised
  <1>2. Control /\ [Next]_vars => [Promise!Next]_<<World, [c \in Conns |-> CallOf(c)]>>
    BY NextIsPromised DEF Calls1
  <1> QED BY <1>1, <1>2, ControlAlways, PTL DEF Spec, MutationsAreAtomic, Promise!Spec
=============================================================================
