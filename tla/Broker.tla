------------------------------- MODULE Broker -------------------------------
(***************************************************************************)
(* miyori-guid (components/guid/src/broker.rs): for every vsock connection *)
(* of a guest it finds the space by the peer's CID, keeps one sandboxed    *)
(* waypipe proxy per space and copies bytes between the guest and the      *)
(* proxy.  The proxy's title prefix and security context carry the id of   *)
(* the space, so they are what the operator sees as its label.             *)
(*                                                                         *)
(* A connection is a thread; the threads and the watchdog share the map    *)
(* started behind a mutex.  A step is what happens between two points where*)
(* a thread can be overtaken: ensure_proxy, release_proxy and              *)
(* reap_dead_proxies run under the mutex and are one step each.            *)
(***************************************************************************)
EXTENDS Naturals, FiniteSets

CONSTANTS
  Spaces,              \* ids of spaces
  NoSpace,
  Cids, NoCid,         \* vsock addresses of guests
  Conns,               \* connections that may be open at the same time
  Children, NoChild,   \* proxy processes; no process
  Stale,               \* a socket file nobody listens on
  Faults,              \* of FaultKinds: what may go wrong
  SlowBoot             \* does a boot take longer than the watchdog's period

FaultKinds == {"spawn", "socket", "unlink", "vanish"}

ASSUME BrokerAssumption ==
  /\ NoSpace \notin Spaces
  /\ NoCid \notin Cids
  /\ IsFiniteSet(Conns)
  /\ NoChild \notin Children /\ Stale \notin Children \cup {NoChild}
  /\ Faults \subseteq FaultKinds
  /\ SlowBoot \in BOOLEAN

VARIABLES
  registry,   \* /etc/miyorios/spaces.toml: the CID of each space in it
  alive,      \* CIDs of running guests: connect does not answer ENODEV
  swept,      \* dead CIDs the watchdog has seen dead since their last proxy
  started,    \* Broker.started: child, leases and cid per space
  proc,       \* the proxy processes
  socket,     \* who listens on <run_dir>/<space>/gui/gui.sock
  conn        \* the threads in handle()

vars == <<registry, alive, swept, started, proc, socket, conn>>
host == <<registry, alive>>

-----------------------------------------------------------------------------
\* An entry of started has a lease: release_proxy removes it with the last.
Proxy == [child : Children, leases : Nat \ {0}, cid : Cids]
NoProxy == [child |-> NoChild, leases |-> 0, cid |-> NoCid]

\* A dead proxy is a zombie until the broker waits for it.
Process == [st : {"live", "zombie"}, space : Spaces]
             \cup {[st |-> "free", space |-> NoSpace]}
FreeProcess == [st |-> "free", space |-> NoSpace]

\* handle(): accepted, then space known, lease taken, socket connected, copy
\* over.  child is the peer of the unix socket, NoChild once it is gone.
Connection ==
  [st : {"none", "accepted", "resolved", "leased", "open", "ending"},
   cid : Cids \cup {NoCid}, space : Spaces \cup {NoSpace},
   child : Children \cup {NoChild}]
NoConnection ==
  [st |-> "none", cid |-> NoCid, space |-> NoSpace, child |-> NoChild]

\* Registry::by_cid; the registry names a CID at most once (validate).
ByCid(g) == {s \in Spaces : registry[s] = g}

\* The unix sockets of the connections see the end of these processes.
HungUp(K) ==
  [c \in Conns |-> IF conn[c].child \in K
                   THEN [conn[c] EXCEPT !.child = NoChild] ELSE conn[c]]

-----------------------------------------------------------------------------
(* A connection's thread.                                                  *)

\* main: a guest connects and peer_cid says who it is.
Accept(c, g) ==
  /\ g \in alive
  /\ conn[c] = NoConnection
  /\ conn' = [conn EXCEPT ![c].st = "accepted", ![c].cid = g]
  /\ UNCHANGED <<host, swept, started, proc, socket>>

\* resolve: the registry is read anew for each connection; a CID it does not
\* name is refused.
Resolve(c) ==
  /\ conn[c].st = "accepted"
  /\ \/ \E s \in ByCid(conn[c].cid) :
          conn' = [conn EXCEPT ![c].st = "resolved", ![c].space = s]
     \/ /\ ByCid(conn[c].cid) = {}
        /\ conn' = [conn EXCEPT ![c] = NoConnection]
  /\ UNCHANGED <<host, swept, started, proc, socket>>

\* ensure_proxy, first half: the entry is good.
Usable(s) ==
  /\ started[s] # NoProxy
  /\ proc[started[s].child].st = "live"
  /\ socket[s] # NoChild

\* ensure_proxy for a space with a usable proxy: one more lease.
ReuseProxy(c) ==
  LET s == conn[c].space IN
  /\ conn[c].st = "resolved"
  /\ Usable(s)
  /\ started' = [started EXCEPT ![s].leases = @ + 1]
  /\ conn' = [conn EXCEPT ![c].st = "leased"]
  /\ UNCHANGED <<host, swept, proc, socket>>

\* The process table and the connections once a stale entry of s is killed and
\* waited for.
Stopped(s) == {started[s].child} \ {NoChild}
Waited(K) == [k \in Children |-> IF k \in K THEN FreeProcess ELSE proc[k]]

\* `let _ = remove_file`: a failure is ignored, and the file stays behind.
FileStays(s) == "unlink" \in Faults /\ socket[s] # NoChild

\* Fault model: a restarted proxy begins with one lease.
RestartFromOne(c) ==
  LET s == conn[c].space IN
  /\ conn[c].st = "resolved"
  /\ ~Usable(s)
  /\ \E k \in Children :
       /\ Waited(Stopped(s))[k] = FreeProcess
       /\ proc' = [Waited(Stopped(s)) EXCEPT ![k] = [st |-> "live", space |-> s]]
       /\ started' = [started EXCEPT ![s] =
            [child |-> k, leases |-> 1, cid |-> conn[c].cid]]
       /\ socket' = [socket EXCEPT ![s] = k]
  /\ swept' = swept \ {conn[c].cid}
  /\ conn' = [HungUp(Stopped(s)) EXCEPT ![c].st = "leased"]
  /\ UNCHANGED host

\* ensure_proxy without a usable proxy: the stale entry goes, the socket file
\* goes, a proxy is spawned, and its socket appears within five seconds.  The
\* leases of the stale entry are carried over.  A file that could not be removed
\* is taken for the socket, and the proxy cannot bind to its path.
StartProxy(c) ==
  LET s == conn[c].space IN
  /\ conn[c].st = "resolved"
  /\ ~Usable(s)
  /\ \E k \in Children :
       /\ Waited(Stopped(s))[k] = FreeProcess
       /\ proc' = [Waited(Stopped(s)) EXCEPT ![k] = [st |-> "live", space |-> s]]
       /\ started' = [started EXCEPT ![s] =
            [child |-> k, leases |-> started[s].leases + 1,
             cid |-> conn[c].cid]]
       /\ \/ socket' = [socket EXCEPT ![s] = k]
          \/ FileStays(s) /\ socket' = [socket EXCEPT ![s] = Stale]
  /\ swept' = swept \ {conn[c].cid}
  /\ conn' = [HungUp(Stopped(s)) EXCEPT ![c].st = "leased"]
  /\ UNCHANGED host

\* The same up to a failure: before a process exists ("spawn": the directory,
\* its mode, systemd-run), or when it does not make its socket in time
\* ("socket": its Child is dropped, which leaves it running).  The stale entry
\* is gone by then and no lease is taken.
ProxyFails(c) ==
  LET s == conn[c].space IN
  /\ conn[c].st = "resolved"
  /\ ~Usable(s)
  /\ \/ /\ "spawn" \in Faults
        /\ proc' = Waited(Stopped(s))
        /\ \E left \in {socket[s], NoChild} :
             socket' = [socket EXCEPT ![s] = left]
     \/ /\ "socket" \in Faults
        /\ \E k \in Children :
             /\ Waited(Stopped(s))[k] = FreeProcess
             /\ proc' = [Waited(Stopped(s)) EXCEPT
                           ![k] = [st |-> "live", space |-> s]]
        /\ socket' = [socket EXCEPT ![s] = NoChild]
  /\ started' = [started EXCEPT ![s] = NoProxy]
  /\ conn' = [HungUp(Stopped(s)) EXCEPT ![c] = NoConnection]
  /\ UNCHANGED <<host, swept>>

\* UnixStream::connect, refused if the listener has gone in the meantime.
Connect(c) ==
  LET k == socket[conn[c].space] IN
  /\ conn[c].st = "leased"
  /\ conn' = [conn EXCEPT
       ![c].st    = IF k \in Children THEN "open" ELSE "ending",
       ![c].child = IF k \in Children THEN k ELSE NoChild]
  /\ UNCHANGED <<host, swept, started, proc, socket>>

\* The copy loop ends: the proxy or the guest has closed, or a write failed.
\* It need not end when the guest is killed.
CopyEnds(c) ==
  /\ conn[c].st = "open"
  /\ conn' = [conn EXCEPT ![c].st = "ending", ![c].child = NoChild]
  /\ UNCHANGED <<host, swept, started, proc, socket>>

\* What stopping the proxies of these spaces leaves: kill, wait, remove_file.
Gone(S) ==
  LET K == {started[s].child : s \in S} IN
  /\ proc' = Waited(K)
  /\ started' = [s \in Spaces |-> IF s \in S THEN NoProxy ELSE started[s]]
  /\ \E stays \in SUBSET {s \in S : FileStays(s)} :
       socket' = [s \in Spaces |-> IF s \in stays THEN Stale
                                    ELSE IF s \in S THEN NoChild ELSE socket[s]]

\* Fault model: the last lease but one stops the proxy.
ReleaseEarly(c) ==
  LET s == conn[c].space IN
  /\ conn[c].st = "ending"
  /\ IF started[s].leases > 2
     THEN /\ started' = [started EXCEPT ![s].leases = @ - 1]
          /\ conn' = [conn EXCEPT ![c] = NoConnection]
          /\ UNCHANGED <<proc, socket>>
     ELSE /\ Gone({s} \cap {t \in Spaces : started[t] # NoProxy})
          /\ conn' = [HungUp({started[s].child}) EXCEPT ![c] = NoConnection]
  /\ UNCHANGED <<host, swept>>

\* Fault model: the entry goes, the process stays.
ReleaseWithoutKill(c) ==
  LET s == conn[c].space IN
  /\ conn[c].st = "ending"
  /\ started' = [started EXCEPT ![s] =
       IF @.leases > 1 THEN [@ EXCEPT !.leases = @ - 1] ELSE NoProxy]
  /\ conn' = [conn EXCEPT ![c] = NoConnection]
  /\ UNCHANGED <<host, swept, proc, socket>>

\* ProxyLease::drop, release_proxy: whatever entry the space has by now loses
\* a lease, and is stopped when none is left.
Release(c) ==
  LET s == conn[c].space IN
  /\ conn[c].st = "ending"
  /\ \/ /\ started[s] = NoProxy
        /\ conn' = [conn EXCEPT ![c] = NoConnection]
        /\ UNCHANGED <<started, proc, socket>>
     \/ /\ started[s].leases > 1
        /\ started' = [started EXCEPT ![s].leases = @ - 1]
        /\ conn' = [conn EXCEPT ![c] = NoConnection]
        /\ UNCHANGED <<proc, socket>>
     \/ /\ started[s] # NoProxy /\ started[s].leases <= 1
        /\ Gone({s})
        /\ conn' = [HungUp({started[s].child}) EXCEPT ![c] = NoConnection]
  /\ UNCHANGED <<host, swept>>

-----------------------------------------------------------------------------
(* The watchdog.                                                           *)

\* Fault model: a proxy somebody still holds a lease of is left alone.
ReapIdleProxies ==
  LET dead == {s \in Spaces : /\ started[s] # NoProxy
                              /\ started[s].cid \notin alive
                              /\ started[s].leases = 0} IN
  /\ Gone(dead)
  /\ conn' = HungUp({started[s].child : s \in dead})
  /\ swept' = swept \cup (Cids \ alive)
  /\ UNCHANGED host

\* reap_dead_proxies: every entry whose guest's CID answers ENODEV.
ReapDeadProxies ==
  LET dead == {s \in Spaces : /\ started[s] # NoProxy
                              /\ started[s].cid \notin alive} IN
  /\ Gone(dead)
  /\ conn' = HungUp({started[s].child : s \in dead})
  /\ swept' = swept \cup (Cids \ alive)
  /\ UNCHANGED host

-----------------------------------------------------------------------------
(* What happens around the broker.                                         *)

\* A proxy dies by itself and leaves its socket file or not.
ProxyDies(k) ==
  /\ proc[k].st = "live"
  /\ proc' = [proc EXCEPT ![k].st = "zombie"]
  /\ \E left \in {Stale, NoChild} :
       socket' = [s \in Spaces |-> IF socket[s] = k THEN left ELSE socket[s]]
  /\ conn' = HungUp({k})
  /\ UNCHANGED <<host, swept, started>>

\* A socket file disappears under a living proxy.
SocketVanishes(s) ==
  /\ "vanish" \in Faults
  /\ socket[s] # NoChild
  /\ socket' = [socket EXCEPT ![s] = NoChild]
  /\ UNCHANGED <<host, swept, started, proc, conn>>

\* The broker has something to do for this connection without waiting for
\* anybody.
Due(c) ==
  \/ conn[c].st \in {"accepted", "resolved", "leased", "ending"}
  \/ conn[c].st = "open" /\ conn[c].child = NoChild

\* The watchdog has been round and nothing of a dead guest is under way.
Settled ==
  /\ Cids \ alive \subseteq swept
  /\ \A c \in Conns : conn[c].cid \notin alive => ~Due(c)

\* A guest boots.  SlowBoot: it takes seconds, the watchdog polls every one.
GuestStarts(g) ==
  /\ g \notin alive
  /\ SlowBoot => Settled
  /\ alive' = alive \cup {g}
  /\ UNCHANGED <<registry, swept, started, proc, socket, conn>>

GuestStops(g) ==
  /\ g \in alive
  /\ alive' = alive \ {g}
  /\ swept' = swept \ {g}
  /\ UNCHANGED <<registry, started, proc, socket, conn>>

\* net::refresh of the daemon replaces the registry by r: the entries of spaces
\* whose guests are down come and go, a CID is named at most once.
Rewrite(r) ==
  /\ \A s, t \in Spaces : r[s] # NoCid /\ r[s] = r[t] => s = t
  /\ \A s \in Spaces : r[s] # registry[s] => {r[s], registry[s]} \cap alive = {}
  /\ registry' = r
  /\ UNCHANGED <<alive, swept, started, proc, socket, conn>>

-----------------------------------------------------------------------------
Init ==
  /\ registry = [s \in Spaces |-> NoCid]
  /\ alive = {}
  /\ swept = Cids
  /\ started = [s \in Spaces |-> NoProxy]
  /\ proc = [k \in Children |-> FreeProcess]
  /\ socket = [s \in Spaces |-> NoChild]
  /\ conn = [c \in Conns |-> NoConnection]

Handle(c) ==
  \/ \E g \in Cids : Accept(c, g)
  \/ Resolve(c)
  \/ ReuseProxy(c) \/ StartProxy(c) \/ ProxyFails(c)
  \/ Connect(c)
  \/ CopyEnds(c)
  \/ Release(c)

Around ==
  \/ \E k \in Children : ProxyDies(k)
  \/ \E s \in Spaces : SocketVanishes(s)
  \/ \E g \in Cids : GuestStarts(g) \/ GuestStops(g)
  \/ \E r \in [Spaces -> Cids \cup {NoCid}] : Rewrite(r)

Next == (\E c \in Conns : Handle(c)) \/ ReapDeadProxies \/ Around

Spec == Init /\ [][Next]_vars

\* spawn_dead_proxy_watchdog: a thread that loops for ever, and takes the
\* mutex no thread keeps.
FairSpec == Spec /\ WF_vars(ReapDeadProxies)

-----------------------------------------------------------------------------
(* Properties.                                                             *)

TypeOK ==
  /\ registry \in [Spaces -> Cids \cup {NoCid}]
  /\ alive \subseteq Cids
  /\ swept \subseteq Cids
  /\ started \in [Spaces -> Proxy \cup {NoProxy}]
  /\ proc \in [Children -> Process]
  /\ socket \in [Spaces -> Children \cup {NoChild, Stale}]
  /\ conn \in [Conns -> Connection]

\* Every proxy, dead or alive, has its handle in started, and under the space
\* it was started for: without one it can be neither stopped nor waited for
\* (broker.rs:53).
EveryProxyIsTracked ==
  \A k \in Children :
    proc[k] # FreeProcess => started[proc[k].space].child = k

\* The connections that will call release_proxy for this space.
Leased(s) ==
  {c \in Conns : conn[c].space = s /\ conn[c].st \in {"leased", "open", "ending"}}

\* The leases of a running guest's proxy are its live connections
\* (broker.rs:41), however often the proxy was restarted in between.
LeasesCountConnections ==
  \A s \in Spaces :
    started[s] # NoProxy /\ started[s].cid \in alive
      => started[s].leases = Cardinality(Leased(s))

\* The broker never stops a proxy that carries a connection of a running guest
\* (broker.rs:536), unless its socket file is gone and nobody else could reach
\* it.
NoKillUnderConnection ==
  [][\A c \in Conns :
       /\ conn[c].st = "open" /\ conn[c].child # NoChild
       /\ conn[c].cid \in alive
       /\ socket[conn[c].space] # NoChild
       => proc'[conn[c].child].st \in {"live", "zombie"}]_vars

\* A connection that carries the CID of a running guest ends in the proxy of
\* the space the registry gives that CID to: nothing of a former owner of the
\* CID is left on the screen (broker.rs handle, reap_dead_proxies).
NoStaleWindow ==
  \A c \in Conns :
    conn[c].st = "open" /\ conn[c].child # NoChild /\ conn[c].cid \in alive
      => proc[conn[c].child].space \in ByCid(conn[c].cid)

\* The windows of a dead guest go away although its connections may hang for
\* ever (broker.rs:237).
WindowsVanish ==
  \A s \in Spaces, g \in Cids :
    (started[s] # NoProxy /\ started[s].cid = g /\ g \notin alive)
      ~> (started[s].cid # g \/ g \in alive)
=============================================================================
