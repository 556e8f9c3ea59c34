---------------------------- MODULE BrokerProofs ----------------------------
(***************************************************************************)
(* Theorems about Broker, for any number of spaces, guests, connections    *)
(* and proxies.                                                            *)
(***************************************************************************)
EXTENDS Broker, FiniteSetTheorems, TLAPS

\* A thread past a step of handle() knows what that step found out.
ConnInvariant ==
  \A c \in Conns :
    /\ conn[c].st # "none" => conn[c].cid \in Cids
    /\ conn[c].st \in {"resolved", "leased", "open", "ending"}
         => conn[c].space \in Spaces

Typed == TypeOK /\ ConnInvariant

-----------------------------------------------------------------------------
(* Typing of the helpers.                                                  *)

\* Hanging up leaves every connection a connection, with its state, CID and
\* space.
LEMMA HungUpTyped ==
  ASSUME TypeOK, NEW K
  PROVE  /\ HungUp(K) \in [Conns -> Connection]
         /\ \A c \in Conns : /\ HungUp(K)[c].st = conn[c].st
                             /\ HungUp(K)[c].cid = conn[c].cid
                             /\ HungUp(K)[c].space = conn[c].space
  BY DEF TypeOK, HungUp, Connection

\* Waiting for processes leaves a process table.
LEMMA WaitedTyped ==
  ASSUME TypeOK, NEW K
  PROVE  Waited(K) \in [Children -> Process]
  BY DEF TypeOK, Waited, Process, FreeProcess

\* Stopping proxies keeps the types of what it changes.
LEMMA GoneTyped ==
  ASSUME TypeOK, NEW S, Gone(S)
  PROVE  /\ proc' \in [Children -> Process]
         /\ started' \in [Spaces -> Proxy \cup {NoProxy}]
         /\ socket' \in [Spaces -> Children \cup {NoChild, Stale}]
  <1>1. proc' \in [Children -> Process]
    BY WaitedTyped DEF Gone
  <1>2. started' \in [Spaces -> Proxy \cup {NoProxy}]
    BY DEF Gone, TypeOK
  <1>3. socket' \in [Spaces -> Children \cup {NoChild, Stale}]
    BY DEF Gone, TypeOK
  <1> QED BY <1>1, <1>2, <1>3

\* Ending a connection, or moving it on, keeps the invariant of connections.
LEMMA ConnStep ==
  ASSUME Typed, NEW c \in Conns, NEW f \in [Conns -> Connection],
         \A d \in Conns : /\ f[d].st = conn[d].st
                          /\ f[d].cid = conn[d].cid
                          /\ f[d].space = conn[d].space,
         NEW r \in Connection,
         r.st # "none" => r.cid \in Cids,
         r.st \in {"resolved", "leased", "open", "ending"} => r.space \in Spaces,
         conn' = [f EXCEPT ![c] = r]
  PROVE  conn' \in [Conns -> Connection] /\ ConnInvariant'
  BY DEF Typed, ConnInvariant

LEMMA NoConnectionTyped == NoConnection \in Connection /\ NoConnection.st = "none"
  BY DEF NoConnection, Connection

\* Init satisfies the typing invariant.
LEMMA InitTyped == Init => Typed
  BY NoConnectionTyped
  DEF Init, Typed, TypeOK, ConnInvariant, NoConnection, Process, FreeProcess

-----------------------------------------------------------------------------
(* Every step keeps the typing invariant.                                  *)

\* The steps of a connection's thread.
LEMMA HandleTyped ==
  ASSUME Typed, NEW c \in Conns, Handle(c)
  PROVE  Typed'
  <1> USE DEF Typed
  <1>a. /\ conn \in [Conns -> Connection]
        /\ conn[c] \in Connection
        /\ conn[c].st # "none" => conn[c].cid \in Cids
        /\ conn[c].st \in {"resolved", "leased", "open", "ending"}
             => conn[c].space \in Spaces
    BY DEF TypeOK, ConnInvariant
  <1>1. ASSUME NEW g \in Cids, Accept(c, g) PROVE Typed'
    <2> DEFINE r == [conn[c] EXCEPT !.st = "accepted", !.cid = g]
    <2>1. r \in Connection /\ r.st = "accepted" /\ r.cid = g
      BY <1>a DEF Connection
    <2>2. conn' = [conn EXCEPT ![c] = r]
      BY <1>1, <1>a DEF Accept, Connection
    <2> HIDE DEF r
    <2>3. conn' \in [Conns -> Connection] /\ ConnInvariant'
      BY <2>1, <2>2, <1>a, ConnStep
    <2> QED BY <1>1, <2>3 DEF Accept, host, TypeOK
  <1>2. CASE Resolve(c)
    <2>1. ASSUME NEW s \in ByCid(conn[c].cid),
                 conn' = [conn EXCEPT ![c].st = "resolved", ![c].space = s]
          PROVE  conn' \in [Conns -> Connection] /\ ConnInvariant'
      <3> DEFINE r == [conn[c] EXCEPT !.st = "resolved", !.space = s]
      <3>1. s \in Spaces BY DEF ByCid
      <3>2. r \in Connection /\ r.st = "resolved" /\ r.space = s
              /\ r.cid = conn[c].cid
        BY <1>a, <3>1 DEF Connection
      <3>3. conn' = [conn EXCEPT ![c] = r]
        BY <2>1, <1>a DEF Connection
      <3>4. conn[c].cid \in Cids BY <1>2, <1>a DEF Resolve
      <3> HIDE DEF r
      <3> QED BY <3>1, <3>2, <3>3, <3>4, <1>a, ConnStep
    <2>2. ASSUME conn' = [conn EXCEPT ![c] = NoConnection]
          PROVE  conn' \in [Conns -> Connection] /\ ConnInvariant'
      BY <2>2, <1>a, NoConnectionTyped, ConnStep
    <2> QED BY <1>2, <2>1, <2>2 DEF Resolve, host, TypeOK
  <1>3. CASE ReuseProxy(c)
    <2> DEFINE r == [conn[c] EXCEPT !.st = "leased"]
    <2>1. conn[c].space \in Spaces /\ conn[c].cid \in Cids
      BY <1>3, <1>a DEF ReuseProxy
    <2>2. /\ r \in Connection /\ r.st = "leased" /\ r.space = conn[c].space
          /\ r.cid = conn[c].cid
      BY <1>a DEF Connection
    <2>3. conn' = [conn EXCEPT ![c] = r]
      BY <1>3, <1>a DEF ReuseProxy, Connection
    <2>4. started' \in [Spaces -> Proxy \cup {NoProxy}]
      BY <1>3, <2>1 DEF ReuseProxy, Usable, TypeOK, Proxy
    <2> HIDE DEF r
    <2>5. conn' \in [Conns -> Connection] /\ ConnInvariant'
      BY <2>1, <2>2, <2>3, <1>a, ConnStep
    <2> QED BY <1>3, <2>4, <2>5 DEF ReuseProxy, host, TypeOK
  <1>4. CASE StartProxy(c)
    <2> DEFINE s == conn[c].space
               f == HungUp(Stopped(s))
               r == [f[c] EXCEPT !.st = "leased"]
    <2>1. s \in Spaces /\ conn[c].cid \in Cids
      BY <1>4, <1>a DEF StartProxy
    <2>2. f \in [Conns -> Connection] /\ \A d \in Conns :
            f[d].st = conn[d].st /\ f[d].cid = conn[d].cid
              /\ f[d].space = conn[d].space
      BY HungUpTyped
    <2>3. conn' = [f EXCEPT ![c].st = "leased"]
      BY <1>4 DEF StartProxy
    <2>4. PICK k \in Children :
            /\ proc' = [Waited(Stopped(s)) EXCEPT
                          ![k] = [st |-> "live", space |-> s]]
            /\ started' = [started EXCEPT ![s] =
                 [child |-> k, leases |-> started[s].leases + 1,
                  cid |-> conn[c].cid]]
            /\ \E listener \in {k, Stale} : socket' = [socket EXCEPT ![s] = listener]
      BY <1>4 DEF StartProxy
    <2>5. proc' \in [Children -> Process]
      <3>1. Waited(Stopped(s)) \in [Children -> Process] BY WaitedTyped
      <3>2. [st |-> "live", space |-> s] \in Process BY <2>1 DEF Process
      <3> QED BY <2>4, <3>1, <3>2
    <2>6. started' \in [Spaces -> Proxy \cup {NoProxy}]
      BY <2>4, <2>1 DEF TypeOK, Proxy, NoProxy
    <2>7. socket' \in [Spaces -> Children \cup {NoChild, Stale}]
      BY <2>4, <2>1 DEF TypeOK
    <2>8. swept' \subseteq Cids /\ registry' = registry /\ alive' = alive
      BY <1>4 DEF StartProxy, host, TypeOK
    <2> HIDE DEF f
    <2>9. /\ r \in Connection /\ r.st = "leased" /\ r.space = s
          /\ r.cid = conn[c].cid
      BY <2>2 DEF Connection
    <2>10. conn' = [f EXCEPT ![c] = r]
      BY <2>2, <2>3 DEF Connection
    <2> HIDE DEF r, s
    <2>11. conn' \in [Conns -> Connection] /\ ConnInvariant'
      BY <2>1, <2>2, <2>9, <2>10, ConnStep
    <2> QED BY <2>5, <2>6, <2>7, <2>8, <2>11 DEF TypeOK
  <1>5. CASE ProxyFails(c)
    <2> DEFINE s == conn[c].space
               f == HungUp(Stopped(s))
    <2>1. s \in Spaces
      BY <1>5, <1>a DEF ProxyFails
    <2>2. f \in [Conns -> Connection] /\ \A d \in Conns :
            f[d].st = conn[d].st /\ f[d].cid = conn[d].cid
              /\ f[d].space = conn[d].space
      BY HungUpTyped
    <2>3. conn' = [f EXCEPT ![c] = NoConnection]
      BY <1>5 DEF ProxyFails
    <2>4. proc' \in [Children -> Process]
      <3>1. Waited(Stopped(s)) \in [Children -> Process] BY WaitedTyped
      <3>2. [st |-> "live", space |-> s] \in Process BY <2>1 DEF Process
      <3> QED BY <1>5, <3>1, <3>2 DEF ProxyFails
    <2>5. started' \in [Spaces -> Proxy \cup {NoProxy}]
      BY <1>5, <2>1 DEF ProxyFails, TypeOK
    <2>6. socket' \in [Spaces -> Children \cup {NoChild, Stale}]
      BY <1>5, <2>1 DEF ProxyFails, TypeOK
    <2>7. registry' = registry /\ alive' = alive /\ swept' = swept
      BY <1>5 DEF ProxyFails, host
    <2> HIDE DEF f, s
    <2>8. conn' \in [Conns -> Connection] /\ ConnInvariant'
      BY <2>2, <2>3, NoConnectionTyped, ConnStep
    <2> QED BY <2>4, <2>5, <2>6, <2>7, <2>8 DEF TypeOK
  <1>6. CASE Connect(c)
    <2>1. PICK x \in {"open", "ending"}, k \in Children \cup {NoChild} :
            conn' = [conn EXCEPT ![c].st = x, ![c].child = k]
      BY <1>6 DEF Connect
    <2>2. conn[c].space \in Spaces /\ conn[c].cid \in Cids
      BY <1>6, <1>a DEF Connect
    <2> DEFINE r == [conn[c] EXCEPT !.st = x, !.child = k]
    <2>3. /\ r \in Connection /\ r.st = x /\ r.space = conn[c].space
          /\ r.cid = conn[c].cid
      BY <1>a DEF Connection
    <2>4. conn' = [conn EXCEPT ![c] = r]
      BY <2>1, <1>a DEF Connection
    <2> HIDE DEF r
    <2>5. conn' \in [Conns -> Connection] /\ ConnInvariant'
      BY <2>2, <2>3, <2>4, <1>a, ConnStep
    <2> QED BY <1>6, <2>5 DEF Connect, host, TypeOK
  <1>7. CASE CopyEnds(c)
    <2> DEFINE r == [conn[c] EXCEPT !.st = "ending", !.child = NoChild]
    <2>1. conn[c].space \in Spaces /\ conn[c].cid \in Cids
      BY <1>7, <1>a DEF CopyEnds
    <2>2. /\ r \in Connection /\ r.st = "ending" /\ r.space = conn[c].space
          /\ r.cid = conn[c].cid
      BY <1>a DEF Connection
    <2>3. conn' = [conn EXCEPT ![c] = r]
      BY <1>7, <1>a DEF CopyEnds, Connection
    <2> HIDE DEF r
    <2>4. conn' \in [Conns -> Connection] /\ ConnInvariant'
      BY <2>1, <2>2, <2>3, <1>a, ConnStep
    <2> QED BY <1>7, <2>4 DEF CopyEnds, host, TypeOK
  <1>8. CASE Release(c)
    <2> DEFINE s == conn[c].space
    <2>1. s \in Spaces
      BY <1>8, <1>a DEF Release
    <2>2. registry' = registry /\ alive' = alive /\ swept' = swept
      BY <1>8 DEF Release, host
    <2>3. ASSUME conn' = [conn EXCEPT ![c] = NoConnection]
          PROVE  conn' \in [Conns -> Connection] /\ ConnInvariant'
      BY <2>3, <1>a, NoConnectionTyped, ConnStep
    <2>4. CASE started[s] = NoProxy /\ UNCHANGED <<started, proc, socket>>
                 /\ conn' = [conn EXCEPT ![c] = NoConnection]
      BY <2>2, <2>3, <2>4 DEF TypeOK
    <2>5. CASE /\ started[s].leases > 1
               /\ started' = [started EXCEPT ![s].leases = @ - 1]
               /\ UNCHANGED <<proc, socket>>
               /\ conn' = [conn EXCEPT ![c] = NoConnection]
      <3>1. started[s] \in Proxy
        BY <2>1, <2>5 DEF TypeOK, NoProxy
      <3>2. started' \in [Spaces -> Proxy \cup {NoProxy}]
        BY <2>1, <2>5, <3>1 DEF TypeOK, Proxy
      <3> QED BY <2>2, <2>3, <2>5, <3>2 DEF TypeOK
    <2>6. CASE /\ Gone({s})
               /\ conn' = [HungUp({started[s].child}) EXCEPT ![c] = NoConnection]
      <3> DEFINE f == HungUp({started[s].child})
      <3>1. f \in [Conns -> Connection] /\ \A d \in Conns :
              f[d].st = conn[d].st /\ f[d].cid = conn[d].cid
                /\ f[d].space = conn[d].space
        BY HungUpTyped
      <3>2. conn' = [f EXCEPT ![c] = NoConnection]
        BY <2>6
      <3> HIDE DEF f
      <3>3. conn' \in [Conns -> Connection] /\ ConnInvariant'
        BY <3>1, <3>2, NoConnectionTyped, ConnStep
      <3>4. /\ proc' \in [Children -> Process]
            /\ started' \in [Spaces -> Proxy \cup {NoProxy}]
            /\ socket' \in [Spaces -> Children \cup {NoChild, Stale}]
        BY <2>6, GoneTyped
      <3> QED BY <2>2, <3>3, <3>4 DEF TypeOK
    <2> QED BY <1>8, <2>4, <2>5, <2>6 DEF Release
  <1> QED BY <1>1, <1>2, <1>3, <1>4, <1>5, <1>6, <1>7, <1>8 DEF Handle

\* A step that only hangs connections up keeps their invariant.
LEMMA OnlyHangsUp ==
  ASSUME Typed, NEW K, conn' = HungUp(K)
  PROVE  conn' \in [Conns -> Connection] /\ ConnInvariant'
  <1>1. /\ HungUp(K) \in [Conns -> Connection]
        /\ \A c \in Conns : /\ HungUp(K)[c].st = conn[c].st
                             /\ HungUp(K)[c].cid = conn[c].cid
                             /\ HungUp(K)[c].space = conn[c].space
    BY HungUpTyped DEF Typed
  <1> QED BY <1>1 DEF Typed, ConnInvariant

\* The watchdog and everything around the broker.
LEMMA NextTyped == Typed /\ [Next]_vars => Typed'
  <1> SUFFICES ASSUME Typed, [Next]_vars PROVE Typed'
    OBVIOUS
  <1>1. ASSUME NEW c \in Conns, Handle(c) PROVE Typed'
    BY <1>1, HandleTyped
  <1>2. CASE ReapDeadProxies
    <2> DEFINE dead == {s \in Spaces : /\ started[s] # NoProxy
                                       /\ started[s].cid \notin alive}
    <2>1. /\ Gone(dead) /\ conn' = HungUp({started[s].child : s \in dead})
          /\ swept' = swept \cup (Cids \ alive)
          /\ registry' = registry /\ alive' = alive
      BY <1>2 DEF ReapDeadProxies, host
    <2> HIDE DEF dead
    <2>2. conn' \in [Conns -> Connection] /\ ConnInvariant'
      BY <2>1, OnlyHangsUp
    <2>3. /\ proc' \in [Children -> Process]
          /\ started' \in [Spaces -> Proxy \cup {NoProxy}]
          /\ socket' \in [Spaces -> Children \cup {NoChild, Stale}]
      BY <2>1, GoneTyped DEF Typed
    <2> QED BY <2>1, <2>2, <2>3 DEF Typed, TypeOK
  <1>3. ASSUME NEW k \in Children, ProxyDies(k) PROVE Typed'
    <2>1. conn' \in [Conns -> Connection] /\ ConnInvariant'
      BY <1>3, OnlyHangsUp DEF ProxyDies
    <2>2. proc' \in [Children -> Process]
      BY <1>3 DEF ProxyDies, Typed, TypeOK, Process
    <2>3. socket' \in [Spaces -> Children \cup {NoChild, Stale}]
      BY <1>3 DEF ProxyDies, Typed, TypeOK
    <2> QED BY <1>3, <2>1, <2>2, <2>3 DEF ProxyDies, host, Typed, TypeOK
  <1>4. ASSUME NEW s \in Spaces, SocketVanishes(s) PROVE Typed'
    BY <1>4 DEF SocketVanishes, host, Typed, TypeOK, ConnInvariant
  <1>5. ASSUME NEW r \in [Spaces -> Cids \cup {NoCid}], Rewrite(r) PROVE Typed'
    BY <1>5 DEF Rewrite, Typed, TypeOK, ConnInvariant
  <1>6. ASSUME NEW g \in Cids, GuestStarts(g) \/ GuestStops(g) PROVE Typed'
    BY <1>6 DEF GuestStarts, GuestStops, Typed, TypeOK, ConnInvariant
  <1>8. CASE UNCHANGED vars
    BY <1>8 DEF vars, Typed, TypeOK, ConnInvariant
  <1> QED
    BY <1>1, <1>2, <1>3, <1>4, <1>5, <1>6, <1>8 DEF Next, Around

\* Records keep their shape, and an entry of started always has a lease, under
\* every fault: the saturating subtraction of release_proxy never saturates
\* (broker.rs:225).
THEOREM TypeCorrect == Spec => []TypeOK
  <1>1. Spec => []Typed
    BY InitTyped, NextTyped, PTL DEF Spec
  <1> QED BY <1>1, PTL DEF Typed

-----------------------------------------------------------------------------
(* No proxy escapes the map, if every proxy makes its socket in time.      *)

\* Stopping proxies frees exactly what the map held for their spaces.
LEMMA GoneTracked ==
  ASSUME TypeOK, EveryProxyIsTracked, NEW S \in SUBSET Spaces, Gone(S)
  PROVE  EveryProxyIsTracked'
  <1> SUFFICES ASSUME NEW k \in Children, proc'[k] # FreeProcess
               PROVE  started'[proc'[k].space].child = k
    BY DEF EveryProxyIsTracked, FreeProcess
  <1>1. proc'[k] = proc[k] /\ \A s \in S : started[s].child # k
    BY DEF Gone, Waited
  <1>2. proc[k].space \in Spaces /\ started[proc[k].space].child = k
    BY <1>1 DEF EveryProxyIsTracked, TypeOK, Process, FreeProcess
  <1>3. proc[k].space \notin S
    BY <1>1, <1>2
  <1> QED BY <1>1, <1>2, <1>3 DEF Gone

\* What ensure_proxy leaves of the process table once it has cleared up after
\* the stale entry of s: nothing that was started for s.
LEMMA ClearedOf ==
  ASSUME TypeOK, EveryProxyIsTracked, NEW s \in Spaces,
         NEW k \in Children, Waited(Stopped(s))[k] # FreeProcess
  PROVE  /\ Waited(Stopped(s))[k] = proc[k]
         /\ proc[k].space \in Spaces \ {s}
         /\ started[proc[k].space].child = k
  <1>1. Waited(Stopped(s))[k] = proc[k] /\ k \notin Stopped(s)
    BY DEF Waited
  <1>2. proc[k].space \in Spaces /\ started[proc[k].space].child = k
    BY <1>1 DEF EveryProxyIsTracked, TypeOK, Process, FreeProcess
  <1>3. started[s].child # k
    BY <1>1, BrokerAssumption DEF Stopped
  <1> QED BY <1>1, <1>2, <1>3

LEMMA NextTracked ==
  ASSUME "socket" \notin Faults, Typed, EveryProxyIsTracked, [Next]_vars
  PROVE  EveryProxyIsTracked'
  <1> USE DEF Typed
  <1>1. ASSUME NEW c \in Conns, StartProxy(c) PROVE EveryProxyIsTracked'
    <2> DEFINE s == conn[c].space
               W == Waited(Stopped(s))
    <2>1. s \in Spaces
      BY <1>1 DEF StartProxy, ConnInvariant
    <2>2. PICK n \in Children :
            /\ proc' = [W EXCEPT ![n] = [st |-> "live", space |-> s]]
            /\ started' = [started EXCEPT ![s] =
                 [child |-> n, leases |-> started[s].leases + 1,
                  cid |-> conn[c].cid]]
      BY <1>1 DEF StartProxy
    <2>3. W \in [Children -> Process]
      BY WaitedTyped
    <2> SUFFICES ASSUME NEW k \in Children, proc'[k] # FreeProcess
                 PROVE  started'[proc'[k].space].child = k
      BY DEF EveryProxyIsTracked, FreeProcess
    <2>4. CASE k = n
      BY <2>1, <2>2, <2>3, <2>4 DEF TypeOK
    <2>5. CASE k # n
      <3>1. proc'[k] = W[k] /\ W[k] # FreeProcess
        BY <2>2, <2>3, <2>5
      <3>2. W[k] = proc[k] /\ proc[k].space \in Spaces \ {s}
              /\ started[proc[k].space].child = k
        BY <2>1, <3>1, ClearedOf
      <3> QED BY <2>2, <3>1, <3>2 DEF TypeOK
    <2> QED BY <2>4, <2>5
  <1>2. ASSUME NEW c \in Conns, ProxyFails(c) PROVE EveryProxyIsTracked'
    <2> DEFINE s == conn[c].space
    <2>1. s \in Spaces
      BY <1>2 DEF ProxyFails, ConnInvariant
    <2>2. /\ proc' = Waited(Stopped(s))
          /\ started' = [started EXCEPT ![s] = NoProxy]
      BY <1>2 DEF ProxyFails
    <2> SUFFICES ASSUME NEW k \in Children, proc'[k] # FreeProcess
                 PROVE  started'[proc'[k].space].child = k
      BY DEF EveryProxyIsTracked, FreeProcess
    <2>3. proc'[k] = proc[k] /\ proc[k].space \in Spaces \ {s}
            /\ started[proc[k].space].child = k
      BY <2>1, <2>2, ClearedOf
    <2> QED BY <2>2, <2>3 DEF TypeOK
  <1>3. ASSUME NEW c \in Conns, Release(c) PROVE EveryProxyIsTracked'
    <2>1. conn[c].space \in Spaces
      BY <1>3 DEF Release, ConnInvariant
    <2>2. CASE UNCHANGED <<started, proc>>
      BY <2>2 DEF EveryProxyIsTracked
    <2>3. CASE /\ started[conn[c].space].leases > 1 /\ UNCHANGED proc
               /\ started' = [started EXCEPT ![conn[c].space].leases = @ - 1]
      <3>1. \A s \in Spaces : started'[s].child = started[s].child
        BY <2>1, <2>3 DEF TypeOK, Proxy, NoProxy
      <3> QED BY <2>3, <3>1 DEF EveryProxyIsTracked, TypeOK, Process, FreeProcess
    <2>4. CASE Gone({conn[c].space})
      BY <2>1, <2>4, GoneTracked
    <2> QED BY <1>3, <2>2, <2>3, <2>4 DEF Release
  <1>4. CASE ReapDeadProxies
    BY <1>4, GoneTracked DEF ReapDeadProxies
  <1>5. ASSUME NEW k \in Children, ProxyDies(k) PROVE EveryProxyIsTracked'
    <2>1. \A p \in Children :
            proc'[p].space = proc[p].space
              /\ (proc'[p] # FreeProcess => proc[p] # FreeProcess)
      BY <1>5 DEF ProxyDies, TypeOK, Process, FreeProcess
    <2> QED BY <1>5, <2>1 DEF ProxyDies, EveryProxyIsTracked, FreeProcess
  <1>6. ASSUME NEW c \in Conns, ReuseProxy(c) PROVE EveryProxyIsTracked'
    <2>1. conn[c].space \in Spaces
      BY <1>6 DEF ReuseProxy, ConnInvariant
    <2>2. \A s \in Spaces : started'[s].child = started[s].child
      BY <1>6, <2>1 DEF ReuseProxy, TypeOK, Proxy, NoProxy
    <2> QED BY <1>6, <2>2 DEF ReuseProxy, EveryProxyIsTracked, TypeOK, Process,
                              FreeProcess
  <1>7. CASE UNCHANGED <<started, proc>>
    BY <1>7 DEF EveryProxyIsTracked
  <1>8. ASSUME NEW c \in Conns,
               \/ \E g \in Cids : Accept(c, g)
               \/ Resolve(c) \/ Connect(c) \/ CopyEnds(c)
        PROVE  UNCHANGED <<started, proc>>
    BY <1>8 DEF Accept, Resolve, Connect, CopyEnds
  <1>9. ASSUME \/ \E s \in Spaces : SocketVanishes(s)
               \/ \E g \in Cids : GuestStarts(g) \/ GuestStops(g)
               \/ \E r \in [Spaces -> Cids \cup {NoCid}] : Rewrite(r)
        PROVE  UNCHANGED <<started, proc>>
    BY <1>9 DEF SocketVanishes, Rewrite, GuestStarts, GuestStops
  <1>10. ASSUME NEW c \in Conns, Handle(c) PROVE EveryProxyIsTracked'
    BY <1>10, <1>1, <1>2, <1>3, <1>6, <1>7, <1>8 DEF Handle
  <1>11. CASE Around
    BY <1>11, <1>5, <1>7, <1>9 DEF Around
  <1>12. CASE UNCHANGED vars
    BY <1>12, <1>7 DEF vars
  <1> QED BY <1>4, <1>10, <1>11, <1>12 DEF Next

\* Every proxy, dead or alive, is held in started under its own space, however
\* guests, connections, proxies and failing spawns interleave (broker.rs:53).
\* A proxy that is late with its socket is the one exception.
THEOREM ProxiesAreTracked ==
  ASSUME "socket" \notin Faults
  PROVE  Spec => []EveryProxyIsTracked
  <1> DEFINE Inv == Typed /\ EveryProxyIsTracked
  <1>1. Init => Inv
    BY InitTyped DEF Init, EveryProxyIsTracked
  <1>2. Inv /\ [Next]_vars => Inv'
    BY NextTyped, NextTracked
  <1>3. Spec => []Inv
    BY <1>1, <1>2, PTL DEF Spec
  <1> QED BY <1>3, PTL

-----------------------------------------------------------------------------
(* Windows, leases and connections of running guests, if a guest takes longer *)
(* to boot than the watchdog to come round.                                   *)

Busy == {"resolved", "leased", "open", "ending"}

\* While the space's guest runs, or a guest that is served as that space does,
\* nothing of another guest is served as that space.
OwnerInvariant ==
  \A s \in Spaces :
    /\ started[s] # NoProxy /\ (started[s].cid \in alive \/ registry[s] \in alive)
         => started[s].cid = registry[s]
    /\ \A c \in Conns :
         /\ conn[c].st \in Busy /\ conn[c].space = s
         /\ conn[c].cid \in alive \/ registry[s] \in alive
         => conn[c].cid = registry[s]

\* A dead guest the watchdog has been round for has no proxy.
SweptInvariant ==
  \A s \in Spaces :
    started[s] # NoProxy /\ started[s].cid \notin alive => started[s].cid \notin swept

\* An entry's process is its space's, and who listens on the socket of a space or
\* is connected to as its proxy is the living process of its entry.
TableInvariant ==
  /\ \A s \in Spaces :
       started[s] # NoProxy => /\ proc[started[s].child].st # "free"
                               /\ proc[started[s].child].space = s
  /\ \A s \in Spaces :
       socket[s] \in Children => /\ started[s].child = socket[s]
                                 /\ proc[socket[s]].st = "live"
  /\ \A c \in Conns :
       conn[c].st = "open" /\ conn[c].child # NoChild
         => /\ started[conn[c].space].child = conn[c].child
            /\ proc[conn[c].child].st = "live"

\* The leases are counted for a space without a proxy, too: it has none.
LeaseInvariant ==
  \A s \in Spaces :
    registry[s] \in alive => started[s].leases = Cardinality(Leased(s))


(* What each step does to the connections, point by point. *)

\* The connections D keep what they are, but those whose peer is in K lose it.
Keeps(D, K) ==
  \A d \in D : /\ conn'[d].st = conn[d].st /\ conn'[d].cid = conn[d].cid
               /\ conn'[d].space = conn[d].space
               /\ conn'[d].child = IF conn[d].child \in K THEN NoChild ELSE conn[d].child

\* The connection d moves on to st.
Moves(d, st) == conn'[d].st = st /\ conn'[d].cid = conn[d].cid
                /\ conn'[d].space = conn[d].space

LEMMA KeepsAll ==
  ASSUME TypeOK, NEW K, conn' = HungUp(K)
  PROVE  Keeps(Conns, K)
  BY DEF TypeOK, HungUp, Connection, Keeps

LEMMA KeepsOthers ==
  ASSUME TypeOK, NEW K, NEW c \in Conns, NEW r, conn' = [HungUp(K) EXCEPT ![c] = r]
  PROVE  conn'[c] = r /\ Keeps(Conns \ {c}, K)
  BY DEF TypeOK, HungUp, Connection, Keeps

LEMMA LeavesOthers ==
  ASSUME TypeOK, NEW c \in Conns, NEW r, conn' = [conn EXCEPT ![c] = r]
  PROVE  conn'[c] = r /\ Keeps(Conns \ {c}, {})
  BY DEF TypeOK, Keeps

LEMMA AcceptEffect ==
  ASSUME Typed, NEW c \in Conns, NEW g \in Cids, Accept(c, g)
  PROVE  conn'[c].st = "accepted" /\ conn'[c].cid = g /\ Keeps(Conns \ {c}, {})
         /\ UNCHANGED <<registry, alive, swept, started, proc, socket>>
  <1> DEFINE r == [conn[c] EXCEPT !.st = "accepted", !.cid = g]
  <1>1. conn' = [conn EXCEPT ![c] = r] /\ r.st = "accepted" /\ r.cid = g
    BY DEF Accept, Typed, TypeOK, Connection
  <1>2. UNCHANGED <<registry, alive, swept, started, proc, socket>>
    BY DEF Accept, host
  <1> HIDE DEF r
  <1> QED BY <1>1, <1>2, LeavesOthers DEF Typed

LEMMA ResolveEffect ==
  ASSUME Typed, NEW c \in Conns, Resolve(c)
  PROVE  /\ Keeps(Conns \ {c}, {})
         /\ \/ conn'[c].st = "none"
            \/ /\ conn'[c].st = "resolved" /\ conn'[c].cid = conn[c].cid
               /\ conn'[c].space \in Spaces /\ registry[conn'[c].space] = conn[c].cid
         /\ UNCHANGED <<registry, alive, swept, started, proc, socket>>
  <1>1. UNCHANGED <<registry, alive, swept, started, proc, socket>>
    BY DEF Resolve, host
  <1>2. ASSUME conn' = [conn EXCEPT ![c] = NoConnection]
        PROVE  Keeps(Conns \ {c}, {}) /\ conn'[c].st = "none"
    BY <1>2, LeavesOthers, NoConnectionTyped DEF Typed
  <1>3. ASSUME NEW s \in ByCid(conn[c].cid),
               conn' = [conn EXCEPT ![c].st = "resolved", ![c].space = s]
        PROVE  /\ Keeps(Conns \ {c}, {})
               /\ conn'[c].st = "resolved" /\ conn'[c].cid = conn[c].cid
               /\ conn'[c].space \in Spaces /\ registry[conn'[c].space] = conn[c].cid
    <2> DEFINE r == [conn[c] EXCEPT !.st = "resolved", !.space = s]
    <2>1. conn' = [conn EXCEPT ![c] = r] /\ r.st = "resolved" /\ r.cid = conn[c].cid
          /\ r.space = s
      BY <1>3 DEF Typed, TypeOK, Connection
    <2>2. s \in Spaces /\ registry[s] = conn[c].cid
      BY DEF ByCid
    <2> HIDE DEF r
    <2> QED BY <2>1, <2>2, LeavesOthers DEF Typed
  <1> QED BY <1>1, <1>2, <1>3 DEF Resolve

LEMMA ReuseEffect ==
  ASSUME Typed, NEW c \in Conns, ReuseProxy(c)
  PROVE  LET s == conn[c].space
         IN /\ conn[c].st = "resolved" /\ Moves(c, "leased") /\ Keeps(Conns \ {c}, {})
            /\ s \in Spaces /\ started[s] # NoProxy /\ started'[s] # NoProxy
            /\ started'[s].leases = started[s].leases + 1
            /\ \A t \in Spaces : /\ started'[t].child = started[t].child
                                 /\ started'[t].cid = started[t].cid
            /\ \A t \in Spaces \ {s} : started'[t] = started[t]
            /\ UNCHANGED <<registry, alive, swept, proc, socket>>
  <1> DEFINE s == conn[c].space
             r == [conn[c] EXCEPT !.st = "leased"]
  <1>1. conn[c].st = "resolved" /\ s \in Spaces /\ started[s] # NoProxy /\ started[s] \in Proxy
        /\ UNCHANGED <<registry, alive, swept, proc, socket>>
    BY DEF ReuseProxy, Usable, Typed, TypeOK, ConnInvariant, host
  <1>2. conn' = [conn EXCEPT ![c] = r] /\ r.st = "leased" /\ r.cid = conn[c].cid /\ r.space = s
    BY DEF ReuseProxy, Typed, TypeOK, Connection
  <1>3. started' = [started EXCEPT ![s].leases = @ + 1]
    BY DEF ReuseProxy
  <1>4. /\ started'[s] \in Proxy /\ started'[s].leases = started[s].leases + 1
        /\ started'[s].child = started[s].child /\ started'[s].cid = started[s].cid
        /\ \A t \in Spaces \ {s} : started'[t] = started[t]
    BY <1>1, <1>3 DEF Typed, TypeOK, Proxy
  <1>5. started'[s] # NoProxy
    BY <1>4 DEF Proxy, NoProxy
  <1> HIDE DEF r
  <1>6. Moves(c, "leased") /\ Keeps(Conns \ {c}, {})
    BY <1>2, LeavesOthers DEF Typed, Moves
  <1> QED BY <1>1, <1>4, <1>5, <1>6

\* The process k runs for the entry s, in the place of the one it had.
RunsFor(s, k) ==
  /\ proc[k] = FreeProcess \/ k \in Stopped(s)
  /\ proc'[k] = [st |-> "live", space |-> s]
  /\ \A q \in Children \ {k} :
       proc'[q] = IF q \in Stopped(s) THEN FreeProcess ELSE proc[q]
  /\ started'[s] # NoProxy /\ started'[s].child = k
  /\ socket'[s] \in {k, Stale}

LEMMA StartEffect ==
  ASSUME Typed, NEW c \in Conns, StartProxy(c)
  PROVE  LET s == conn[c].space
         IN /\ conn[c].st = "resolved" /\ Moves(c, "leased")
            /\ Keeps(Conns \ {c}, Stopped(s))
            /\ s \in Spaces /\ ~Usable(s)
            /\ \E k \in Children : RunsFor(s, k)
            /\ started'[s].leases = started[s].leases + 1
            /\ started'[s].cid = conn[c].cid
            /\ \A t \in Spaces \ {s} : started'[t] = started[t] /\ socket'[t] = socket[t]
            /\ swept' = swept \ {conn[c].cid}
            /\ UNCHANGED <<registry, alive>>
  <1> DEFINE s == conn[c].space
             f == HungUp(Stopped(s))
             r == [f[c] EXCEPT !.st = "leased"]
             W == Waited(Stopped(s))
  <1>1. conn[c].st = "resolved" /\ s \in Spaces /\ ~Usable(s) /\ swept' = swept \ {conn[c].cid}
        /\ UNCHANGED <<registry, alive>>
    BY DEF StartProxy, Typed, ConnInvariant, host
  <1>2. conn' = [f EXCEPT ![c] = r] /\ r.st = "leased" /\ r.cid = conn[c].cid /\ r.space = s
    <2>1. f \in [Conns -> Connection] /\ f[c].cid = conn[c].cid /\ f[c].space = s
      BY HungUpTyped DEF Typed
    <2>2. conn' = [f EXCEPT ![c].st = "leased"]
      BY DEF StartProxy
    <2> HIDE DEF f
    <2> QED BY <2>1, <2>2 DEF Connection
  <1>3. Moves(c, "leased") /\ Keeps(Conns \ {c}, Stopped(s))
    <2> HIDE DEF r
    <2> QED BY <1>2, KeepsOthers DEF Typed, Moves
  <1>4. PICK k \in Children :
          /\ W[k] = FreeProcess
          /\ proc' = [W EXCEPT ![k] = [st |-> "live", space |-> s]]
          /\ started' = [started EXCEPT ![s] =
               [child |-> k, leases |-> started[s].leases + 1, cid |-> conn[c].cid]]
          /\ \E listener \in {k, Stale} : socket' = [socket EXCEPT ![s] = listener]
    BY DEF StartProxy
  <1>5. /\ proc[k] = FreeProcess \/ k \in Stopped(s)
        /\ proc'[k] = [st |-> "live", space |-> s]
        /\ \A q \in Children \ {k} :
             proc'[q] = IF q \in Stopped(s) THEN FreeProcess ELSE proc[q]
    BY <1>4 DEF Waited
  <1>6. /\ started'[s].child = k /\ started'[s].leases = started[s].leases + 1
        /\ started'[s].cid = conn[c].cid /\ socket'[s] \in {k, Stale}
        /\ \A t \in Spaces \ {s} : started'[t] = started[t] /\ socket'[t] = socket[t]
    BY <1>1, <1>4 DEF Typed, TypeOK
  <1>7. started'[s] # NoProxy
    BY <1>6, BrokerAssumption DEF NoProxy
  <1> HIDE DEF s
  <1>8. RunsFor(s, k)
    BY <1>5, <1>6, <1>7 DEF RunsFor
  <1> QED BY <1>1, <1>3, <1>6, <1>8 DEF s

\* A process that runs for another entry is left alone.
LEMMA StartSpares ==
  ASSUME Typed, NEW c \in Conns, StartProxy(c), NEW k \in Children,
         k \notin Stopped(conn[c].space), proc[k] # FreeProcess
  PROVE  proc'[k] = proc[k]
  <1>1. PICK q \in Children : RunsFor(conn[c].space, q)
    BY StartEffect
  <1> QED BY <1>1 DEF RunsFor

LEMMA FailEffect ==
  ASSUME Typed, NEW c \in Conns, ProxyFails(c)
  PROVE  LET s == conn[c].space
         IN /\ "spawn" \in Faults \/ "socket" \in Faults
            /\ conn'[c].st = "none" /\ Keeps(Conns \ {c}, Stopped(s))
            /\ s \in Spaces /\ ~Usable(s)
            /\ \A q \in Children : q \notin Stopped(s) /\ proc[q] # FreeProcess => proc'[q] = proc[q]
            /\ started'[s] = NoProxy /\ socket'[s] \in {socket[s], NoChild}
            /\ \A t \in Spaces \ {s} : started'[t] = started[t] /\ socket'[t] = socket[t]
            /\ UNCHANGED <<registry, alive, swept>>
  <1> DEFINE s == conn[c].space
             W == Waited(Stopped(s))
  <1>1. s \in Spaces /\ ~Usable(s) /\ UNCHANGED <<registry, alive, swept>>
        /\ conn' = [HungUp(Stopped(s)) EXCEPT ![c] = NoConnection]
        /\ started' = [started EXCEPT ![s] = NoProxy]
    BY DEF ProxyFails, Typed, ConnInvariant, host
  <1>2. conn'[c].st = "none" /\ Keeps(Conns \ {c}, Stopped(s))
    BY <1>1, KeepsOthers, NoConnectionTyped DEF Typed
  <1>3. \A q \in Children : q \notin Stopped(s) /\ proc[q] # FreeProcess => proc'[q] = proc[q]
    <2>1. CASE proc' = W
      BY <2>1 DEF Waited
    <2>2. ASSUME NEW k \in Children, W[k] = FreeProcess,
                 proc' = [W EXCEPT ![k] = [st |-> "live", space |-> s]]
          PROVE  \A q \in Children : q \notin Stopped(s) /\ proc[q] # FreeProcess => proc'[q] = proc[q]
      BY <2>2 DEF Waited
    <2> QED BY <2>1, <2>2 DEF ProxyFails
  <1>4. /\ "spawn" \in Faults \/ "socket" \in Faults
        /\ \E left \in {socket[s], NoChild} : socket' = [socket EXCEPT ![s] = left]
    BY DEF ProxyFails
  <1>5. /\ started'[s] = NoProxy /\ socket'[s] \in {socket[s], NoChild}
        /\ \A t \in Spaces \ {s} : started'[t] = started[t] /\ socket'[t] = socket[t]
    BY <1>1, <1>4 DEF Typed, TypeOK
  <1> QED BY <1>1, <1>2, <1>3, <1>4, <1>5

LEMMA ConnectEffect ==
  ASSUME Typed, NEW c \in Conns, Connect(c)
  PROVE  LET k == socket[conn[c].space]
         IN /\ conn[c].st = "leased" /\ conn[c].space \in Spaces
            /\ Moves(c, IF k \in Children THEN "open" ELSE "ending")
            /\ conn'[c].child = IF k \in Children THEN k ELSE NoChild
            /\ Keeps(Conns \ {c}, {})
            /\ UNCHANGED <<registry, alive, swept, started, proc, socket>>
  <1> DEFINE k == socket[conn[c].space]
             st == IF k \in Children THEN "open" ELSE "ending"
             child == IF k \in Children THEN k ELSE NoChild
             r == [conn[c] EXCEPT !.st = st, !.child = child]
  <1>1. conn[c].st = "leased" /\ conn[c].space \in Spaces
        /\ UNCHANGED <<registry, alive, swept, started, proc, socket>>
    BY DEF Connect, Typed, ConnInvariant, host
  <1>2. conn' = [conn EXCEPT ![c].st = st, ![c].child = child]
    BY DEF Connect
  <1> HIDE DEF st, child
  <1>3. conn' = [conn EXCEPT ![c] = r] /\ r.st = st /\ r.child = child /\ r.cid = conn[c].cid
        /\ r.space = conn[c].space
    BY <1>2 DEF Typed, TypeOK, Connection
  <1> HIDE DEF r
  <1>4. Moves(c, st) /\ conn'[c].child = child /\ Keeps(Conns \ {c}, {})
    BY <1>3, LeavesOthers DEF Typed, Moves
  <1> QED BY <1>1, <1>4 DEF st, child

LEMMA CopyEndsEffect ==
  ASSUME Typed, NEW c \in Conns, CopyEnds(c)
  PROVE  /\ conn[c].st = "open" /\ Moves(c, "ending") /\ Keeps(Conns \ {c}, {})
         /\ UNCHANGED <<registry, alive, swept, started, proc, socket>>
  <1> DEFINE r == [conn[c] EXCEPT !.st = "ending", !.child = NoChild]
  <1>1. conn[c].st = "open" /\ UNCHANGED <<registry, alive, swept, started, proc, socket>>
    BY DEF CopyEnds, host
  <1>2. conn' = [conn EXCEPT ![c] = r] /\ r.st = "ending" /\ r.cid = conn[c].cid
        /\ r.space = conn[c].space
    BY DEF CopyEnds, Typed, TypeOK, Connection
  <1> HIDE DEF r
  <1> QED BY <1>1, <1>2, LeavesOthers DEF Typed, Moves

\* The last lease is given back, the others, or one of a proxy that is gone.
LEMMA ReleaseEffect ==
  ASSUME Typed, NEW c \in Conns, Release(c)
  PROVE  LET s == conn[c].space
         IN /\ conn[c].st = "ending" /\ conn'[c].st = "none" /\ s \in Spaces
            /\ \/ /\ started[s] = NoProxy /\ Keeps(Conns \ {c}, {})
                  /\ UNCHANGED <<started, proc, socket>>
               \/ /\ started[s] # NoProxy /\ started'[s] # NoProxy
                  /\ started'[s].leases = started[s].leases - 1
                  /\ \A t \in Spaces : /\ started'[t].child = started[t].child
                                       /\ started'[t].cid = started[t].cid
                  /\ \A t \in Spaces \ {s} : started'[t] = started[t]
                  /\ Keeps(Conns \ {c}, {})
                  /\ UNCHANGED <<proc, socket>>
               \/ /\ started[s] # NoProxy /\ started[s].leases = 1
                  /\ Gone({s}) /\ Keeps(Conns \ {c}, {started[s].child})
            /\ UNCHANGED <<registry, alive, swept>>
  <1> DEFINE s == conn[c].space
  <1>1. conn[c].st = "ending" /\ s \in Spaces /\ UNCHANGED <<registry, alive, swept>>
    BY DEF Release, Typed, ConnInvariant, host
  <1>2. ASSUME conn' = [conn EXCEPT ![c] = NoConnection]
        PROVE  conn'[c].st = "none" /\ Keeps(Conns \ {c}, {})
    BY <1>2, LeavesOthers, NoConnectionTyped DEF Typed
  <1>3. CASE /\ started[s] = NoProxy /\ UNCHANGED <<started, proc, socket>>
             /\ conn' = [conn EXCEPT ![c] = NoConnection]
    BY <1>1, <1>2, <1>3
  <1>4. CASE /\ started[s].leases > 1 /\ UNCHANGED <<proc, socket>>
             /\ started' = [started EXCEPT ![s].leases = @ - 1]
             /\ conn' = [conn EXCEPT ![c] = NoConnection]
    <2>1. started[s] # NoProxy /\ started[s] \in Proxy
      BY <1>1, <1>4 DEF Typed, TypeOK, NoProxy
    <2>2. /\ started'[s] \in Proxy /\ started'[s].leases = started[s].leases - 1
          /\ started'[s].child = started[s].child /\ started'[s].cid = started[s].cid
          /\ \A t \in Spaces \ {s} : started'[t] = started[t]
      BY <1>1, <1>4, <2>1 DEF Typed, TypeOK, Proxy
    <2>3. started'[s] # NoProxy
      BY <2>2 DEF Proxy, NoProxy
    <2> HIDE DEF s
    <2>4. \A t \in Spaces : started'[t].child = started[t].child /\ started'[t].cid = started[t].cid
      BY <2>2
    <2> QED BY <1>1, <1>2, <1>4, <2>1, <2>2, <2>3, <2>4 DEF s
  <1>5. CASE /\ started[s] # NoProxy /\ started[s].leases <= 1 /\ Gone({s})
             /\ conn' = [HungUp({started[s].child}) EXCEPT ![c] = NoConnection]
    <2>1. started[s].leases = 1
      BY <1>1, <1>5 DEF Typed, TypeOK, Proxy
    <2>2. conn'[c].st = "none" /\ Keeps(Conns \ {c}, {started[s].child})
      BY <1>5, KeepsOthers, NoConnectionTyped DEF Typed
    <2> QED BY <1>1, <1>5, <2>1, <2>2
  <1> QED BY <1>3, <1>4, <1>5 DEF Release

\* The entries whose guest is dead.
Dead == {s \in Spaces : started[s] # NoProxy /\ started[s].cid \notin alive}

LEMMA ReapEffect ==
  ASSUME Typed, ReapDeadProxies
  PROVE  /\ Gone(Dead) /\ Keeps(Conns, {started[s].child : s \in Dead})
         /\ swept' = swept \cup (Cids \ alive) /\ UNCHANGED <<registry, alive>>
  <1>1. /\ Gone(Dead) /\ conn' = HungUp({started[s].child : s \in Dead})
        /\ swept' = swept \cup (Cids \ alive) /\ UNCHANGED <<registry, alive>>
    BY DEF ReapDeadProxies, Dead, host
  <1> QED BY <1>1, KeepsAll DEF Typed

LEMMA DiesEffect ==
  ASSUME Typed, NEW k \in Children, ProxyDies(k)
  PROVE  /\ Keeps(Conns, {k}) /\ UNCHANGED <<registry, alive, swept, started>>
         /\ proc[k].st = "live" /\ proc'[k].st = "zombie" /\ proc'[k].space = proc[k].space
         /\ \A q \in Children \ {k} : proc'[q] = proc[q]
         /\ \A s \in Spaces : /\ socket[s] = k => socket'[s] \notin Children
                              /\ socket[s] # k => socket'[s] = socket[s]
  <1>1. Keeps(Conns, {k}) /\ UNCHANGED <<registry, alive, swept, started>>
    BY KeepsAll DEF ProxyDies, Typed, host
  <1>2. /\ proc[k].st = "live" /\ proc'[k].st = "zombie" /\ proc'[k].space = proc[k].space
        /\ \A q \in Children \ {k} : proc'[q] = proc[q]
    BY DEF ProxyDies, Typed, TypeOK, Process
  <1>3. \A s \in Spaces : /\ socket[s] = k => socket'[s] \notin Children
                          /\ socket[s] # k => socket'[s] = socket[s]
    BY BrokerAssumption DEF ProxyDies
  <1> QED BY <1>1, <1>2, <1>3

LEMMA GoneEffect ==
  ASSUME TypeOK, NEW S \in SUBSET Spaces, Gone(S)
  PROVE  /\ \A s \in S : started'[s] = NoProxy /\ socket'[s] \in {NoChild, Stale}
         /\ \A s \in Spaces \ S : started'[s] = started[s] /\ socket'[s] = socket[s]
         /\ \A q \in Children :
              (\A s \in S : started[s].child # q) => proc'[q] = proc[q]
  <1>1. PICK stays \in SUBSET S :
          socket' = [s \in Spaces |-> IF s \in stays THEN Stale
                                       ELSE IF s \in S THEN NoChild ELSE socket[s]]
    BY DEF Gone
  <1> QED BY <1>1 DEF Gone, Waited, TypeOK


(* The proxies in the map, the processes, the sockets and the connections. *)

LEMMA EntryFields ==
  ASSUME TypeOK, NEW s \in Spaces
  PROVE  /\ started[s] # NoProxy => /\ started[s].child \in Children
                                    /\ started[s].cid \in Cids
                                    /\ started[s].leases \in Nat \ {0}
         /\ started[s] = NoProxy => started[s].child = NoChild /\ started[s].leases = 0
         /\ started[s].child # NoChild => started[s] # NoProxy
         /\ Stopped(s) = {started[s].child} \ {NoChild}
  BY DEF TypeOK, Proxy, NoProxy, Stopped

\* A step that stops the proxies of S, starts none and ends none by itself.
LEMMA StopsOnly ==
  ASSUME Typed, TableInvariant, NEW S \in SUBSET Spaces,
         \A s \in Spaces \ S : /\ started'[s].child = started[s].child
                               /\ started'[s] # NoProxy => started[s] # NoProxy
                               /\ socket'[s] = socket[s] \/ socket'[s] \notin Children,
         \A s \in S : started'[s] = NoProxy /\ socket'[s] \notin Children,
         \A q \in Children : proc[q].st # "free" /\ (\A s \in S : started[s].child # q)
                               => proc'[q] = proc[q],
         \A d \in Conns :
           conn'[d].st = "open" /\ conn'[d].child # NoChild =>
             \/ /\ conn[d].st = "open" /\ conn'[d].space = conn[d].space
                /\ conn'[d].child = conn[d].child
                /\ \A s \in S : started[s].child # conn[d].child
             \/ /\ conn'[d].space \in Spaces \ S /\ conn'[d].child \in Children
                /\ socket[conn'[d].space] = conn'[d].child
  PROVE  TableInvariant'
  <1>1. ASSUME NEW s \in Spaces \ S, started[s] # NoProxy
        PROVE  LET q == started[s].child
               IN q \in Children /\ proc'[q] = proc[q] /\ proc[q].st # "free" /\ proc[q].space = s
    <2> DEFINE q == started[s].child
    <2>1. q \in Children /\ proc[q].st # "free" /\ proc[q].space = s
      BY <1>1, EntryFields DEF Typed, TableInvariant
    <2>2. ASSUME NEW t \in S, started[t].child = q PROVE FALSE
      <3>1. started[t] # NoProxy
        BY <2>1, <2>2, EntryFields, BrokerAssumption DEF Typed
      <3>2. proc[q].space = t
        BY <2>2, <3>1 DEF TableInvariant
      <3> QED BY <2>1, <3>2
    <2> QED BY <2>1, <2>2
  <1>2. ASSUME NEW s \in Spaces, started'[s] # NoProxy
        PROVE  proc'[started'[s].child].st # "free" /\ proc'[started'[s].child].space = s
    <2>1. s \in Spaces \ S /\ started[s] # NoProxy /\ started'[s].child = started[s].child
      BY <1>2
    <2> QED BY <1>1, <2>1
  <1>3. ASSUME NEW s \in Spaces, socket'[s] \in Children
        PROVE  started'[s].child = socket'[s] /\ proc'[socket'[s]].st = "live"
    <2>1. s \in Spaces \ S /\ socket'[s] = socket[s] /\ started'[s].child = started[s].child
      BY <1>3
    <2>2. started[s].child = socket[s] /\ proc[socket[s]].st = "live" /\ socket[s] \in Children
      BY <1>3, <2>1 DEF TableInvariant
    <2>3. started[s] # NoProxy
      BY <2>2, EntryFields, BrokerAssumption DEF Typed
    <2> QED BY <1>1, <2>1, <2>2, <2>3
  <1>4. ASSUME NEW d \in Conns, conn'[d].st = "open", conn'[d].child # NoChild
        PROVE  /\ started'[conn'[d].space].child = conn'[d].child
               /\ proc'[conn'[d].child].st = "live"
    <2> DEFINE t == conn'[d].space
               q == conn'[d].child
    <2>1. t \in Spaces \ S /\ started[t].child = q /\ proc[q].st = "live" /\ q # NoChild
      <3>1. CASE /\ conn[d].st = "open" /\ t = conn[d].space /\ q = conn[d].child
                 /\ \A s \in S : started[s].child # conn[d].child
        <4>1. t \in Spaces /\ started[t].child = q /\ proc[q].st = "live"
          BY <1>4, <3>1 DEF TableInvariant, Typed, ConnInvariant
        <4> QED BY <1>4, <3>1, <4>1
      <3>2. CASE t \in Spaces \ S /\ q \in Children /\ socket[t] = q
        BY <1>4, <3>2 DEF TableInvariant
      <3> QED BY <1>4, <3>1, <3>2
    <2>2. started[t] # NoProxy
      BY <2>1, EntryFields DEF Typed
    <2> HIDE DEF t, q
    <2>3. proc'[q] = proc[q] /\ started'[t].child = started[t].child
      BY <1>1, <2>1, <2>2
    <2> QED BY <2>1, <2>3 DEF t, q
  <1> QED BY <1>2, <1>3, <1>4 DEF TableInvariant

LEMMA StartKeepsTable ==
  ASSUME Typed, TableInvariant, NEW c \in Conns, StartProxy(c)
  PROVE  TableInvariant'
  <1> DEFINE s == conn[c].space
             K == Stopped(s)
  <1>1. /\ Moves(c, "leased") /\ Keeps(Conns \ {c}, K) /\ s \in Spaces
        /\ \A t \in Spaces \ {s} : started'[t] = started[t] /\ socket'[t] = socket[t]
    BY StartEffect
  <1>0. PICK k \in Children : RunsFor(conn[c].space, k)
    BY StartEffect
  <1>2. /\ proc[k] = FreeProcess \/ k \in K
        /\ proc'[k] = [st |-> "live", space |-> s]
        /\ \A q \in Children \ {k} : proc'[q] = IF q \in K THEN FreeProcess ELSE proc[q]
        /\ started'[s].child = k
        /\ socket'[s] \in {k, Stale}
    BY <1>0, Zenon DEF RunsFor
  <1>3. K = {started[s].child} \ {NoChild}
    BY <1>1, EntryFields DEF Typed
  <1> HIDE DEF s, K
  <1>4. proc'[k].st = "live" /\ proc'[k].space = s /\ (proc[k].st = "free" \/ k \in K)
    BY <1>2 DEF FreeProcess
  \* The process of another space's entry is neither stopped nor taken.
  <1>5. ASSUME NEW t \in Spaces \ {s}, started[t] # NoProxy
        PROVE  LET q == started[t].child
               IN /\ q \in Children /\ q \notin K /\ proc'[q] = proc[q]
                  /\ proc[q].st # "free" /\ proc[q].space = t
    <2> DEFINE q == started[t].child
    <2>1. q \in Children /\ proc[q].st # "free" /\ proc[q].space = t
      BY <1>5, EntryFields DEF Typed, TableInvariant
    <2>2. q \notin K
      <3> SUFFICES ASSUME q \in K PROVE FALSE
        OBVIOUS
      <3>1. started[s].child = q /\ started[s] # NoProxy
        BY <1>1, <1>3, EntryFields DEF Typed
      <3>2. proc[q].space = s
        BY <1>1, <3>1 DEF TableInvariant
      <3> QED BY <2>1, <3>2
    <2>3. q # k
      BY <1>4, <2>1, <2>2
    <2> QED BY <1>2, <2>1, <2>2, <2>3
  <1>6. ASSUME NEW t \in Spaces, started'[t] # NoProxy
        PROVE  proc'[started'[t].child].st # "free" /\ proc'[started'[t].child].space = t
    <2>1. CASE t = s
      BY <1>2, <1>4, <2>1
    <2>2. CASE t # s
      BY <1>1, <1>5, <1>6, <2>2
    <2> QED BY <2>1, <2>2
  <1>7. ASSUME NEW t \in Spaces, socket'[t] \in Children
        PROVE  started'[t].child = socket'[t] /\ proc'[socket'[t]].st = "live"
    <2>1. CASE t = s
      <3>1. socket'[t] = k
        BY <1>2, <1>7, <2>1, BrokerAssumption
      <3> QED BY <1>2, <1>4, <2>1, <3>1
    <2>2. CASE t # s
      <3>1. started[t].child = socket[t] /\ proc[socket[t]].st = "live"
            /\ socket[t] \in Children /\ socket'[t] = socket[t] /\ started'[t] = started[t]
        BY <1>1, <1>7, <2>2 DEF TableInvariant
      <3>2. started[t] # NoProxy
        BY <3>1, EntryFields, BrokerAssumption DEF Typed
      <3> QED BY <1>5, <2>2, <3>1, <3>2
    <2> QED BY <2>1, <2>2
  <1>8. ASSUME NEW d \in Conns, conn'[d].st = "open", conn'[d].child # NoChild
        PROVE  /\ started'[conn'[d].space].child = conn'[d].child
               /\ proc'[conn'[d].child].st = "live"
    <2>1. d # c
      BY <1>1, <1>8 DEF Moves
    <2>2. conn[d].st = "open" /\ conn'[d].space = conn[d].space
          /\ conn'[d].child = conn[d].child /\ conn[d].child \notin K
      BY <1>1, <1>8, <2>1 DEF Keeps
    <2> DEFINE t == conn[d].space
               q == conn[d].child
    <2>3. t \in Spaces /\ started[t].child = q /\ proc[q].st = "live" /\ q # NoChild
      BY <1>8, <2>2 DEF TableInvariant, Typed, ConnInvariant
    <2>4. t # s /\ started[t] # NoProxy
      BY <1>3, <2>2, <2>3, EntryFields DEF Typed
    <2> HIDE DEF t, q
    <2>5. proc'[q] = proc[q] /\ started'[t] = started[t]
      BY <1>1, <1>5, <2>3, <2>4
    <2> QED BY <2>2, <2>3, <2>5 DEF t, q
  <1> QED BY <1>6, <1>7, <1>8 DEF TableInvariant

LEMMA DeathKeepsTable ==
  ASSUME Typed, TableInvariant, NEW k \in Children, ProxyDies(k)
  PROVE  TableInvariant'
  <1>1. /\ Keeps(Conns, {k}) /\ started' = started
        /\ proc[k].st = "live" /\ proc'[k].st = "zombie" /\ proc'[k].space = proc[k].space
        /\ \A q \in Children \ {k} : proc'[q] = proc[q]
        /\ \A s \in Spaces : /\ socket[s] = k => socket'[s] \notin Children
                             /\ socket[s] # k => socket'[s] = socket[s]
    BY DiesEffect
  <1>2. ASSUME NEW t \in Spaces, started'[t] # NoProxy
        PROVE  proc'[started'[t].child].st # "free" /\ proc'[started'[t].child].space = t
    <2>1. started[t].child \in Children /\ proc[started[t].child].st # "free"
          /\ proc[started[t].child].space = t
      BY <1>1, <1>2, EntryFields DEF Typed, TableInvariant
    <2> QED BY <1>1, <2>1
  <1>3. ASSUME NEW t \in Spaces, socket'[t] \in Children
        PROVE  started'[t].child = socket'[t] /\ proc'[socket'[t]].st = "live"
    <2>1. socket[t] # k /\ socket'[t] = socket[t]
      BY <1>1, <1>3
    <2> QED BY <1>1, <1>3, <2>1 DEF TableInvariant
  <1>4. ASSUME NEW d \in Conns, conn'[d].st = "open", conn'[d].child # NoChild
        PROVE  /\ started'[conn'[d].space].child = conn'[d].child
               /\ proc'[conn'[d].child].st = "live"
    <2>1. conn[d].st = "open" /\ conn'[d].space = conn[d].space
          /\ conn'[d].child = conn[d].child /\ conn[d].child # k
      BY <1>1, <1>4 DEF Keeps
    <2>2. started[conn[d].space].child = conn[d].child /\ proc[conn[d].child].st = "live"
          /\ conn[d].child \in Children
      BY <1>4, <2>1 DEF TableInvariant, Typed, TypeOK, Connection
    <2> QED BY <1>1, <2>1, <2>2
  <1> QED BY <1>2, <1>3, <1>4 DEF TableInvariant

LEMMA InitTable == Init => TableInvariant
  <1>1. Init => /\ \A s \in Spaces : started[s] = NoProxy /\ socket[s] = NoChild
                /\ \A c \in Conns : conn[c].st = "none"
    BY NoConnectionTyped DEF Init
  <1> QED BY <1>1, BrokerAssumption DEF TableInvariant

LEMMA NextTable ==
  ASSUME Typed, TableInvariant, [Next]_vars
  PROVE  TableInvariant'
  \* Nothing but connections changes, and none of them is newly open.
  <1>1. ASSUME NEW D \in SUBSET Conns, Keeps(D, {}), \A d \in Conns \ D : conn'[d].st # "open",
               UNCHANGED <<started, proc, socket>>
        PROVE  TableInvariant'
    <2>1. ASSUME NEW d \in Conns, conn'[d].st = "open", conn'[d].child # NoChild
          PROVE  conn[d].st = "open" /\ conn'[d].space = conn[d].space
                 /\ conn'[d].child = conn[d].child
      BY <1>1, <2>1 DEF Keeps
    <2> QED BY <1>1, <2>1 DEF TableInvariant
  <1>2. ASSUME NEW c \in Conns, NEW g \in Cids, Accept(c, g) PROVE TableInvariant'
    <2>1. conn'[c].st = "accepted" /\ Keeps(Conns \ {c}, {}) /\ UNCHANGED <<started, proc, socket>>
      BY <1>2, AcceptEffect
    <2> QED BY <1>1, <2>1
  <1>3. ASSUME NEW c \in Conns, Resolve(c) PROVE TableInvariant'
    <2>1. conn'[c].st # "open" /\ Keeps(Conns \ {c}, {}) /\ UNCHANGED <<started, proc, socket>>
      BY <1>3, ResolveEffect
    <2> QED BY <1>1, <2>1
  <1>4. ASSUME NEW c \in Conns, CopyEnds(c) PROVE TableInvariant'
    <2>1. conn'[c].st # "open" /\ Keeps(Conns \ {c}, {}) /\ UNCHANGED <<started, proc, socket>>
      BY <1>4, CopyEndsEffect DEF Moves
    <2> QED BY <1>1, <2>1
  <1>5. ASSUME NEW c \in Conns, Connect(c) PROVE TableInvariant'
    <2> DEFINE t == conn[c].space
    <2>1. /\ t \in Spaces /\ conn'[c].space = t /\ Keeps(Conns \ {c}, {})
          /\ conn'[c].st = "open" => conn'[c].child = socket[t] /\ socket[t] \in Children
          /\ UNCHANGED <<started, proc, socket>>
      BY <1>5, ConnectEffect DEF Moves
    <2> HIDE DEF t
    <2>2. ASSUME NEW d \in Conns, conn'[d].st = "open", conn'[d].child # NoChild
          PROVE  \/ conn[d].st = "open" /\ conn'[d].space = conn[d].space
                    /\ conn'[d].child = conn[d].child
                 \/ conn'[d].space \in Spaces /\ conn'[d].child \in Children
                    /\ socket[conn'[d].space] = conn'[d].child
      <3>1. CASE d = c
        BY <2>1, <2>2, <3>1
      <3>2. CASE d # c
        BY <2>1, <2>2, <3>2 DEF Keeps
      <3> QED BY <3>1, <3>2
    <2> QED BY <2>1, <2>2 DEF TableInvariant
  <1>6. ASSUME NEW c \in Conns, ReuseProxy(c) PROVE TableInvariant'
    <2>1. /\ conn'[c].st = "leased" /\ Keeps(Conns \ {c}, {}) /\ UNCHANGED <<proc, socket>>
          /\ conn[c].space \in Spaces /\ started[conn[c].space] # NoProxy
          /\ \A t \in Spaces : started'[t].child = started[t].child
          /\ \A t \in Spaces \ {conn[c].space} : started'[t] = started[t]
      BY <1>6, ReuseEffect DEF Moves
    <2>2. ASSUME NEW d \in Conns, conn'[d].st = "open", conn'[d].child # NoChild
          PROVE  conn[d].st = "open" /\ conn'[d].space = conn[d].space
                 /\ conn'[d].child = conn[d].child /\ conn[d].space \in Spaces
      <3>1. d # c
        BY <2>1, <2>2
      <3> QED BY <2>1, <2>2, <3>1 DEF Keeps, Typed, ConnInvariant
    <2> QED BY <2>1, <2>2 DEF TableInvariant
  <1>7. ASSUME NEW c \in Conns, ProxyFails(c) PROVE TableInvariant'
    <2> DEFINE s == conn[c].space
               K == Stopped(s)
    <2>1. /\ conn'[c].st = "none" /\ Keeps(Conns \ {c}, K) /\ s \in Spaces /\ ~Usable(s)
          /\ \A q \in Children : q \notin K /\ proc[q] # FreeProcess => proc'[q] = proc[q]
          /\ started'[s] = NoProxy /\ socket'[s] \in {socket[s], NoChild}
          /\ \A t \in Spaces \ {s} : started'[t] = started[t] /\ socket'[t] = socket[t]
      BY <1>7, FailEffect
    <2>2. K = {started[s].child} \ {NoChild}
      BY <2>1, EntryFields DEF Typed
    <2>3. socket[s] \notin Children
      <3> SUFFICES ASSUME socket[s] \in Children PROVE FALSE
        OBVIOUS
      <3>1. started[s].child = socket[s] /\ proc[socket[s]].st = "live"
        BY <2>1 DEF TableInvariant
      <3>2. started[s] # NoProxy /\ socket[s] # NoChild
        BY <2>1, <3>1, EntryFields, BrokerAssumption DEF Typed
      <3> QED BY <2>1, <3>1, <3>2 DEF Usable
    <2>4. socket'[s] \notin Children
      BY <2>1, <2>3, BrokerAssumption
    <2> HIDE DEF s, K
    <2>5. ASSUME NEW q \in Children, proc[q].st # "free", \A t \in {s} : started[t].child # q
          PROVE  proc'[q] = proc[q]
      <3>1. proc[q] # FreeProcess /\ q \notin K
        BY <2>2, <2>5 DEF FreeProcess
      <3> QED BY <2>1, <3>1
    <2>6. ASSUME NEW d \in Conns, conn'[d].st = "open", conn'[d].child # NoChild
          PROVE  conn[d].st = "open" /\ conn'[d].space = conn[d].space
                 /\ conn'[d].child = conn[d].child
                 /\ \A t \in {s} : started[t].child # conn[d].child
      <3>1. d # c
        BY <2>1, <2>6
      <3> QED BY <2>1, <2>2, <2>6, <3>1 DEF Keeps
    <2> DEFINE S == {s}
    <2>7. /\ S \in SUBSET Spaces
          /\ \A t \in Spaces \ S : started'[t] = started[t] /\ socket'[t] = socket[t]
          /\ \A t \in S : started'[t] = NoProxy /\ socket'[t] \notin Children
      BY <2>1, <2>4
    <2>8. /\ \A q \in Children : proc[q].st # "free" /\ (\A t \in S : started[t].child # q)
                                    => proc'[q] = proc[q]
          /\ \A d \in Conns : conn'[d].st = "open" /\ conn'[d].child # NoChild =>
               conn[d].st = "open" /\ conn'[d].space = conn[d].space
                 /\ conn'[d].child = conn[d].child
                 /\ \A t \in S : started[t].child # conn[d].child
      BY <2>5, <2>6
    <2> HIDE DEF S
    <2> QED BY <2>7, <2>8, StopsOnly
  \* Proxies are stopped with the connections they have.
  <1>8. ASSUME NEW S \in SUBSET Spaces, Gone(S), NEW D \in SUBSET Conns,
               Keeps(D, {started[s].child : s \in S}), \A d \in Conns \ D : conn'[d].st # "open"
        PROVE  TableInvariant'
    <2>1. /\ \A s \in S : started'[s] = NoProxy /\ socket'[s] \notin Children
          /\ \A s \in Spaces \ S : started'[s] = started[s] /\ socket'[s] = socket[s]
          /\ \A q \in Children :
               (\A s \in S : started[s].child # q) => proc'[q] = proc[q]
      BY <1>8, GoneEffect, BrokerAssumption DEF Typed
    <2>2. ASSUME NEW d \in Conns, conn'[d].st = "open", conn'[d].child # NoChild
          PROVE  conn[d].st = "open" /\ conn'[d].space = conn[d].space
                 /\ conn'[d].child = conn[d].child
                 /\ \A s \in S : started[s].child # conn[d].child
      BY <1>8, <2>2 DEF Keeps
    <2> QED BY <2>1, <2>2, StopsOnly
  <1>9. ASSUME NEW c \in Conns, Release(c) PROVE TableInvariant'
    <2> DEFINE s == conn[c].space
    <2>1. conn'[c].st # "open" /\ s \in Spaces
      BY <1>9, ReleaseEffect
    <2>2. CASE started[s] = NoProxy /\ Keeps(Conns \ {c}, {}) /\ UNCHANGED <<started, proc, socket>>
      BY <1>1, <2>1, <2>2
    <2>3. CASE /\ started[s] # NoProxy
               /\ \A t \in Spaces : started'[t].child = started[t].child
               /\ \A t \in Spaces \ {s} : started'[t] = started[t]
               /\ Keeps(Conns \ {c}, {}) /\ UNCHANGED <<proc, socket>>
      <3>1. ASSUME NEW d \in Conns, conn'[d].st = "open", conn'[d].child # NoChild
            PROVE  conn[d].st = "open" /\ conn'[d].space = conn[d].space
                   /\ conn'[d].child = conn[d].child /\ conn[d].space \in Spaces
        <4>1. d # c
          BY <2>1, <3>1
        <4> QED BY <2>3, <3>1, <4>1 DEF Keeps, Typed, ConnInvariant
      <3> QED BY <2>1, <2>3, <3>1 DEF TableInvariant
    <2>4. CASE Gone({s}) /\ Keeps(Conns \ {c}, {started[s].child})
      <3>1. {started[t].child : t \in {s}} = {started[s].child}
        OBVIOUS
      <3> QED BY <1>8, <2>1, <2>4, <3>1
    <2> QED BY <1>9, <2>2, <2>3, <2>4, ReleaseEffect
  <1>10. CASE ReapDeadProxies
    <2>1. Dead \in SUBSET Spaces
      BY DEF Dead
    <2> QED BY <1>8, <1>10, <2>1, ReapEffect
  <1>11. ASSUME NEW s \in Spaces, SocketVanishes(s) PROVE TableInvariant'
    <2>1. /\ UNCHANGED <<started, proc, conn>>
          /\ \A t \in Spaces : socket'[t] = socket[t] \/ socket'[t] \notin Children
      BY <1>11, BrokerAssumption DEF SocketVanishes, Typed, TypeOK
    <2> QED BY <2>1 DEF TableInvariant
  <1>12. CASE UNCHANGED <<started, proc, socket, conn>>
    BY <1>12 DEF TableInvariant
  <1>13. ASSUME NEW c \in Conns, Handle(c) PROVE TableInvariant'
    BY <1>2, <1>3, <1>4, <1>5, <1>6, <1>7, <1>9, <1>13, StartKeepsTable DEF Handle
  <1>14. CASE Around
    <2>1. ASSUME NEW r \in [Spaces -> Cids \cup {NoCid}], Rewrite(r)
          PROVE  UNCHANGED <<started, proc, socket, conn>>
      BY <2>1 DEF Rewrite
    <2>2. ASSUME NEW g \in Cids, GuestStarts(g) \/ GuestStops(g)
          PROVE  UNCHANGED <<started, proc, socket, conn>>
      BY <2>2 DEF GuestStarts, GuestStops
    <2> QED BY <1>11, <1>12, <1>14, <2>1, <2>2, DeathKeepsTable DEF Around
  <1>15. CASE UNCHANGED vars
    BY <1>12, <1>15 DEF vars
  <1> QED BY <1>10, <1>13, <1>14, <1>15 DEF Next


(* Whose window is whose. *)

\* Nothing comes to be served that was not, but for a proxy for a busy connection.
LEMMA OwnersKept ==
  ASSUME Typed, OwnerInvariant, registry' = registry, alive' \subseteq alive,
         \A d \in Conns : conn'[d].st \in Busy =>
           conn[d].st \in Busy /\ conn'[d].cid = conn[d].cid /\ conn'[d].space = conn[d].space,
         \A s \in Spaces : started'[s] # NoProxy =>
           \/ started[s] # NoProxy /\ started'[s].cid = started[s].cid
           \/ \E c \in Conns : /\ conn[c].st \in Busy /\ conn[c].space = s
                               /\ started'[s].cid = conn[c].cid
  PROVE  OwnerInvariant'
  <1>1. ASSUME NEW s \in Spaces, NEW c \in Conns, conn'[c].st \in Busy, conn'[c].space = s,
               conn'[c].cid \in alive' \/ registry'[s] \in alive'
        PROVE  conn'[c].cid = registry'[s]
    <2>1. conn[c].st \in Busy /\ conn[c].space = s /\ conn'[c].cid = conn[c].cid
      BY <1>1
    <2> QED BY <1>1, <2>1 DEF OwnerInvariant
  <1>2. ASSUME NEW s \in Spaces, started'[s] # NoProxy,
               started'[s].cid \in alive' \/ registry'[s] \in alive'
        PROVE  started'[s].cid = registry'[s]
    <2>1. CASE started[s] # NoProxy /\ started'[s].cid = started[s].cid
      BY <1>2, <2>1 DEF OwnerInvariant
    <2>2. ASSUME NEW c \in Conns, conn[c].st \in Busy, conn[c].space = s,
                 started'[s].cid = conn[c].cid
          PROVE  started'[s].cid = registry'[s]
      BY <1>2, <2>2 DEF OwnerInvariant
    <2> QED BY <1>2, <2>1, <2>2
  <1> QED BY <1>1, <1>2 DEF OwnerInvariant

\* What the thread of a connection does to the map, as far as the guests go.
LEMMA HandleServes ==
  ASSUME Typed, NEW c \in Conns, Handle(c)
  PROVE  /\ UNCHANGED <<registry, alive>> /\ swept' \subseteq swept
         /\ \A s \in Spaces : started'[s] # NoProxy =>
              \/ started[s] # NoProxy /\ started'[s].cid = started[s].cid
              \/ /\ conn[c].st = "resolved" /\ conn[c].space = s
                 /\ started'[s].cid = conn[c].cid /\ conn[c].cid \notin swept'
         /\ \/ \A d \in Conns : conn'[d].st \in Busy =>
                 conn[d].st \in Busy /\ conn'[d].cid = conn[d].cid /\ conn'[d].space = conn[d].space
            \/ Resolve(c)
  <1> DEFINE Goal1 == UNCHANGED <<registry, alive>> /\ swept' \subseteq swept
             Goal2 == \A s \in Spaces : started'[s] # NoProxy =>
                        \/ started[s] # NoProxy /\ started'[s].cid = started[s].cid
                        \/ /\ conn[c].st = "resolved" /\ conn[c].space = s
                           /\ started'[s].cid = conn[c].cid /\ conn[c].cid \notin swept'
             Goal3 == \A d \in Conns : conn'[d].st \in Busy =>
                        conn[d].st \in Busy /\ conn'[d].cid = conn[d].cid
                          /\ conn'[d].space = conn[d].space
  <1>1. ASSUME NEW K, Keeps(Conns \ {c}, K),
               conn'[c].st \notin Busy \/ (conn[c].st \in Busy /\ Moves(c, conn'[c].st))
        PROVE  Goal3
    BY <1>1 DEF Keeps, Moves
  <1>2. ASSUME NEW g \in Cids, Accept(c, g) PROVE Goal1 /\ Goal2 /\ Goal3
    <2>1. conn'[c].st \notin Busy
      BY <1>2, AcceptEffect DEF Busy
    <2> QED BY <1>1, <1>2, <2>1, AcceptEffect
  <1>3. CASE Resolve(c)
    BY <1>3, ResolveEffect
  <1>4. CASE ReuseProxy(c)
    <2>1. /\ Goal1 /\ Keeps(Conns \ {c}, {}) /\ Moves(c, "leased")
          /\ conn[c].st = "resolved" /\ conn[c].space \in Spaces
          /\ started[conn[c].space] # NoProxy
          /\ \A t \in Spaces : started'[t].cid = started[t].cid
          /\ \A t \in Spaces \ {conn[c].space} : started'[t] = started[t]
      BY <1>4, ReuseEffect
    <2>2. Goal3
      BY <1>1, <2>1 DEF Busy, Moves
    <2> QED BY <2>1, <2>2
  <1>5. CASE StartProxy(c)
    <2>1. /\ Goal1 /\ Keeps(Conns \ {c}, Stopped(conn[c].space)) /\ Moves(c, "leased")
          /\ conn[c].st = "resolved" /\ swept' = swept \ {conn[c].cid}
          /\ started'[conn[c].space].cid = conn[c].cid
          /\ \A t \in Spaces \ {conn[c].space} : started'[t] = started[t]
      BY <1>5, StartEffect
    <2>2. Goal3
      BY <1>1, <2>1 DEF Busy, Moves
    <2> QED BY <2>1, <2>2
  <1>6. CASE ProxyFails(c)
    <2>1. /\ Goal1 /\ Keeps(Conns \ {c}, Stopped(conn[c].space)) /\ conn'[c].st = "none"
          /\ started'[conn[c].space] = NoProxy
          /\ \A t \in Spaces \ {conn[c].space} : started'[t] = started[t]
      BY <1>6, FailEffect
    <2>2. Goal3
      BY <1>1, <2>1 DEF Busy
    <2> QED BY <2>1, <2>2
  <1>7. CASE Connect(c)
    <2>1. /\ Goal1 /\ Goal2 /\ Keeps(Conns \ {c}, {}) /\ conn[c].st = "leased"
          /\ Moves(c, conn'[c].st)
      BY <1>7, ConnectEffect DEF Moves
    <2>2. Goal3
      BY <1>1, <2>1 DEF Busy
    <2> QED BY <2>1, <2>2
  <1>8. CASE CopyEnds(c)
    <2>1. /\ Goal1 /\ Goal2 /\ Keeps(Conns \ {c}, {}) /\ conn[c].st = "open"
          /\ Moves(c, conn'[c].st)
      BY <1>8, CopyEndsEffect DEF Moves
    <2>2. Goal3
      BY <1>1, <2>1 DEF Busy
    <2> QED BY <2>1, <2>2
  <1>9. CASE Release(c)
    <2> DEFINE s == conn[c].space
    <2>1. Goal1 /\ conn'[c].st = "none" /\ s \in Spaces
      BY <1>9, ReleaseEffect
    <2>2. conn'[c].st \notin Busy
      BY <2>1 DEF Busy
    <2>3. CASE started[s] = NoProxy /\ Keeps(Conns \ {c}, {}) /\ UNCHANGED <<started, proc, socket>>
      BY <1>1, <2>1, <2>2, <2>3
    <2>4. CASE /\ started[s] # NoProxy
               /\ \A t \in Spaces : started'[t].cid = started[t].cid
               /\ \A t \in Spaces \ {s} : started'[t] = started[t]
               /\ Keeps(Conns \ {c}, {})
      BY <1>1, <2>1, <2>2, <2>4
    <2>5. CASE Gone({s}) /\ Keeps(Conns \ {c}, {started[s].child})
      <3>1. /\ \A t \in {s} : started'[t] = NoProxy
            /\ \A t \in Spaces \ {s} : started'[t] = started[t]
        BY <2>1, <2>5, GoneEffect DEF Typed
      <3> QED BY <1>1, <2>1, <2>2, <2>5, <3>1
    <2> QED BY <1>9, <2>3, <2>4, <2>5, ReleaseEffect
  <1> QED BY <1>2, <1>3, <1>4, <1>5, <1>6, <1>7, <1>8, <1>9 DEF Handle

\* When a guest boots, nothing of a dead guest is served: what the watchdog did
\* not stop and no thread is about to end would be connected to a living proxy,
\* and that proxy's guest is not one the watchdog has been round for.
LEMMA SettledIsClean ==
  ASSUME Typed, TableInvariant, OwnerInvariant, SweptInvariant, Settled
  PROVE  /\ \A s \in Spaces : started[s] # NoProxy => started[s].cid \in alive
         /\ \A c \in Conns : conn[c].st \in Busy => conn[c].cid \in alive
  <1>1. ASSUME NEW s \in Spaces, started[s] # NoProxy, started[s].cid \notin alive PROVE FALSE
    <2>1. started[s].cid \in swept
      BY <1>1, EntryFields DEF Settled, Typed
    <2> QED BY <1>1, <2>1 DEF SweptInvariant
  <1>2. ASSUME NEW c \in Conns, conn[c].st \in Busy, conn[c].cid \notin alive PROVE FALSE
    <2>1. ~Due(c)
      BY <1>2 DEF Settled
    <2>2. conn[c].st = "open" /\ conn[c].child # NoChild
      BY <1>2, <2>1 DEF Due, Busy
    <2> DEFINE s == conn[c].space
    <2>3. s \in Spaces /\ started[s].child # NoChild
      BY <2>2 DEF TableInvariant, Typed, ConnInvariant
    <2>4. started[s] # NoProxy
      BY <2>3, EntryFields DEF Typed
    <2>5. started[s].cid \in alive
      BY <1>1, <2>3, <2>4
    <2>6. started[s].cid = registry[s]
      BY <2>3, <2>4, <2>5 DEF OwnerInvariant
    <2>7. conn[c].cid = registry[s]
      BY <1>2, <2>3, <2>5, <2>6 DEF OwnerInvariant
    <2> QED BY <1>2, <2>5, <2>6, <2>7
  <1> QED BY <1>1, <1>2

LEMMA NextOwners ==
  ASSUME SlowBoot, Typed, TableInvariant, OwnerInvariant, SweptInvariant, [Next]_vars
  PROVE  OwnerInvariant'
  <1>1. ASSUME NEW c \in Conns, Handle(c), ~Resolve(c) PROVE OwnerInvariant'
    <2>1. /\ registry' = registry /\ alive' \subseteq alive
          /\ \A d \in Conns : conn'[d].st \in Busy =>
               conn[d].st \in Busy /\ conn'[d].cid = conn[d].cid /\ conn'[d].space = conn[d].space
          /\ \A s \in Spaces : started'[s] # NoProxy =>
               \/ started[s] # NoProxy /\ started'[s].cid = started[s].cid
               \/ /\ conn[c].st \in Busy /\ conn[c].space = s
                  /\ started'[s].cid = conn[c].cid
      BY <1>1, HandleServes DEF Busy
    <2> QED BY <2>1, OwnersKept
  <1>2. ASSUME NEW c \in Conns, Resolve(c) PROVE OwnerInvariant'
    <2>1. /\ Keeps(Conns \ {c}, {}) /\ UNCHANGED <<registry, alive, started>>
          /\ conn'[c].st \in Busy => /\ conn'[c].cid = conn[c].cid
                                     /\ registry[conn'[c].space] = conn[c].cid
      BY <1>2, ResolveEffect DEF Busy
    <2>2. ASSUME NEW s \in Spaces, NEW d \in Conns, conn'[d].st \in Busy, conn'[d].space = s,
                 conn'[d].cid \in alive' \/ registry'[s] \in alive'
          PROVE  conn'[d].cid = registry'[s]
      <3>1. CASE d = c
        BY <2>1, <2>2, <3>1
      <3>2. CASE d # c
        <4>1. conn[d].st \in Busy /\ conn[d].space = s /\ conn'[d].cid = conn[d].cid
          BY <2>1, <2>2, <3>2 DEF Keeps
        <4> QED BY <2>1, <2>2, <4>1 DEF OwnerInvariant
      <3> QED BY <3>1, <3>2
    <2> QED BY <2>1, <2>2 DEF OwnerInvariant
  <1>3. CASE ReapDeadProxies
    <2>1. Gone(Dead) /\ Keeps(Conns, {started[s].child : s \in Dead})
          /\ UNCHANGED <<registry, alive>> /\ Dead \in SUBSET Spaces
      BY <1>3, ReapEffect DEF Dead
    <2>2. \A s \in Spaces : started'[s] # NoProxy => started[s] # NoProxy /\ started'[s] = started[s]
      BY <2>1, GoneEffect DEF Typed
    <2>3. \A d \in Conns : conn'[d].st \in Busy =>
            conn[d].st \in Busy /\ conn'[d].cid = conn[d].cid /\ conn'[d].space = conn[d].space
      BY <2>1 DEF Keeps
    <2> QED BY <2>1, <2>2, <2>3, OwnersKept
  <1>4. ASSUME NEW k \in Children, ProxyDies(k) PROVE OwnerInvariant'
    <2>1. Keeps(Conns, {k}) /\ UNCHANGED <<registry, alive, started>>
      BY <1>4, DiesEffect
    <2>2. \A d \in Conns : conn'[d].st \in Busy =>
            conn[d].st \in Busy /\ conn'[d].cid = conn[d].cid /\ conn'[d].space = conn[d].space
      BY <2>1 DEF Keeps
    <2> QED BY <2>1, <2>2, OwnersKept
  <1>5. CASE UNCHANGED <<registry, alive, started, conn>>
    BY <1>5 DEF OwnerInvariant
  <1>6. ASSUME NEW g \in Cids, GuestStops(g) PROVE OwnerInvariant'
    <2>1. UNCHANGED <<registry, started, conn>> /\ alive' \subseteq alive
      BY <1>6 DEF GuestStops
    <2> QED BY <2>1, OwnersKept
  <1>7. ASSUME NEW g \in Cids, GuestStarts(g) PROVE OwnerInvariant'
    <2>1. UNCHANGED <<registry, started, conn>> /\ Settled
      BY <1>7 DEF GuestStarts
    <2>2. /\ \A s \in Spaces : started[s] # NoProxy => started[s].cid \in alive
          /\ \A c \in Conns : conn[c].st \in Busy => conn[c].cid \in alive
      BY <2>1, SettledIsClean
    <2> QED BY <2>1, <2>2 DEF OwnerInvariant
  \* The registry changes where no running guest is concerned.
  <1>8. ASSUME NEW r \in [Spaces -> Cids \cup {NoCid}], Rewrite(r) PROVE OwnerInvariant'
    <2>1. /\ UNCHANGED <<alive, started, conn>> /\ registry' = r
          /\ \A s \in Spaces : r[s] # registry[s] => r[s] \notin alive /\ registry[s] \notin alive
      BY <1>8 DEF Rewrite
    <2>2. ASSUME NEW s \in Spaces, started[s] # NoProxy,
                 started[s].cid \in alive \/ r[s] \in alive
          PROVE  started[s].cid = r[s]
      BY <2>1, <2>2 DEF OwnerInvariant
    <2>3. ASSUME NEW s \in Spaces, NEW c \in Conns, conn[c].st \in Busy, conn[c].space = s,
                 conn[c].cid \in alive \/ r[s] \in alive
          PROVE  conn[c].cid = r[s]
      BY <2>1, <2>3 DEF OwnerInvariant
    <2> QED BY <2>1, <2>2, <2>3 DEF OwnerInvariant
  <1>12. ASSUME NEW s \in Spaces, SocketVanishes(s) PROVE OwnerInvariant'
    BY <1>5, <1>12 DEF SocketVanishes, host
  <1>13. CASE Around
    BY <1>4, <1>6, <1>7, <1>8, <1>12, <1>13 DEF Around
  <1>14. CASE UNCHANGED vars
    BY <1>5, <1>14 DEF vars
  <1> QED BY <1>1, <1>2, <1>3, <1>13, <1>14 DEF Next

LEMMA NextSwept ==
  ASSUME Typed, SweptInvariant, [Next]_vars
  PROVE  SweptInvariant'
  <1>1. ASSUME NEW c \in Conns, Handle(c) PROVE SweptInvariant'
    <2>1. /\ alive' = alive /\ swept' \subseteq swept
          /\ \A s \in Spaces : started'[s] # NoProxy =>
               \/ started[s] # NoProxy /\ started'[s].cid = started[s].cid
               \/ started'[s].cid = conn[c].cid /\ conn[c].cid \notin swept'
      BY <1>1, HandleServes
    <2> QED BY <2>1 DEF SweptInvariant
  <1>2. CASE ReapDeadProxies
    <2>1. Gone(Dead) /\ alive' = alive /\ Dead \in SUBSET Spaces
      BY <1>2, ReapEffect DEF Dead
    <2>2. /\ \A s \in Dead : started'[s] = NoProxy
          /\ \A s \in Spaces \ Dead : started'[s] = started[s]
      BY <2>1, GoneEffect DEF Typed
    <2> QED BY <2>1, <2>2 DEF SweptInvariant, Dead
  <1>3. CASE UNCHANGED <<alive, swept, started>>
    BY <1>3 DEF SweptInvariant
  <1>4. ASSUME NEW g \in Cids, GuestStarts(g) \/ GuestStops(g) PROVE SweptInvariant'
    <2>1. \/ alive \subseteq alive' /\ swept' = swept /\ started' = started
          \/ alive' = alive \ {g} /\ swept' = swept \ {g} /\ started' = started
      BY <1>4 DEF GuestStarts, GuestStops
    <2> QED BY <2>1 DEF SweptInvariant
  <1>5. ASSUME NEW k \in Children, ProxyDies(k) PROVE SweptInvariant'
    BY <1>3, <1>5 DEF ProxyDies, host
  <1>6. ASSUME \/ \E s \in Spaces : SocketVanishes(s)
               \/ \E r \in [Spaces -> Cids \cup {NoCid}] : Rewrite(r)
        PROVE  SweptInvariant'
    BY <1>3, <1>6 DEF SocketVanishes, Rewrite, host
  <1>7. CASE Around
    BY <1>4, <1>5, <1>6, <1>7 DEF Around
  <1>8. CASE UNCHANGED vars
    BY <1>3, <1>8 DEF vars
  <1> QED BY <1>1, <1>2, <1>7, <1>8 DEF Next

\* An open connection ends in the proxy of the space it was resolved to.
LEMMA OpenIsOwn ==
  ASSUME Typed, TableInvariant, NEW c \in Conns, conn[c].st = "open",
         conn[c].child # NoChild
  PROVE  /\ conn[c].space \in Spaces /\ started[conn[c].space] # NoProxy
         /\ proc[conn[c].child].space = conn[c].space
  <1>1. conn[c].space \in Spaces /\ started[conn[c].space].child = conn[c].child
    BY DEF TableInvariant, Typed, ConnInvariant
  <1>2. started[conn[c].space] # NoProxy
    BY <1>1, EntryFields DEF Typed
  <1> QED BY <1>1, <1>2 DEF TableInvariant

Windows == Typed /\ TableInvariant /\ OwnerInvariant /\ SweptInvariant

LEMMA WindowsAlways ==
  ASSUME SlowBoot
  PROVE  Spec => []Windows
  <1>1. Init => Windows
    <2> SUFFICES ASSUME Init PROVE Windows
      OBVIOUS
    <2>1. Typed /\ TableInvariant
      BY InitTyped, InitTable
    <2>2. /\ \A s \in Spaces : started[s] = NoProxy /\ socket[s] = NoChild
          /\ \A c \in Conns : conn[c].st = "none"
      BY NoConnectionTyped DEF Init
    <2> QED BY <2>1, <2>2, BrokerAssumption
            DEF Windows, OwnerInvariant, SweptInvariant, Busy
  <1>2. Windows /\ [Next]_vars => Windows'
    BY NextTyped, NextTable, NextOwners, NextSwept DEF Windows
  <1> QED BY <1>1, <1>2, PTL DEF Spec

\* A connection of a running guest ends in the proxy of that guest's space, under
\* every fault of proxies, sockets and spawns, if a boot takes longer than the
\* watchdog's second (broker.rs handle, reap_dead_proxies): the label on the
\* screen is never that of a former owner of the CID.
THEOREM NoStaleWindowTheorem ==
  ASSUME SlowBoot
  PROVE  Spec => []NoStaleWindow
  <1>1. Windows => NoStaleWindow
    <2> SUFFICES ASSUME Windows, NEW c \in Conns, conn[c].st = "open",
                        conn[c].child # NoChild, conn[c].cid \in alive
                 PROVE  proc[conn[c].child].space \in ByCid(conn[c].cid)
      BY DEF NoStaleWindow
    <2> DEFINE s == conn[c].space
    <2>1. s \in Spaces /\ started[s] # NoProxy /\ proc[conn[c].child].space = s
      BY OpenIsOwn DEF Windows
    <2>2. registry[s] = conn[c].cid
      BY <2>1 DEF Windows, OwnerInvariant, Busy
    <2> QED BY <2>1, <2>2 DEF ByCid
  <1> QED BY <1>1, WindowsAlways, PTL


(* The count of leases, if no spawn fails and no proxy is late. *)

HoldsLease == {"leased", "open", "ending"}

\* Nobody takes or gives back a lease.
LEMMA SameLeases ==
  ASSUME \A d \in Conns : \/ conn'[d].st = conn[d].st /\ conn'[d].space = conn[d].space
                          \/ conn'[d].st \notin HoldsLease /\ conn[d].st \notin HoldsLease
                          \/ /\ conn'[d].st \in HoldsLease /\ conn[d].st \in HoldsLease
                             /\ conn'[d].space = conn[d].space
  PROVE  \A s \in Spaces : Leased(s)' = Leased(s)
  BY DEF Leased, HoldsLease

LEMMA OneMoreLease ==
  ASSUME Typed, NEW c \in Conns, NEW K, Keeps(Conns \ {c}, K), conn[c].st = "resolved",
         Moves(c, "leased"), NEW s \in Spaces, conn[c].space = s
  PROVE  /\ Cardinality(Leased(s)') = Cardinality(Leased(s)) + 1
         /\ \A t \in Spaces \ {s} : Leased(t)' = Leased(t)
  <1>1. Leased(s)' = Leased(s) \cup {c} /\ c \notin Leased(s)
    BY DEF Leased, Keeps, Moves
  <1>2. \A t \in Spaces \ {s} : Leased(t)' = Leased(t)
    BY DEF Leased, Keeps, Moves
  <1>3. Leased(s) \subseteq Conns
    BY DEF Leased
  <1>4. IsFiniteSet(Leased(s))
    BY <1>3, FS_Subset, BrokerAssumption
  <1>5. Cardinality(Leased(s) \cup {c}) = Cardinality(Leased(s)) + 1
    BY <1>1, <1>4, FS_AddElement
  <1> QED BY <1>1, <1>2, <1>5

LEMMA OneLeaseLess ==
  ASSUME Typed, NEW c \in Conns, NEW K, Keeps(Conns \ {c}, K), conn[c].st = "ending",
         conn'[c].st = "none", NEW s \in Spaces, conn[c].space = s
  PROVE  /\ Cardinality(Leased(s)') = Cardinality(Leased(s)) - 1
         /\ Cardinality(Leased(s)) \in Nat \ {0}
         /\ \A t \in Spaces \ {s} : Leased(t)' = Leased(t)
  <1>1. Leased(s)' = Leased(s) \ {c} /\ c \in Leased(s)
    BY DEF Leased, Keeps
  <1>2. \A t \in Spaces \ {s} : Leased(t)' = Leased(t)
    BY DEF Leased, Keeps
  <1>3. Leased(s) \subseteq Conns
    BY DEF Leased
  <1>4. IsFiniteSet(Leased(s))
    BY <1>3, FS_Subset, BrokerAssumption
  <1>5. Cardinality(Leased(s) \ {c}) = Cardinality(Leased(s)) - 1
    BY <1>1, <1>4, FS_RemoveElement
  <1>6. Cardinality(Leased(s)) \in Nat /\ Cardinality(Leased(s)) # 0
    BY <1>1, <1>4, FS_CardinalityType, FS_EmptySet
  <1> QED BY <1>1, <1>2, <1>5, <1>6

LEMMA NextLeases ==
  ASSUME SlowBoot, Faults \subseteq {"unlink", "vanish"}, Windows, LeaseInvariant, [Next]_vars
  PROVE  LeaseInvariant'
  <1> USE DEF Windows
  \* No lease changes hands and no entry changes but those of dead guests.
  <1>1. ASSUME UNCHANGED <<registry, alive>>, \A s \in Spaces : Leased(s)' = Leased(s),
               \A s \in Spaces : registry[s] \in alive => started'[s].leases = started[s].leases
        PROVE  LeaseInvariant'
    BY <1>1 DEF LeaseInvariant
  <1>2. ASSUME NEW c \in Conns, NEW g \in Cids, Accept(c, g) PROVE LeaseInvariant'
    <2>1. /\ conn[c].st = "none" /\ conn'[c].st = "accepted" /\ Keeps(Conns \ {c}, {})
          /\ UNCHANGED <<registry, alive, started>>
      BY <1>2, AcceptEffect, NoConnectionTyped DEF Accept
    <2>2. \A s \in Spaces : Leased(s)' = Leased(s)
      BY <2>1, SameLeases DEF Keeps, HoldsLease
    <2> QED BY <1>1, <2>1, <2>2
  <1>3. ASSUME NEW c \in Conns, Resolve(c) PROVE LeaseInvariant'
    <2>1. /\ conn[c].st = "accepted" /\ conn'[c].st \in {"none", "resolved"}
          /\ Keeps(Conns \ {c}, {}) /\ UNCHANGED <<registry, alive, started>>
      BY <1>3, ResolveEffect DEF Resolve
    <2>2. \A s \in Spaces : Leased(s)' = Leased(s)
      BY <2>1, SameLeases DEF Keeps, HoldsLease
    <2> QED BY <1>1, <2>1, <2>2
  <1>4. ASSUME NEW c \in Conns, Connect(c) PROVE LeaseInvariant'
    <2>1. /\ conn[c].st = "leased" /\ conn'[c].st \in {"open", "ending"}
          /\ conn'[c].space = conn[c].space
          /\ Keeps(Conns \ {c}, {}) /\ UNCHANGED <<registry, alive, started>>
      BY <1>4, ConnectEffect DEF Moves
    <2>2. \A s \in Spaces : Leased(s)' = Leased(s)
      BY <2>1, SameLeases DEF Keeps, HoldsLease
    <2> QED BY <1>1, <2>1, <2>2
  <1>5. ASSUME NEW c \in Conns, CopyEnds(c) PROVE LeaseInvariant'
    <2>1. /\ conn[c].st = "open" /\ conn'[c].st = "ending" /\ conn'[c].space = conn[c].space
          /\ Keeps(Conns \ {c}, {}) /\ UNCHANGED <<registry, alive, started>>
      BY <1>5, CopyEndsEffect DEF Moves
    <2>2. \A s \in Spaces : Leased(s)' = Leased(s)
      BY <2>1, SameLeases DEF Keeps, HoldsLease
    <2> QED BY <1>1, <2>1, <2>2
  <1>6. ASSUME NEW c \in Conns, ReuseProxy(c) \/ StartProxy(c) PROVE LeaseInvariant'
    <2>1. conn[c].space \in Spaces
      BY <1>6, ReuseEffect, StartEffect
    <2>2. PICK s \in Spaces : conn[c].space = s
      BY <2>1
    <2>3. /\ conn[c].st = "resolved" /\ Moves(c, "leased")
          /\ started'[s].leases = started[s].leases + 1
          /\ \A t \in Spaces \ {s} : started'[t] = started[t]
          /\ UNCHANGED <<registry, alive>>
      <3>1. CASE ReuseProxy(c)
        BY <2>2, <3>1, ReuseEffect
      <3>2. CASE StartProxy(c)
        BY <2>2, <3>2, StartEffect
      <3> QED BY <1>6, <3>1, <3>2
    <2>4. \E K : Keeps(Conns \ {c}, K)
      <3>1. CASE ReuseProxy(c)
        BY <3>1, ReuseEffect
      <3>2. CASE StartProxy(c)
        BY <3>2, StartEffect
      <3> QED BY <1>6, <3>1, <3>2
    <2>5. /\ conn[c].st = "resolved" /\ Moves(c, "leased") /\ conn[c].space = s
          /\ \E K : Keeps(Conns \ {c}, K)
          /\ started'[s].leases = started[s].leases + 1
          /\ \A t \in Spaces \ {s} : started'[t] = started[t]
          /\ UNCHANGED <<registry, alive>>
      BY <2>2, <2>3, <2>4
    <2>6. /\ Cardinality(Leased(s)') = Cardinality(Leased(s)) + 1
          /\ \A t \in Spaces \ {s} : Leased(t)' = Leased(t)
      BY <2>5, OneMoreLease
    <2>7. registry[s] \in alive => started'[s].leases = Cardinality(Leased(s)')
      BY <2>5, <2>6 DEF LeaseInvariant
    <2>8. \A t \in Spaces \ {s} :
            registry[t] \in alive => started'[t].leases = Cardinality(Leased(t)')
      BY <2>5, <2>6 DEF LeaseInvariant
    <2> QED BY <2>5, <2>7, <2>8 DEF LeaseInvariant
  <1>7. ASSUME NEW c \in Conns, ProxyFails(c) PROVE FALSE
    BY <1>7 DEF ProxyFails
  <1>8. ASSUME NEW c \in Conns, Release(c) PROVE LeaseInvariant'
    <2>1. conn[c].space \in Spaces
      BY <1>8, ReleaseEffect
    <2>2. PICK s \in Spaces : conn[c].space = s
      BY <2>1
    <2>3. /\ conn[c].st = "ending" /\ conn'[c].st = "none" /\ conn[c].space = s
          /\ \E K : Keeps(Conns \ {c}, K)
          /\ UNCHANGED <<registry, alive>>
      BY <1>8, <2>2, ReleaseEffect
    <2>4. /\ Cardinality(Leased(s)') = Cardinality(Leased(s)) - 1
          /\ Cardinality(Leased(s)) \in Nat \ {0}
          /\ \A t \in Spaces \ {s} : Leased(t)' = Leased(t)
      BY <2>3, OneLeaseLess
    <2>5. registry[s] \in alive => started'[s].leases = started[s].leases - 1
      <3> SUFFICES ASSUME registry[s] \in alive PROVE started'[s].leases = started[s].leases - 1
        OBVIOUS
      <3>1. started[s].leases # 0
        BY <2>3, <2>4 DEF LeaseInvariant
      <3>2. started[s] # NoProxy
        BY <2>3, <3>1, EntryFields DEF Typed
      <3>3. CASE started[s].leases = 1 /\ Gone({s})
        <4>1. started'[s] = NoProxy
          BY <2>3, <3>3, GoneEffect DEF Typed
        <4> QED BY <3>3, <4>1 DEF NoProxy
      <3> QED BY <1>8, <2>3, <3>2, <3>3, ReleaseEffect
    <2>6. \A t \in Spaces \ {s} : started'[t] = started[t]
      <3>1. CASE Gone({s})
        BY <2>3, <3>1, GoneEffect DEF Typed
      <3> QED BY <1>8, <2>3, <3>1, ReleaseEffect
    <2>7. registry[s] \in alive => started'[s].leases = Cardinality(Leased(s)')
      BY <2>3, <2>4, <2>5 DEF LeaseInvariant
    <2>8. \A t \in Spaces \ {s} :
            registry[t] \in alive => started'[t].leases = Cardinality(Leased(t)')
      BY <2>4, <2>6 DEF LeaseInvariant
    <2> QED BY <2>3, <2>7, <2>8 DEF LeaseInvariant
  <1>9. CASE ReapDeadProxies
    <2>1. Gone(Dead) /\ Keeps(Conns, {started[s].child : s \in Dead})
          /\ UNCHANGED <<registry, alive>> /\ Dead \in SUBSET Spaces
      BY <1>9, ReapEffect DEF Dead
    <2>2. \A s \in Spaces \ Dead : started'[s] = started[s]
      BY <2>1, GoneEffect DEF Typed
    <2>3. \A s \in Dead : registry[s] \notin alive
      BY DEF Dead, OwnerInvariant
    <2>4. \A s \in Spaces : Leased(s)' = Leased(s)
      BY <2>1, SameLeases DEF Keeps
    <2> QED BY <1>1, <2>1, <2>2, <2>3, <2>4
  <1>10. ASSUME NEW k \in Children, ProxyDies(k) PROVE LeaseInvariant'
    <2>1. Keeps(Conns, {k}) /\ UNCHANGED <<registry, alive, started>>
      BY <1>10, DiesEffect
    <2>2. \A s \in Spaces : Leased(s)' = Leased(s)
      BY <2>1, SameLeases DEF Keeps
    <2> QED BY <1>1, <2>1, <2>2
  <1>11. ASSUME UNCHANGED <<started, conn>>,
                \A s \in Spaces : registry'[s] \in alive' =>
                  registry[s] \in alive \/ (started[s] = NoProxy /\ Leased(s) = {})
         PROVE  LeaseInvariant'
    <2>1. \A s \in Spaces : Leased(s)' = Leased(s)
      BY <1>11 DEF Leased
    <2>2. ASSUME NEW s \in Spaces, registry'[s] \in alive'
          PROVE  started[s].leases = Cardinality(Leased(s))
      <3>1. CASE registry[s] \in alive
        BY <3>1 DEF LeaseInvariant
      <3>2. CASE started[s] = NoProxy /\ Leased(s) = {}
        BY <3>2, FS_EmptySet DEF NoProxy
      <3> QED BY <1>11, <2>2, <3>1, <3>2
    <2> QED BY <1>11, <2>1, <2>2 DEF LeaseInvariant
  <1>12. ASSUME NEW g \in Cids, GuestStops(g) PROVE LeaseInvariant'
    BY <1>11, <1>12 DEF GuestStops
  <1>13. ASSUME NEW g \in Cids, GuestStarts(g) PROVE LeaseInvariant'
    <2>1. UNCHANGED <<registry, started, conn>> /\ Settled /\ alive' = alive \cup {g}
      BY <1>13 DEF GuestStarts
    <2>2. /\ \A s \in Spaces : started[s] # NoProxy => started[s].cid \in alive
          /\ \A c \in Conns : conn[c].st \in Busy => conn[c].cid \in alive
      BY <2>1, SettledIsClean
    <2>3. ASSUME NEW s \in Spaces, registry[s] \notin alive
          PROVE  started[s] = NoProxy /\ Leased(s) = {}
      BY <2>2, <2>3 DEF OwnerInvariant, Leased, Busy
    <2> QED BY <1>11, <2>1, <2>3
  <1>14. ASSUME NEW r \in [Spaces -> Cids \cup {NoCid}], Rewrite(r) PROVE LeaseInvariant'
    <2>1. /\ UNCHANGED <<alive, started, conn>>
          /\ \A s \in Spaces : registry'[s] = registry[s] \/ registry'[s] \notin alive
      BY <1>14 DEF Rewrite
    <2> QED BY <1>11, <2>1
  <1>16. CASE UNCHANGED <<registry, alive, started, conn>>
    BY <1>11, <1>16
  <1>17. ASSUME NEW c \in Conns, Handle(c) PROVE LeaseInvariant'
    BY <1>2, <1>3, <1>4, <1>5, <1>6, <1>7, <1>8, <1>17 DEF Handle
  <1>18. CASE Around
    <2>1. ASSUME NEW s \in Spaces, SocketVanishes(s) PROVE LeaseInvariant'
      BY <1>16, <2>1 DEF SocketVanishes, host
    <2> QED BY <1>10, <1>12, <1>13, <1>14, <1>18, <2>1 DEF Around
  <1>19. CASE UNCHANGED vars
    BY <1>16, <1>19 DEF vars
  <1> QED BY <1>9, <1>17, <1>18, <1>19 DEF Next

LEMMA LeasesAlways ==
  ASSUME SlowBoot, Faults \subseteq {"unlink", "vanish"}
  PROVE  Spec => [](Windows /\ LeaseInvariant)
  <1>1. Init => LeaseInvariant
    <2> SUFFICES ASSUME Init, NEW s \in Spaces PROVE started[s].leases = Cardinality(Leased(s))
      BY DEF LeaseInvariant
    <2>1. Leased(s) = {} /\ started[s].leases = 0
      BY DEF Init, Leased, NoConnection, NoProxy
    <2> QED BY <2>1, FS_EmptySet
  <1>2. Windows /\ LeaseInvariant /\ [Next]_vars => LeaseInvariant'
    BY NextLeases
  <1> QED BY <1>1, <1>2, WindowsAlways, PTL DEF Spec

\* The leases of a running guest's proxy are its connections, whatever was
\* restarted, reaped or reused in between (broker.rs ensure_proxy,
\* release_proxy): a proxy goes with its last connection and never before.
THEOREM LeasesCountConnectionsTheorem ==
  ASSUME SlowBoot, Faults \subseteq {"unlink", "vanish"}
  PROVE  Spec => []LeasesCountConnections
  <1>1. Windows /\ LeaseInvariant => LeasesCountConnections
    BY DEF Windows, OwnerInvariant, LeaseInvariant, LeasesCountConnections
  <1> QED BY <1>1, LeasesAlways, PTL

\* No step of the broker stops a proxy that carries a connection of a running
\* guest, unless its socket file is gone (broker.rs release_proxy, ensure_proxy,
\* reap_dead_proxies).
THEOREM NoKillUnderConnectionTheorem ==
  ASSUME SlowBoot, Faults \subseteq {"unlink", "vanish"}
  PROVE  Spec => NoKillUnderConnection
  <1> DEFINE Carries(c) == /\ conn[c].st = "open" /\ conn[c].child # NoChild
                           /\ conn[c].cid \in alive
                           /\ socket[conn[c].space] # NoChild
  <1>1. ASSUME Windows, LeaseInvariant, [Next]_vars, NEW c \in Conns, Carries(c)
        PROVE  proc'[conn[c].child].st \in {"live", "zombie"}
    <2> DEFINE k == conn[c].child
               s == conn[c].space
    <2>1. /\ s \in Spaces /\ k \in Children /\ started[s].child = k /\ proc[k].st = "live"
          /\ socket[s] # NoChild /\ conn[c].cid \in alive /\ conn[c].st = "open"
      BY <1>1 DEF Windows, TableInvariant, Typed, ConnInvariant, TypeOK, Connection
    <2>2. started[s] # NoProxy
      BY <1>1, <2>1, EntryFields, BrokerAssumption DEF Windows, Typed
    <2>3. registry[s] = conn[c].cid /\ started[s].cid = conn[c].cid /\ registry[s] \in alive
      BY <1>1, <2>1, <2>2 DEF Windows, OwnerInvariant, Busy
    <2>4. \A t \in Spaces : started[t].child = k => t = s
      <3> TAKE t \in Spaces
      <3> HAVE started[t].child = k
      <3>1. started[t] # NoProxy
        BY <1>1, <2>1, EntryFields, BrokerAssumption DEF Windows, Typed
      <3>2. proc[k].space = t
        BY <1>1, <3>1 DEF Windows, TableInvariant
      <3>3. proc[k].space = s
        BY <1>1, <2>1, <2>2 DEF Windows, TableInvariant
      <3> QED BY <3>2, <3>3
    <2> HIDE DEF k, s
    <2>5. CASE proc' = proc
      BY <2>1, <2>5 DEF k
    <2>6. ASSUME NEW S \in SUBSET Spaces, Gone(S), s \notin S PROVE proc'[k] = proc[k]
      BY <1>1, <2>1, <2>4, <2>6, GoneEffect DEF Windows, Typed
    <2>7. ASSUME NEW d \in Conns, StartProxy(d) PROVE proc'[k].st = "live"
      <3> DEFINE t == conn[d].space
      <3>1. t \in Spaces /\ ~Usable(t)
        BY <1>1, <2>7, StartEffect DEF Windows
      <3>2. t # s
        BY <2>1, <2>2, <3>1 DEF Usable
      <3>3. k \notin Stopped(t)
        BY <2>4, <3>1, <3>2 DEF Stopped
      <3>4. proc[k] # FreeProcess
        BY <2>1 DEF FreeProcess
      <3>5. proc'[k] = proc[k]
        BY <1>1, <2>1, <2>7, <3>3, <3>4, StartSpares DEF Windows
      <3> QED BY <2>1, <3>5
    <2>8. ASSUME NEW d \in Conns, Release(d) PROVE proc'[k] = proc[k]
      <3> DEFINE t == conn[d].space
      <3>1. t \in Spaces /\ conn[d].st = "ending"
        BY <1>1, <2>8, ReleaseEffect DEF Windows
      <3>2. CASE started[t].leases = 1 /\ Gone({t})
        <4>1. ASSUME t = s PROVE FALSE
          <5>1. c \in Leased(s) /\ d \in Leased(s) /\ c # d
            BY <2>1, <3>1, <4>1 DEF Leased, s
          <5>2. Leased(s) \subseteq Conns
            BY DEF Leased
          <5>3. IsFiniteSet(Leased(s))
            BY <5>2, FS_Subset, BrokerAssumption
          <5>4. {c, d} \subseteq Leased(s)
            BY <5>1
          <5>5. Cardinality({c, d}) = 2
            <6>1. IsFiniteSet({c}) /\ Cardinality({c}) = 1
              BY FS_Singleton
            <6>2. Cardinality({c} \cup {d}) = Cardinality({c}) + 1
              BY <5>1, <6>1, FS_AddElement
            <6>3. {c} \cup {d} = {c, d}
              OBVIOUS
            <6> QED BY <6>1, <6>2, <6>3
          <5>6. Cardinality({c, d}) <= Cardinality(Leased(s))
            BY <5>3, <5>4, FS_Subset
          <5>7. Cardinality(Leased(s)) = 1
            BY <1>1, <2>1, <2>3, <3>2, <4>1 DEF LeaseInvariant
          <5> QED BY <5>5, <5>6, <5>7
        <4>2. {t} \in SUBSET Spaces /\ s \notin {t}
          BY <3>1, <4>1
        <4> QED BY <2>6, <3>2, <4>2
      <3> QED BY <1>1, <2>8, <3>2, ReleaseEffect DEF Windows
    <2>9. CASE ReapDeadProxies
      <3>1. Gone(Dead) /\ Dead \in SUBSET Spaces
        BY <1>1, <2>9, ReapEffect DEF Dead, Windows
      <3>2. s \notin Dead
        BY <2>1, <2>3 DEF Dead
      <3> QED BY <2>1, <2>6, <3>1, <3>2 DEF k
    <2>10. ASSUME NEW q \in Children, ProxyDies(q) PROVE proc'[k].st \in {"live", "zombie"}
      BY <1>1, <2>1, <2>10, DiesEffect DEF Windows
    <2>11. ASSUME NEW d \in Conns, Handle(d) PROVE proc'[k].st \in {"live", "zombie"}
      <3>1. CASE \/ \E g \in Cids : Accept(d, g)
                 \/ Resolve(d) \/ ReuseProxy(d) \/ Connect(d) \/ CopyEnds(d)
        BY <2>1, <3>1 DEF Accept, Resolve, ReuseProxy, Connect, CopyEnds
      <3>2. ~ProxyFails(d)
        BY DEF ProxyFails
      <3> QED BY <2>1, <2>7, <2>8, <2>11, <3>1, <3>2 DEF Handle
    <2>12. CASE Around
      <3>1. ASSUME \/ \E t \in Spaces : SocketVanishes(t)
                   \/ \E g \in Cids : GuestStarts(g) \/ GuestStops(g)
                   \/ \E r \in [Spaces -> Cids \cup {NoCid}] : Rewrite(r)
            PROVE  proc' = proc
        BY <3>1 DEF SocketVanishes, Rewrite, GuestStarts, GuestStops
      <3> QED BY <2>1, <2>10, <2>12, <3>1 DEF Around, k
    <2> QED BY <1>1, <2>5, <2>9, <2>11, <2>12 DEF Next, vars, k
  <1>2. Windows /\ LeaseInvariant /\ [Next]_vars =>
          [\A c \in Conns : Carries(c) => proc'[conn[c].child].st \in {"live", "zombie"}]_vars
    BY <1>1
  <1>3. Spec => [][\A c \in Conns :
                     Carries(c) => proc'[conn[c].child].st \in {"live", "zombie"}]_vars
    BY <1>2, LeasesAlways, PTL DEF Spec
  <1> QED BY <1>3 DEF NoKillUnderConnection
=============================================================================
