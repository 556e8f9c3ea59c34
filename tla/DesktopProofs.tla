---------------------------- MODULE DesktopProofs ----------------------------
(***************************************************************************)
(* Theorems about Desktop, on the theorems about Spaces and Broker: the    *)
(* daemon is an environment such as Broker assumes, so what is proved of   *)
(* Broker holds of the two together, and the label on a window is right.   *)
(***************************************************************************)
EXTENDS Desktop, SpacesProofs, TLAPS

BP == INSTANCE BrokerProofs WITH Spaces <- Ids, NoSpace <- NoId,
                                 alive <- Alive, proc <- proxies

LEMMA BrokerAssumed == BP!BrokerAssumption
BY IdAssumption, CidAssumption, DesktopAssumption
DEF BP!BrokerAssumption, BP!FaultKinds, NoCid, IsFiniteSet, BP!IsFiniteSet

-----------------------------------------------------------------------------
(* Broker is instantiated twice, for the model and for its proofs; the two  *)
(* instances are the same.                                                  *)

LEMMA SameAccept ==
  ASSUME NEW c \in Conns, NEW g
  PROVE  Guid!Accept(c, g) <=> BP!Accept(c, g)
BY DEF Guid!Accept, BP!Accept, Guid!NoConnection, BP!NoConnection, Guid!host,
     BP!host

\* The steps of a thread.
LEMMA SameThread ==
  ASSUME NEW c \in Conns
  PROVE  /\ Guid!Resolve(c) <=> BP!Resolve(c)
         /\ Guid!ReuseProxy(c) <=> BP!ReuseProxy(c)
         /\ Guid!StartProxy(c) <=> BP!StartProxy(c)
         /\ Guid!ProxyFails(c) <=> BP!ProxyFails(c)
         /\ Guid!Connect(c) <=> BP!Connect(c)
         /\ Guid!CopyEnds(c) <=> BP!CopyEnds(c)
         /\ Guid!Release(c) <=> BP!Release(c)
<1>1. Guid!Resolve(c) <=> BP!Resolve(c)
  BY DEF Guid!Resolve, BP!Resolve, Guid!ByCid, BP!ByCid, Guid!NoConnection,
     BP!NoConnection, Guid!host, BP!host
<1>2. Guid!ReuseProxy(c) <=> BP!ReuseProxy(c)
  BY DEF Guid!ReuseProxy, BP!ReuseProxy, Guid!Usable, BP!Usable, Guid!NoProxy,
     BP!NoProxy, Guid!host, BP!host
<1>3. Guid!StartProxy(c) <=> BP!StartProxy(c)
  BY DEF Guid!StartProxy, BP!StartProxy, Guid!Usable, BP!Usable, Guid!NoProxy,
     BP!NoProxy, Guid!Waited, BP!Waited, Guid!Stopped, BP!Stopped, Guid!HungUp,
     BP!HungUp, Guid!FreeProcess, BP!FreeProcess, Guid!FileStays, BP!FileStays,
     Guid!host, BP!host
<1>4. Guid!ProxyFails(c) <=> BP!ProxyFails(c)
  BY DEF Guid!ProxyFails, BP!ProxyFails, Guid!Usable, BP!Usable, Guid!NoProxy,
     BP!NoProxy, Guid!Waited, BP!Waited, Guid!Stopped, BP!Stopped, Guid!HungUp,
     BP!HungUp, Guid!FreeProcess, BP!FreeProcess, Guid!NoConnection,
     BP!NoConnection, Guid!host, BP!host
<1>5. Guid!Connect(c) <=> BP!Connect(c)
  BY DEF Guid!Connect, BP!Connect, Guid!host, BP!host
<1>6. Guid!CopyEnds(c) <=> BP!CopyEnds(c)
  BY DEF Guid!CopyEnds, BP!CopyEnds, Guid!host, BP!host
<1>7. Guid!Release(c) <=> BP!Release(c)
  BY DEF Guid!Release, BP!Release, Guid!NoProxy, BP!NoProxy, Guid!Gone, BP!Gone,
     Guid!Waited, BP!Waited, Guid!HungUp, BP!HungUp, Guid!FreeProcess,
     BP!FreeProcess, Guid!NoConnection, BP!NoConnection, Guid!FileStays,
     BP!FileStays, Guid!host, BP!host
<1>8. QED
  BY <1>1, <1>2, <1>3, <1>4, <1>5, <1>6, <1>7

\* The steps of proxies, watchdog and sockets.
LEMMA SameProxies ==
  /\ Guid!ReapDeadProxies <=> BP!ReapDeadProxies
  /\ \A k \in Children : Guid!ProxyDies(k) <=> BP!ProxyDies(k)
  /\ \A s \in Ids : Guid!SocketVanishes(s) <=> BP!SocketVanishes(s)
<1>1. Guid!ReapDeadProxies <=> BP!ReapDeadProxies
  BY DEF Guid!ReapDeadProxies, BP!ReapDeadProxies, Guid!NoProxy, BP!NoProxy,
     Guid!host, BP!host, Guid!Gone, BP!Gone, Guid!Waited, BP!Waited, Guid!HungUp,
     BP!HungUp, Guid!FreeProcess, BP!FreeProcess, Guid!FileStays, BP!FileStays
<1>2. ASSUME NEW k \in Children PROVE Guid!ProxyDies(k) <=> BP!ProxyDies(k)
  BY DEF Guid!ProxyDies, BP!ProxyDies, Guid!HungUp, BP!HungUp, Guid!host,
     BP!host
<1>3. ASSUME NEW s \in Ids PROVE Guid!SocketVanishes(s) <=> BP!SocketVanishes(s)
  BY DEF Guid!SocketVanishes, BP!SocketVanishes, Guid!host, BP!host
<1>4. QED
  BY <1>1, <1>2, <1>3

LEMMA SameSettled == Guid!Settled <=> BP!Settled
BY DEF Guid!Settled, BP!Settled, Guid!Due, BP!Due

\* The guests and the registry.
LEMMA SameGuests ==
  /\ \A g \in Cids : /\ Guid!GuestStarts(g) <=> BP!GuestStarts(g)
                     /\ Guid!GuestStops(g) <=> BP!GuestStops(g)
  /\ \A r \in [Ids -> Cids \cup {NoCid}] : Guid!Rewrite(r) <=> BP!Rewrite(r)
<1>1. ASSUME NEW g \in Cids PROVE Guid!GuestStarts(g) <=> BP!GuestStarts(g)
  BY SameSettled DEF Guid!GuestStarts, BP!GuestStarts
<1>2. ASSUME NEW g \in Cids PROVE Guid!GuestStops(g) <=> BP!GuestStops(g)
  BY DEF Guid!GuestStops, BP!GuestStops
<1>3. ASSUME NEW r PROVE Guid!Rewrite(r) <=> BP!Rewrite(r)
  BY DEF Guid!Rewrite, BP!Rewrite
<1>4. QED
  BY <1>1, <1>2, <1>3

LEMMA SameBroker ==
  /\ Guid!Init <=> BP!Init
  /\ Guid!Next <=> BP!Next
  /\ Guid!vars = BP!vars
  /\ Guid!NoStaleWindow <=> BP!NoStaleWindow
<1>1. Guid!Init <=> BP!Init
  BY DEF Guid!Init, BP!Init, Guid!NoProxy, BP!NoProxy, Guid!FreeProcess,
     BP!FreeProcess, Guid!NoConnection, BP!NoConnection
<1>2. ASSUME NEW c \in Conns PROVE Guid!Handle(c) <=> BP!Handle(c)
  BY SameAccept, SameThread DEF Guid!Handle, BP!Handle
<1>3. Guid!Around <=> BP!Around
  BY SameProxies, SameGuests DEF Guid!Around, BP!Around
<1>4. Guid!Next <=> BP!Next
  BY <1>2, <1>3, SameProxies DEF Guid!Next, BP!Next
<1>5. Guid!vars = BP!vars
  BY DEF Guid!vars, BP!vars
<1>6. Guid!NoStaleWindow <=> BP!NoStaleWindow
  BY DEF Guid!NoStaleWindow, BP!NoStaleWindow, Guid!ByCid, BP!ByCid
<1>7. QED
  BY <1>1, <1>4, <1>5, <1>6

-----------------------------------------------------------------------------
(* What a step of Spaces does to the guests and to the registry.           *)

\* A QEMU is born on a CID that no other has.
Born(q) ==
  /\ ~Live(q) /\ Live(q)'
  /\ \A p \in Pids : Live(p) => proc[p].cid # proc'[q].cid

\* The process q, and no other, has changed: it does not live, or it is born.
Changes(q) ==
  /\ \A p \in Pids \ {q} : proc'[p] = proc[p]
  /\ ~Live(q)' \/ Born(q)

\* At most one process changes in a step, and the registry in none in which a
\* process does.
LEMMA ProcessesChange ==
  ASSUME TypeOK, HandlerInvariant, OwnInvariant, [Next]_vars
  PROVE  UNCHANGED proc \/ (UNCHANGED registry /\ \E q \in Pids : Changes(q))
<1> DEFINE OneChanges == UNCHANGED registry /\ \E q \in Pids : Changes(q)
<1>1. ASSUME Spawn PROVE UNCHANGED proc \/ OneChanges
  <2>1. CASE UNCHANGED proc
    BY <2>1
  <2>2. CASE ~UNCHANGED proc
    <3>1. PICK q \in Pids : proc[q] = FreePid /\ proc' = [proc EXCEPT ![q] = Qemu(op.id)]
      BY <1>1, <2>2 DEF Spawn
    <3>2. ~Live(q) /\ \A p \in Pids \ {q} : proc'[p] = proc[p]
      BY <3>1 DEF TypeOK, Live, FreePid
    <3>3. proc'[q] = Qemu(op.id) /\ proc'[q].cid = config[op.id].cid
      BY <3>1 DEF TypeOK, Qemu
    <3>4. Live(q)' => ~CidInUse(config[op.id].cid)
      BY <3>3 DEF Live, Qemu
    <3>5. Changes(q)
      BY <3>2, <3>3, <3>4 DEF Changes, Born, CidInUse, Live
    <3>6. QED
      BY <1>1, <3>5 DEF Spawn, disk
  <2>3. QED
    BY <2>1, <2>2
<1>2. ASSUME NEW i \in Ids, KillAndReap(i)
      PROVE  UNCHANGED proc \/ \E q \in Pids : Changes(q)
  <2>1. ASSUME NEW q \in Pids, NEW r, proc' = [proc EXCEPT ![q] = r],
               r.st # "live" \/ proc[q] = r
        PROVE  UNCHANGED proc \/ Changes(q)
    BY <2>1 DEF TypeOK, Changes, Live
  <2>2. CASE handle[i] # NoPid
    <3>1. handle[i] \in Pids
      BY <2>2 DEF TypeOK
    <3>2. proc' = [proc EXCEPT ![handle[i]] = FreePid]
      BY <1>2, <2>2 DEF KillAndReap
    <3>3. FreePid.st # "live"
      BY DEF FreePid
    <3>4. UNCHANGED proc \/ Changes(handle[i])
      BY <2>1, <3>1, <3>2, <3>3
    <3>5. QED
      BY <3>1, <3>4
  <2>3. CASE handle[i] = NoPid /\ pidFile[i] # NoPid
    <3>1. pidFile[i] \in Pids
      BY <2>3 DEF TypeOK
    <3>2. PICK r : /\ proc' = [proc EXCEPT ![pidFile[i]] = r]
                   /\ \/ r = proc[pidFile[i]]
                      \/ r = Ended(proc[pidFile[i]]) /\ proc[pidFile[i]].st = "live"
      BY <1>2, <2>3 DEF KillAndReap
    <3>3. r.st # "live" \/ proc[pidFile[i]] = r
      BY <3>1, <3>2 DEF Ended, FreePid, TypeOK, Process
    <3>4. UNCHANGED proc \/ Changes(pidFile[i])
      BY <2>1, <3>1, <3>2, <3>3
    <3>5. QED
      BY <3>1, <3>4
  <2>4. CASE handle[i] = NoPid /\ pidFile[i] = NoPid
    BY <1>2, <2>4 DEF KillAndReap
  <2>5. QED
    BY <2>2, <2>3, <2>4
<1>3. ASSUME Settle PROVE UNCHANGED proc \/ OneChanges
  <2>1. CASE UNCHANGED proc
    BY <2>1
  <2>2. CASE ~UNCHANGED proc
    <3>1. op.pid \in Pids /\ proc' = [proc EXCEPT ![op.pid] = FreePid]
      BY <1>3, <2>2 DEF Settle, OwnInvariant, At
    <3>2. proc'[op.pid] = FreePid /\ \A p \in Pids \ {op.pid} : proc'[p] = proc[p]
      BY <3>1 DEF TypeOK
    <3>3. PICK q \in Pids : q = op.pid
      BY <3>1
    <3>4. Changes(q)
      BY <3>2, <3>3 DEF Changes, Live, FreePid
    <3>5. QED
      BY <1>3, <3>4 DEF Settle, disk
  <2>3. QED
    BY <2>1, <2>2
<1>4. ASSUME StartAppViaAgent \/ StopKill PROVE UNCHANGED proc \/ OneChanges
  <2>1. UNCHANGED registry
    BY <1>4 DEF StartAppViaAgent, StopKill, disk
  <2>2. op.id \in Ids
    BY <1>4 DEF StartAppViaAgent, StopKill, At, Idle, HandlerInvariant
  <2>3. UNCHANGED proc \/ KillAndReap(op.id)
    BY <1>4 DEF StartAppViaAgent, StopKill
  <2>4. QED
    BY <1>2, <2>1, <2>2, <2>3
<1>5. ASSUME NEW p \in Pids, QemuExits(p) PROVE OneChanges
  <2>1. proc'[p].st = "zombie" /\ \A q \in Pids \ {p} : proc'[q] = proc[q]
    BY <1>5, QemuExitsEffect
  <2>2. Changes(p)
    BY <2>1 DEF Changes, Live
  <2>3. QED
    BY <1>5, <2>2 DEF QemuExits, disk
<1>6. ASSUME NEW p \in Pids, ForeignProcess(p) PROVE OneChanges
  <2>1. \/ proc' = [proc EXCEPT ![p] = Foreign]
        \/ proc' = [proc EXCEPT ![p] = FreePid]
    BY <1>6 DEF ForeignProcess
  <2>2. Changes(p)
    BY <2>1 DEF Changes, Live, Foreign, FreePid, TypeOK
  <2>3. QED
    BY <1>6, <2>2 DEF ForeignProcess, disk
<1>7. WritePidFile => UNCHANGED proc
  BY DEF WritePidFile
<1>8. QED
  BY <1>1, <1>3, <1>4, <1>5, <1>6, <1>7, ProcessSteps, DesktopAssumption

\* Only a refresh writes the registry.
LEMMA RegistryChanges ==
  ASSUME TypeOK, [Next]_vars
  PROVE  \/ UNCHANGED registry
         \/ op.at = "registry" /\ registry' = RenderRegistry(config) /\ UNCHANGED proc
<1> USE DEF disk
<1>1. Request => UNCHANGED registry
  BY DEF Request, Create, Start, Stop, Reset, UpdateImage, Destroy
<1>2. Host => UNCHANGED registry
  BY NoCrashes, DesktopAssumption
  DEF Host, QemuExits, ForeignProcess, PlaceTemplate, UnlinkLatest, LinkLatest,
      PruneScan, PruneCheck, PruneKeep, PruneEnds, PruneTemplate
<1>3. RefreshRegistry
        => \/ UNCHANGED registry
           \/ op.at = "registry" /\ registry' = RenderRegistry(config) /\ UNCHANGED proc
  BY DEF RefreshRegistry, At
<1>4. \/ WriteQemuImgSecret \/ CreateVolumes \/ ApplyNft
      \/ RollbackCreate \/ ReapLeftoverTap \/ CreateTap \/ WriteRunningSecret
      => UNCHANGED registry
  BY DEF WriteQemuImgSecret, CreateVolumes, ApplyNft, RollbackCreate,
         ReapLeftoverTap, CreateTap, WriteRunningSecret
<1>5. \/ Spawn \/ WritePidFile \/ Settle \/ StartAppViaAgent
      \/ StopKill \/ StopDeleteTap \/ StopRecord \/ SetDigest \/ RemoveSpace
      \/ Return
      => UNCHANGED registry
  BY DEF Spawn, WritePidFile, Settle, StartAppViaAgent, StopKill, StopDeleteTap,
         StopRecord, SetDigest, RemoveSpace, Return
<1>6. UNCHANGED vars => UNCHANGED registry
  BY DEF vars
<1>7. Step => \/ RefreshRegistry \/ UNCHANGED registry
  BY <1>4, <1>5 DEF Step
<1>8. QED
  BY <1>1, <1>2, <1>3, <1>6, <1>7 DEF Next

-----------------------------------------------------------------------------
(* The daemon is an environment of the broker.                             *)

\* The kernel gives a CID to one guest.
OneGuestPerCid ==
  \A p, q \in Pids : Live(p) /\ Live(q) /\ proc[p].cid = proc[q].cid => p = q

\* What is known of the daemon at every moment, while no pid file and no
\* rollback fails.
HostInvariant ==
  /\ Living
  /\ TrackInvariant
  /\ RegistryInvariant
  /\ OneGuestPerCid

LEMMA NextHost ==
  ASSUME HostInvariant, [Next]_vars, {"pidfile", "rollback"} \cap FaultySteps = {}
  PROVE  HostInvariant'
<1>1. /\ TypeOK /\ HandlerInvariant /\ ReachInvariant /\ OwnInvariant
      /\ CidsAreUnique /\ TrackInvariant /\ RegistryInvariant
  BY DEF HostInvariant, Living, Inductive, ReachInvariant
<1>2. Living'
  BY NextLiving, DesktopAssumption DEF HostInvariant
<1>3. TrackInvariant'
  BY <1>1, NextTrack, DesktopAssumption
<1>4. RegistryInvariant'
  BY <1>1, NextRegistry, DesktopAssumption
<1>5. OneGuestPerCid'
  <2>1. CASE UNCHANGED proc
    BY <2>1 DEF HostInvariant, OneGuestPerCid, Live
  <2>2. ASSUME NEW x \in Pids, Changes(x) PROVE OneGuestPerCid'
    BY <2>2 DEF HostInvariant, OneGuestPerCid, Live, Changes, Born
  <2>3. QED
    BY <1>1, <2>1, <2>2, ProcessesChange
<1>6. QED
  BY <1>2, <1>3, <1>4, <1>5 DEF HostInvariant

\* A live guest is the one of the space that has its CID in the store, and that
\* space is in the registry.
LEMMA GuestIsRegistered ==
  ASSUME HostInvariant, NEW p \in Pids, Live(p), op.at = "registry"
  PROVE  /\ proc[p].id \in Stored(config)
         /\ config[proc[p].id].cid = proc[p].cid
         /\ registry[proc[p].id] = proc[p].cid
<1>1. proc[p].id # NoId /\ proc[p].id \in Ids
  BY DEF HostInvariant, Living, Inductive, TypeOK, Process, OwnInvariant, Live
<1>2. Tracked(proc[p].id, p)
  BY <1>1 DEF HostInvariant, TrackInvariant, Tracked, Live
<1>3. proc[p].id \in Stored(config) /\ config[proc[p].id].cid = proc[p].cid
  BY <1>1, <1>2 DEF HostInvariant, Living, Inductive, RunningSpaceIsReachable
<1>4. ~Creating(proc[p].id)
  BY <1>2 DEF HostInvariant, Living, Inductive, StartInvariant, Creating
<1>5. QED
  BY <1>3, <1>4 DEF HostInvariant, RegistryInvariant

\* A refresh gives no CID to two spaces and touches no entry of a running guest.
LEMMA RefreshIsRewrite ==
  ASSUME HostInvariant, op.at = "registry", NEW r, r = RenderRegistry(config)
  PROVE  /\ r \in [Ids -> Cids \cup {NoCid}]
         /\ \A s, t \in Ids : r[s] # NoCid /\ r[s] = r[t] => s = t
         /\ \A s \in Ids : r[s] # registry[s] => {r[s], registry[s]} \cap Alive = {}
<1>1. TypeOK /\ CidsAreUnique
  BY DEF HostInvariant, Living, Inductive
<1>2. \A s \in Ids : r[s] = config[s].cid /\ r[s] \in Cids \cup {NoCid}
  BY <1>1 DEF RenderRegistry, TypeOK, Stores, SpaceConfig, NoSpace
<1>3. r \in [Ids -> Cids \cup {NoCid}]
  BY <1>2 DEF RenderRegistry
<1>4. ASSUME NEW s \in Ids, NEW t \in Ids, r[s] # NoCid, r[s] = r[t] PROVE s = t
  BY <1>1, <1>2, <1>4 DEF CidsAreUnique, Stored
<1>5. ASSUME NEW s \in Ids, NEW p \in Pids, Live(p),
             proc[p].cid = r[s] \/ proc[p].cid = registry[s]
      PROVE  r[s] = registry[s]
  <2>1. /\ proc[p].id \in Ids /\ r[proc[p].id] = proc[p].cid
        /\ registry[proc[p].id] = proc[p].cid /\ proc[p].cid # NoCid
    BY <1>2, <1>5, GuestIsRegistered DEF Stored, Live
  <2>2. proc[p].cid = r[s] => s = proc[p].id
    BY <1>4, <2>1
  <2>3. proc[p].cid = registry[s] => s = proc[p].id
    BY <2>1 DEF HostInvariant, RegistryInvariant
  <2>4. QED
    BY <1>5, <2>1, <2>2, <2>3
<1>6. QED
  BY <1>3, <1>4, <1>5 DEF Alive, Guests

\* The CIDs that answer are those before without the one of the QEMU that ended,
\* or with that of the one just born.
LEMMA AliveChanges ==
  ASSUME HostInvariant, NEW q \in Pids, Changes(q), proc' \in [Pids -> Process]
  PROVE  \/ Alive' = Alive
         \/ \E g \in Cids : g \in Alive /\ Alive' = Alive \ {g}
         \/ \E g \in Cids : g \notin Alive /\ Alive' = Alive \cup {g}
<1>1. \A p \in Pids \ {q} : proc'[p] = proc[p] /\ (Live(p)' <=> Live(p))
  BY DEF Changes, Live
<1>2. proc \in [Pids -> Process]
  BY DEF HostInvariant, Living, Inductive, TypeOK
<1>3. \A p \in Pids : Live(p) => proc[p].cid \in Cids
  BY <1>2 DEF Live, Process
<1>4. Live(q)' => proc'[q].cid \in Cids
  BY DEF Live, Process
<1>5. CASE ~Live(q)' /\ ~Live(q)
  BY <1>1, <1>5 DEF Alive, Guests
<1>6. CASE ~Live(q)' /\ Live(q)
  <2>1. Alive' = Alive \ {proc[q].cid}
    BY <1>1, <1>6 DEF Alive, Guests, HostInvariant, OneGuestPerCid
  <2>2. QED
    BY <1>3, <1>6, <2>1 DEF Alive, Guests
<1>7. CASE Live(q)'
  <2>1. Born(q)
    BY <1>7 DEF Changes
  <2>2. Alive' = Alive \cup {proc'[q].cid}
    BY <1>1, <1>7, <2>1 DEF Alive, Guests, Born
  <2>3. proc'[q].cid \notin Alive
    BY <2>1 DEF Alive, Guests, Born
  <2>4. QED
    BY <1>4, <1>7, <2>2, <2>3
<1>8. QED
  BY <1>5, <1>6, <1>7

\* A step of the daemon or the host is one that the broker's environment may
\* take.
LEMMA HostIsEnvironment ==
  ASSUME HostInvariant, TypeOK', HostMoves
  PROVE  [BP!Next]_(BP!vars)
<1> DEFINE Rest == <<started, proxies, socket, conn>>
<1>1. /\ Next /\ UNCHANGED Rest /\ swept' = swept \ (Alive \ Alive')
      /\ SlowBoot /\ Alive' # Alive /\ Alive \subseteq Alive' => Guid!Settled
  BY DEF HostMoves
<1>2. TypeOK /\ HandlerInvariant /\ OwnInvariant
  BY DEF HostInvariant, Living, Inductive
<1>3. Guid!Settled => BP!Settled
  BY SameSettled
<1>4. ASSUME NEW g \in Cids, g \in Alive, Alive' = Alive \ {g}, UNCHANGED registry
      PROVE  BP!Next
  <2>1. swept' = swept \ {g}
    BY <1>1, <1>4
  <2>2. BP!GuestStops(g)
    BY <1>1, <1>4, <2>1 DEF BP!GuestStops
  <2>3. QED
    BY <2>2 DEF BP!Next, BP!Around
<1>5. ASSUME NEW g \in Cids, g \notin Alive, Alive' = Alive \cup {g},
             UNCHANGED registry
      PROVE  BP!Next
  <2>1. swept' = swept
    BY <1>1, <1>5
  <2>2. SlowBoot => BP!Settled
    BY <1>1, <1>3, <1>5
  <2>3. BP!GuestStarts(g)
    BY <1>1, <1>5, <2>1, <2>2 DEF BP!GuestStarts
  <2>4. QED
    BY <2>3 DEF BP!Next, BP!Around
<1>6. ASSUME Alive' = Alive, UNCHANGED registry PROVE UNCHANGED BP!vars
  <2>1. swept' = swept
    BY <1>1, <1>6
  <2>2. QED
    BY <1>1, <1>6, <2>1 DEF BP!vars
<1>7. ASSUME Alive' = Alive, op.at = "registry", registry' = RenderRegistry(config)
      PROVE  BP!Next
  <2>1. swept' = swept
    BY <1>1, <1>7
  <2>2. PICK r : r = RenderRegistry(config)
    OBVIOUS
  <2>3. r \in [Ids -> Cids \cup {NoCid}] /\ BP!Rewrite(r)
    BY <1>1, <1>7, <2>1, <2>2, RefreshIsRewrite DEF BP!Rewrite
  <2>4. QED
    BY <2>3 DEF BP!Next, BP!Around
<1>8. UNCHANGED proc => Alive' = Alive
  BY DEF Alive, Guests, Live
<1>9. ASSUME UNCHANGED registry, NEW q \in Pids, Changes(q)
      PROVE  BP!Next \/ UNCHANGED BP!vars
  <2>1. proc' \in [Pids -> Process]
    BY DEF TypeOK
  <2>2. QED
    BY <1>4, <1>5, <1>6, <1>9, <2>1, AliveChanges
<1>10. QED
  BY <1>1, <1>2, <1>6, <1>7, <1>8, <1>9, ProcessesChange, RegistryChanges

\* What a thread does here it does in Broker.
LEMMA ThreadActions ==
  ASSUME NEW c \in Conns, ThreadMoves(c)
  PROVE  /\ UNCHANGED vars
         /\ \/ BP!Resolve(c)
            \/ BP!ReuseProxy(c) \/ BP!StartProxy(c) \/ BP!ProxyFails(c)
            \/ BP!Connect(c)
            \/ BP!CopyEnds(c)
            \/ BP!Release(c)
BY SameThread DEF ThreadMoves

\* So do the proxies and the watchdog.
LEMMA ProxyActions ==
  ASSUME ProxiesMove
  PROVE  /\ UNCHANGED vars
         /\ \/ BP!ReapDeadProxies
            \/ \E k \in Children : BP!ProxyDies(k)
            \/ \E s \in Ids : BP!SocketVanishes(s)
BY SameProxies DEF ProxiesMove

\* The broker's own steps are its steps.
LEMMA BrokerSteps ==
  ASSUME \/ \E c \in Conns, p \in Pids : GuestConnects(c, p)
         \/ \E c \in Conns : ThreadMoves(c)
         \/ ProxiesMove,
         TypeOK
  PROVE  BP!Next /\ UNCHANGED vars
<1>1. ASSUME NEW c \in Conns, NEW p \in Pids, GuestConnects(c, p)
      PROVE  BP!Next /\ UNCHANGED vars
  <2>1. PICK g \in Cids : g = proc[p].cid
    BY <1>1 DEF GuestConnects, Live, TypeOK, Process
  <2>2. BP!Accept(c, g)
    BY <1>1, <2>1, SameAccept DEF GuestConnects
  <2>3. QED
    BY <1>1, <2>2 DEF GuestConnects, BP!Next, BP!Handle
<1>2. ASSUME NEW c \in Conns, ThreadMoves(c) PROVE BP!Next /\ UNCHANGED vars
  <2>1. BP!Handle(c) /\ UNCHANGED vars
    BY <1>2, ThreadActions DEF BP!Handle
  <2>2. QED
    BY <2>1 DEF BP!Next
<1>3. ASSUME ProxiesMove PROVE BP!Next /\ UNCHANGED vars
  BY <1>3, ProxyActions DEF BP!Next, BP!Around
<1>4. QED
  BY <1>1, <1>2, <1>3

\* Both projections of a step.
LEMMA DesktopSteps ==
  ASSUME HostInvariant, [DesktopNext]_desktop
  PROVE  [Next]_vars /\ [BP!Next]_(BP!vars)
<1>1. TypeOK /\ HandlerInvariant
  BY DEF HostInvariant, Living, Inductive
<1>2. CASE HostMoves
  <2>1. Next
    BY <1>2 DEF HostMoves
  <2>2. QED
    BY <1>1, <1>2, <2>1, NextTypeOK, HostIsEnvironment
<1>3. CASE UNCHANGED desktop
  <2>1. UNCHANGED vars /\ UNCHANGED broker
    BY <1>3 DEF desktop
  <2>2. UNCHANGED registry /\ Alive' = Alive
    BY <2>1 DEF vars, Alive, Guests, Live
  <2>3. UNCHANGED BP!vars
    BY <2>1, <2>2 DEF broker, BP!vars
  <2>4. QED
    BY <2>1, <2>3
<1>4. QED
  BY <1>1, <1>2, <1>3, BrokerSteps DEF DesktopNext

LEMMA InitHost == DesktopInit => HostInvariant /\ BP!Init
<1> SUFFICES ASSUME DesktopInit PROVE HostInvariant /\ BP!Init
  OBVIOUS
<1>1. Init
  BY DEF DesktopInit
<1>2. \A p \in Pids : proc[p] = FreePid
  BY <1>1 DEF Init
<1>3. TrackInvariant /\ OneGuestPerCid
  BY <1>2 DEF TrackInvariant, OneGuestPerCid, Live, FreePid
<1>4. RegistryInvariant
  BY <1>1 DEF Init, RegistryInvariant, Stored, NoSpace
<1>5. Alive = {}
  BY <1>2 DEF Alive, Guests, Live, FreePid
<1>6. BP!Init
  BY <1>1, <1>5, SameBroker DEF DesktopInit, Init, Guid!Init
<1>7. QED
  BY <1>1, <1>3, <1>4, <1>6, InitLiving DEF HostInvariant

\* The daemon does not notice the broker.
LEMMA AlwaysHost ==
  ASSUME {"pidfile", "rollback"} \cap FaultySteps = {}
  PROVE  DesktopSpec => []HostInvariant
<1>1. HostInvariant /\ [DesktopNext]_desktop => HostInvariant'
  BY DesktopSteps, NextHost
<1>2. DesktopInit => HostInvariant
  BY InitHost
<1>3. QED
  BY <1>1, <1>2, PTL DEF DesktopSpec

\* What the broker sees of the desktop is a behaviour of Broker.
LEMMA ImplementsBroker ==
  ASSUME {"pidfile", "rollback"} \cap FaultySteps = {}
  PROVE  DesktopSpec => BP!Spec
<1>1. DesktopSpec => []HostInvariant
  BY AlwaysHost
<1>2. HostInvariant /\ [DesktopNext]_desktop => [BP!Next]_(BP!vars)
  BY DesktopSteps
<1>3. DesktopInit => BP!Init
  BY InitHost
<1>4. QED
  BY <1>1, <1>2, <1>3, PTL DEF DesktopSpec, BP!Spec

-----------------------------------------------------------------------------
(* The label on a window.                                                  *)

\* While the guest at the other end of a connection lives, the connection has its
\* CID, and past the registry its space.
DrawerInvariant ==
  \A c \in Conns : \A p \in Pids :
    drawer[c] = p => /\ Live(p)
                     /\ conn[c].cid = proc[p].cid
                     /\ conn[c].st \in {"resolved", "leased", "open", "ending"}
                          => conn[c].space = proc[p].id

DrawerTyped == drawer \in [Conns -> Pids \cup {NoPid}]

WindowInvariant ==
  /\ HostInvariant
  /\ BP!Typed
  /\ BP!TableInvariant
  /\ DrawerTyped
  /\ DrawerInvariant

\* What a step of a thread does to the identity of connections.
LEMMA ThreadEffect ==
  ASSUME BP!Typed, NEW c \in Conns, ThreadMoves(c)
  PROVE  /\ UNCHANGED vars
         /\ \A d \in Conns \ {c} : /\ conn'[d].st = conn[d].st
                                   /\ conn'[d].cid = conn[d].cid
                                   /\ conn'[d].space = conn[d].space
         /\ \/ conn'[c].st = "none"
            \/ /\ conn'[c].cid = conn[c].cid
               /\ \/ /\ conn'[c].space = conn[c].space
                     /\ conn[c].st \in {"resolved", "leased", "open", "ending"}
                  \/ /\ conn'[c].space \in Ids
                     /\ registry[conn'[c].space] = conn[c].cid
<1>1. CASE BP!Resolve(c)
  BY <1>1, BrokerAssumed, ThreadActions, BP!ResolveEffect DEF BP!Keeps
<1>2. CASE BP!ReuseProxy(c)
  BY <1>2, BrokerAssumed, ThreadActions, BP!ReuseEffect DEF BP!Keeps, BP!Moves
<1>3. CASE BP!StartProxy(c)
  BY <1>3, BrokerAssumed, ThreadActions, BP!StartEffect DEF BP!Keeps, BP!Moves
<1>4. CASE BP!ProxyFails(c)
  BY <1>4, BrokerAssumed, ThreadActions, BP!FailEffect DEF BP!Keeps
<1>5. CASE BP!Connect(c)
  BY <1>5, BrokerAssumed, ThreadActions, BP!ConnectEffect DEF BP!Keeps, BP!Moves
<1>6. CASE BP!CopyEnds(c)
  BY <1>6, BrokerAssumed, ThreadActions, BP!CopyEndsEffect DEF BP!Keeps, BP!Moves
<1>7. CASE BP!Release(c)
  <2>1. conn'[c].st = "none" /\ \E K : BP!Keeps(Conns \ {c}, K)
    BY <1>7, BrokerAssumed, BP!ReleaseEffect
  <2>2. QED
    BY <2>1, ThreadActions DEF BP!Keeps
<1>8. QED
  BY <1>1, <1>2, <1>3, <1>4, <1>5, <1>6, <1>7, ThreadActions

\* A live guest that stays one stays the same.
LEMMA GuestStays ==
  ASSUME HostInvariant, [Next]_vars, NEW p \in Pids, Live(p), Live(p)'
  PROVE  proc'[p] = proc[p]
<1>1. TypeOK /\ HandlerInvariant /\ OwnInvariant
  BY DEF HostInvariant, Living, Inductive
<1>2. ASSUME NEW q \in Pids, Changes(q) PROVE proc'[p] = proc[p]
  BY <1>2 DEF Changes, Born
<1>3. QED
  BY <1>1, <1>2, ProcessesChange

LEMMA NextDrawer ==
  ASSUME WindowInvariant, [DesktopNext]_desktop
  PROVE  DrawerTyped' /\ DrawerInvariant'
<1>1. NoPid \notin Pids
  BY HostAssumption
<1>2. DrawerTyped /\ DrawerInvariant /\ HostInvariant /\ BP!Typed /\ TypeOK
  BY DEF WindowInvariant, HostInvariant, Living, Inductive
<1>3. ASSUME DrawerTyped', UNCHANGED proc,
             \A c \in Conns, p \in Pids :
               drawer'[c] = p => /\ drawer[c] = p
                                 /\ conn'[c].st = conn[c].st
                                 /\ conn'[c].cid = conn[c].cid
                                 /\ conn'[c].space = conn[c].space
      PROVE  DrawerInvariant'
  BY <1>2, <1>3 DEF DrawerInvariant, Live
<1>4. CASE HostMoves
  <2>1. DrawerTyped'
    BY <1>2, <1>4 DEF HostMoves, DrawerTyped
  <2>2. ASSUME NEW c \in Conns, NEW p \in Pids, drawer'[c] = p
        PROVE  drawer[c] = p /\ Live(p)' /\ UNCHANGED conn
    BY <1>1, <1>4, <2>2 DEF HostMoves, Guests
  <2>3. ASSUME NEW c \in Conns, NEW p \in Pids, drawer'[c] = p
        PROVE  drawer[c] = p /\ Live(p)' /\ proc'[p] = proc[p] /\ UNCHANGED conn
    <3>1. drawer[c] = p /\ Live(p)' /\ Live(p) /\ UNCHANGED conn
      BY <1>2, <2>2, <2>3 DEF DrawerInvariant
    <3>2. QED
      BY <1>2, <1>4, <3>1, GuestStays DEF HostMoves
  <2>4. QED
    BY <1>2, <2>1, <2>3 DEF DrawerInvariant
<1>5. ASSUME NEW c \in Conns, NEW p \in Pids, GuestConnects(c, p)
      PROVE  DrawerTyped' /\ DrawerInvariant'
  <2>1. UNCHANGED proc /\ Live(p) /\ drawer' = [drawer EXCEPT ![c] = p]
    BY <1>5 DEF GuestConnects, vars
  <2>2. PICK g \in Cids : g = proc[p].cid
    BY <1>2, <2>1 DEF Live, TypeOK, Process
  <2>3. BP!Accept(c, g)
    BY <1>5, <2>2, SameAccept DEF GuestConnects
  <2>4. /\ conn'[c].st = "accepted" /\ conn'[c].cid = proc[p].cid
        /\ \A d \in Conns \ {c} : /\ conn'[d].st = conn[d].st
                                  /\ conn'[d].cid = conn[d].cid
                                  /\ conn'[d].space = conn[d].space
    BY <1>2, <2>2, <2>3, BrokerAssumed, BP!AcceptEffect DEF BP!Keeps
  <2>5. drawer'[c] = p /\ \A d \in Conns \ {c} : drawer'[d] = drawer[d]
    BY <1>2, <2>1 DEF DrawerTyped
  <2>6. DrawerTyped'
    BY <1>2, <2>1 DEF DrawerTyped
  <2>7. QED
    BY <1>2, <2>1, <2>4, <2>5, <2>6 DEF DrawerInvariant, Live
<1>6. ASSUME NEW c \in Conns, ThreadMoves(c)
      PROVE  DrawerTyped' /\ DrawerInvariant'
  <2>1. UNCHANGED proc
    BY <1>6, ThreadActions DEF vars
  <2>2. DrawerTyped'
    BY <1>2, <1>6 DEF ThreadMoves, DrawerTyped
  <2>3. /\ \A d \in Conns \ {c} : drawer'[d] = drawer[d]
        /\ \A p \in Pids : drawer'[c] = p => drawer[c] = p /\ conn'[c].st # "none"
    BY <1>1, <1>2, <1>6 DEF ThreadMoves, DrawerTyped
  <2>4. ASSUME NEW p \in Pids, drawer'[c] = p
        PROVE  /\ Live(p)
               /\ conn'[c].cid = proc[p].cid
               /\ conn'[c].space = proc[p].id
    <3>1. Live(p) /\ conn[c].cid = proc[p].cid /\ conn'[c].cid = conn[c].cid
      BY <1>2, <1>6, <2>3, <2>4, ThreadEffect DEF DrawerInvariant
    <3>2. CASE /\ conn'[c].space = conn[c].space
               /\ conn[c].st \in {"resolved", "leased", "open", "ending"}
      BY <1>2, <2>3, <2>4, <3>1, <3>2 DEF DrawerInvariant
    <3>3. CASE conn'[c].space \in Ids /\ registry[conn'[c].space] = conn[c].cid
      <4>1. NoForeignLabel
        BY <1>2, LabelsAreOwn DEF HostInvariant
      <4>2. QED
        BY <3>1, <3>3, <4>1 DEF NoForeignLabel, Live
    <3>4. QED
      BY <1>2, <1>6, <2>3, <2>4, <3>1, <3>2, <3>3, ThreadEffect
  <2>5. ASSUME NEW d \in Conns \ {c}, NEW p \in Pids, drawer'[d] = p
        PROVE  /\ Live(p)
               /\ conn'[d].cid = proc[p].cid
               /\ conn'[d].st \in {"resolved", "leased", "open", "ending"}
                    => conn'[d].space = proc[p].id
    BY <1>2, <1>6, <2>3, <2>5, ThreadEffect DEF DrawerInvariant
  <2>6. QED
    BY <2>1, <2>2, <2>4, <2>5 DEF DrawerInvariant, Live
<1>7. CASE ProxiesMove
  <2>1. UNCHANGED <<proc, drawer>>
    BY <1>7 DEF ProxiesMove, vars
  <2>2. \A d \in Conns : /\ conn'[d].st = conn[d].st
                         /\ conn'[d].cid = conn[d].cid
                         /\ conn'[d].space = conn[d].space
    <3>1. CASE BP!ReapDeadProxies
      BY <1>2, <3>1, BrokerAssumed, BP!ReapEffect DEF BP!Keeps
    <3>2. ASSUME NEW k \in Children, BP!ProxyDies(k)
          PROVE  \A d \in Conns : /\ conn'[d].st = conn[d].st
                                  /\ conn'[d].cid = conn[d].cid
                                  /\ conn'[d].space = conn[d].space
      BY <1>2, <3>2, BrokerAssumed, BP!DiesEffect DEF BP!Keeps
    <3>3. ASSUME NEW s \in Ids, BP!SocketVanishes(s) PROVE UNCHANGED conn
      BY <3>3 DEF BP!SocketVanishes
    <3>4. QED
      BY <1>7, <3>1, <3>2, <3>3, ProxyActions
  <2>3. QED
    BY <1>2, <1>3, <2>1, <2>2 DEF DrawerTyped
<1>8. CASE UNCHANGED desktop
  BY <1>2, <1>3, <1>8 DEF desktop, vars, broker, DrawerTyped
<1>9. QED
  BY <1>4, <1>5, <1>6, <1>7, <1>8 DEF DesktopNext

-----------------------------------------------------------------------------
(* The theorems.                                                           *)

\* Whatever fails in the broker and whatever else fails in the daemon, and with
\* the registry read at any moment, the proxy that shows what a running guest
\* draws is the one of the guest's own space.
THEOREM WindowShowsItsSpaceTheorem ==
  ASSUME {"pidfile", "rollback"} \cap FaultySteps = {}
  PROVE  DesktopSpec => []WindowShowsItsSpace
<1>1. DesktopInit => WindowInvariant
  <2> SUFFICES ASSUME DesktopInit PROVE WindowInvariant
    OBVIOUS
  <2>1. HostInvariant /\ BP!Init
    BY InitHost
  <2>2. BP!Typed
    BY <2>1, BrokerAssumed, BP!InitTyped
  <2>3. BP!TableInvariant
    BY <2>1, BrokerAssumed, BP!InitTable
  <2>4. DrawerTyped /\ DrawerInvariant
    BY HostAssumption DEF DesktopInit, DrawerTyped, DrawerInvariant
  <2>5. QED
    BY <2>1, <2>2, <2>3, <2>4 DEF WindowInvariant
<1>2. WindowInvariant /\ [DesktopNext]_desktop => WindowInvariant'
  <2> SUFFICES ASSUME WindowInvariant, [DesktopNext]_desktop PROVE WindowInvariant'
    OBVIOUS
  <2>1. [Next]_vars /\ [BP!Next]_(BP!vars)
    BY DesktopSteps DEF WindowInvariant
  <2>2. HostInvariant'
    BY <2>1, NextHost DEF WindowInvariant
  <2>3. BP!Typed'
    BY <2>1, BrokerAssumed, BP!NextTyped DEF WindowInvariant
  <2>4. BP!TableInvariant'
    BY <2>1, BrokerAssumed, BP!NextTable DEF WindowInvariant
  <2>5. QED
    BY <2>2, <2>3, <2>4, NextDrawer DEF WindowInvariant
<1>3. WindowInvariant => WindowShowsItsSpace
  <2> SUFFICES ASSUME WindowInvariant, NEW c \in Conns, drawer[c] # NoPid,
                      conn[c].st = "open", conn[c].child # NoChild
               PROVE  proxies[conn[c].child].space = proc[drawer[c]].id
    BY DEF WindowShowsItsSpace
  <2>1. conn[c].space = proc[drawer[c]].id
    BY DEF WindowInvariant, DrawerTyped, DrawerInvariant
  <2>2. proxies[conn[c].child].space = conn[c].space
    BY BrokerAssumed, BP!OpenIsOwn DEF WindowInvariant
  <2>3. QED
    BY <2>1, <2>2
<1>4. QED
  BY <1>1, <1>2, <1>3, PTL DEF DesktopSpec

\* Whatever the daemon does is something Broker expects of the world around it:
\* what is proved of Broker under its own assumptions about guests and registry
\* holds beside this daemon.
THEOREM GuidEnvironmentTheorem ==
  ASSUME {"pidfile", "rollback"} \cap FaultySteps = {}
  PROVE  DesktopSpec => GuidEnvironment
<1>1. DesktopSpec => []HostInvariant
  BY AlwaysHost
<1>2. HostInvariant /\ [DesktopNext]_desktop => [Guid!Next]_(Guid!vars)
  <2> SUFFICES ASSUME HostInvariant, [DesktopNext]_desktop
               PROVE  Guid!Next \/ UNCHANGED Guid!vars
    OBVIOUS
  <2>1. BP!Next \/ UNCHANGED BP!vars
    BY DesktopSteps
  <2>2. UNCHANGED BP!vars => UNCHANGED Guid!vars
    BY DEF BP!vars, Guid!vars
  <2>3. QED
    BY <2>1, <2>2, SameBroker
<1>3. DesktopInit => Guid!Init
  BY InitHost, SameBroker
<1>4. QED
  BY <1>1, <1>2, <1>3, PTL DEF DesktopSpec, GuidEnvironment, Guid!Spec

\* So a connection with the CID of a running guest ends in the proxy of the space
\* that has that CID in the daemon's own registry, if a boot takes longer than the
\* watchdog's second.
THEOREM NoStaleWindowBesideDaemon ==
  ASSUME SlowBoot, {"pidfile", "rollback"} \cap FaultySteps = {}
  PROVE  DesktopSpec => []Guid!NoStaleWindow
<1>1. DesktopSpec => BP!Spec
  BY ImplementsBroker
<1>2. BP!Spec => []BP!NoStaleWindow
  BY BrokerAssumed, BP!NoStaleWindowTheorem
<1>3. BP!NoStaleWindow => Guid!NoStaleWindow
  BY SameBroker
<1>4. QED
  BY <1>1, <1>2, <1>3, PTL
=============================================================================
