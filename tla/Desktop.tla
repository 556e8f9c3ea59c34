------------------------------- MODULE Desktop -------------------------------
(***************************************************************************)
(* The daemon and the broker on one host.  Spaces owns the guests and      *)
(* writes the registry, Broker reads it once per connection and puts the   *)
(* label of what it read on the windows; neither takes a lock the other    *)
(* knows of.  The guests that Broker assumes to come and go are here the   *)
(* QEMU processes of Spaces, and the registry both speak of is one file.   *)
(***************************************************************************)
EXTENDS Spaces, FiniteSets

CONSTANTS
  Conns,               \* connections to the broker that may be open at a time
  Children, NoChild,   \* proxy processes; no process
  Stale,               \* a socket file nobody listens on
  Faults,              \* what may go wrong in the broker
  SlowBoot             \* does a boot take longer than the watchdog's period

\* One life of the daemon: what a crash leaves behind is the subject of Spaces.
ASSUME DesktopAssumption ==
  /\ IsFiniteSet(Conns)
  /\ NoChild \notin Children /\ Stale \notin Children \cup {NoChild}
  /\ Faults \subseteq {"spawn", "socket", "unlink", "vanish"}
  /\ SlowBoot \in BOOLEAN
  /\ MaxCrashes = 0

VARIABLES
  swept, started, proxies, socket, conn,   \* the broker's; proxies is its proc
  drawer      \* history: the QEMU at the other end of a connection while it
              \* lives, NoPid afterwards

broker == <<swept, started, proxies, socket, conn>>
desktop == <<vars, broker, drawer>>

-----------------------------------------------------------------------------
Live(p) == proc[p].st = "live" /\ proc[p].cid # NoCid

\* The running guests, and the CIDs on which a connect does not answer ENODEV.
Guests == {p \in Pids : Live(p)}
Alive == {proc[p].cid : p \in Guests}

Guid == INSTANCE Broker WITH Spaces <- Ids, NoSpace <- NoId, alive <- Alive,
                             proc <- proxies

\* The daemon or the host takes a step; the broker only notices which CIDs
\* answer.  SlowBoot as in Broker.
HostMoves ==
  /\ Next
  /\ SlowBoot /\ Alive' # Alive /\ Alive \subseteq Alive' => Guid!Settled
  /\ swept' = swept \ (Alive \ Alive')
  /\ drawer' = [c \in Conns |-> IF drawer[c] \in Guests' THEN drawer[c] ELSE NoPid]
  /\ UNCHANGED <<started, proxies, socket, conn>>

\* The guest in this QEMU opens a connection.
GuestConnects(c, p) ==
  /\ UNCHANGED vars
  /\ Live(p)
  /\ Guid!Accept(c, proc[p].cid)
  /\ drawer' = [drawer EXCEPT ![c] = p]

\* The thread of a connection goes on; when it ends nobody draws through it.
ThreadMoves(c) ==
  /\ UNCHANGED vars
  /\ \/ Guid!Resolve(c)
     \/ Guid!ReuseProxy(c) \/ Guid!StartProxy(c) \/ Guid!ProxyFails(c)
     \/ Guid!Connect(c)
     \/ Guid!CopyEnds(c)
     \/ Guid!Release(c)
  /\ drawer' = [drawer EXCEPT ![c] = IF conn'[c].st = "none" THEN NoPid ELSE @]

\* The watchdog, and what befalls proxies and sockets.
ProxiesMove ==
  /\ UNCHANGED vars
  /\ \/ Guid!ReapDeadProxies
     \/ \E k \in Children : Guid!ProxyDies(k)
     \/ \E s \in Ids : Guid!SocketVanishes(s)
  /\ UNCHANGED drawer

-----------------------------------------------------------------------------
DesktopInit ==
  /\ Init
  /\ swept = Cids
  /\ started = [s \in Ids |-> Guid!NoProxy]
  /\ proxies = [k \in Children |-> Guid!FreeProcess]
  /\ socket = [s \in Ids |-> NoChild]
  /\ conn = [c \in Conns |-> Guid!NoConnection]
  /\ drawer = [c \in Conns |-> NoPid]

DesktopNext ==
  \/ HostMoves
  \/ \E c \in Conns, p \in Pids : GuestConnects(c, p)
  \/ \E c \in Conns : ThreadMoves(c)
  \/ ProxiesMove

DesktopSpec == DesktopInit /\ [][DesktopNext]_desktop

-----------------------------------------------------------------------------
(* Properties.                                                             *)

\* What a running guest draws appears in the proxy of its own space, whose
\* title and security context carry that space's id: although the registry is
\* read between any two steps of create and destroy, may keep entries of a
\* refresh that failed, and CIDs are handed out again (broker.rs resolve and
\* ensure_proxy, net.rs refresh, store.rs allocate_cid).
WindowShowsItsSpace ==
  \A c \in Conns :
    drawer[c] # NoPid /\ conn[c].st = "open" /\ conn[c].child # NoChild
      => proxies[conn[c].child].space = proc[drawer[c]].id

\* The lifecycle of Spaces is an environment such as Broker assumes: guests come
\* and go one at a time, the registry names a CID at most once, and an entry
\* changes only while neither its old nor its new CID answers (ops.rs create,
\* destroy; net.rs refresh).
GuidEnvironment == Guid!Spec
=============================================================================
