# Verification of miyorios

miyorios runs untrusted applications in virtual machines ("spaces") and shows
their windows on the host with a label the guest cannot forge. This directory
holds TLA+ models of the parts that keep that promise, TLC configurations that
check them on small instances, and TLAPS proofs for every instance.

Paths below are relative to the repository root; line numbers refer to the
commit the models were written from. `PROJECT.json` maps every definition to the
lines it models.

## 1. Inventory

| component | state it keeps | operations | interacts with |
|---|---|---|---|
| store (`components/daemon/src/store.rs`) | `<state>/spaces/<id>/config.toml`: CID, uid, digest, encrypted, clean_shutdown | load, create_space, set_digest, set_clean_shutdown, remove_space, allocate_cid | read by the handlers, the fixture, the pruning script |
| rendering (`render.rs`, `net.rs` refresh) | `/etc/miyorios/spaces.toml`, nft table `bridge miyori` | render_registry, render_nft, refresh | registry read by broker and label, rules by the kernel |
| lifecycle handlers (`ops.rs`, `qemu.rs`, `net.rs`) | taps, QEMU processes, `/run/miyorios/<id>/{qemu.pid,nonce}`, `secrets/`, `Ctx.children` | create, start, stop, reset-system, reset-all, update-image, destroy, build, open-window; read-only: list, describe, profiles, net-status | one `Ctx.lock` for all that change a space or its guest; build and the readers run without it |
| agent client (`agent.rs`) and guest agent (`components/agent`) | nonce of the guest, `APP_CHILD`, the mount of `/data`, connections in the backlog | health, shutdown, exec-app | vsock of the space's CID |
| templates (`ops.rs` build, `tools/prune-templates.sh`) | `<state>/templates/<profile>/<digest>`, `latest` | finalize_template, relink_latest, prune | no lock shared with the handlers |
| GUI broker (`components/guid`) | `Broker.started`, proxy processes, sockets, one thread per connection | handle, ensure_proxy, release_proxy, reap_dead_proxies | registry, vsock of the guests, waypipe in a sandbox |
| label (`components/label`) | `WindowMap`, last content, one bar per output | a line of `niri msg`, configure, output added or removed, surface closed | niri, the daemon's list, cgroups of the windows' processes |
| control protocol (`lib/proto`, daemon `main.rs`) | one thread per connection, progress lines | call, exchange, finish; a client's read timeout; catch_unwind | the handlers |
| manager (`components/manager`) | selection, last list, details and profiles, one request slot per kind, the pending action, dialogs | clicks, timers, answers | the daemon through a thread per request |
| network (`components/net`, `components/killswitch`) | bridge, the stand's taps, the console of miyori-net, net VM's routes and rules | fixture up/down, run-miyori-net.sh, miyori-init, host kill switch | shares taps and the nft table with the daemon; net-status and the manager's network page report it |

What is hard here, and which properties it calls for:

* a CID is at once the address of the guest, the name of its tap and the key of
  its trust label, and it is reused: uniqueness, no stale label, no lost CID;
* a handler makes up to a dozen system calls, each of which may fail, and the
  daemon may die between any two: what survives must be usable by the next
  request;
* QEMU outlives the daemon and is found again by a pid file, while pids are
  reused: nothing untracked, nothing foreign killed;
* builds and pruning take no lock: the template under a disk must stay;
* a guest's connections, its proxy and the watchdog race over one counter;
* the manager's answers describe the past: they come in any order, after the
  selection changed, after an action, or after the manager gave up waiting;
* handlers run at once, some without the lock; a client or the daemon gives up on
  a call that the other side still carries out: requests must be atomic and end;
* the label must be true of the focused window whatever order the compositor's
  lines come in, and a bar that cannot know must not stay;
* a script works on the daemon's taps and rules without the daemon's lock.

`PROJECT.json` lists the hazards line by line.

## 2. Modules

| module | models |
|---|---|
| `Store` | store and rendering as operators: free CIDs, allocation, registry and rules of a store |
| `Spaces` (extends `Store`) | the lifecycle handlers, the host around them, builds and pruning |
| `MCSpaces` | instances for TLC: symmetry, sets of faults |
| `StoreProofs` (extends `Store`) | lemmas about allocation and rendering, for the proofs about `Spaces` and `Network` |
| `SpacesProofs` | the theorems about `Spaces` |
| `Broker` | miyori-guid |
| `MCBroker` | instances for TLC |
| `BrokerProofs` | the theorems about `Broker` |
| `Desktop` (extends `Spaces`, instantiates `Broker`) | the daemon and miyori-guid on one host |
| `MCDesktop` | instance for TLC: one CID for both spaces |
| `DesktopProofs` | the theorems about `Desktop`, on those about `Spaces` and `Broker` |
| `Manager` | miyori-manager, with the daemon reduced to what it answers |
| `ManagerProofs` | the theorems about `Manager` |
| `Agent` | miyori-agent and the guest around it, as operators |
| `Calls` | abstract specification: what a client of control.sock is promised |
| `Service` (extends `Agent`) | control.sock, its clients and threads, the handlers side by side; refines `Calls` |
| `MCService` | instance for TLC: an operator and an onlooker |
| `ServiceProofs` | the theorems about `Service` and `Agent`, and that `Service` implements `Calls` |
| `Label` | miyori-label |
| `MCLabel` | instance for TLC: a window of a space and one of the host |
| `LabelProofs` | the theorems about `Label` |
| `Network` (extends `Store`) | net-fixture.sh beside the daemon, miyori-net's console, net-status, the network page |
| `MCNetwork` | instance for TLC: two stand ids |
| `NetworkProofs` | the theorems about `Network` |

Definitions whose comment begins "Fault model" are deliberate errors used to
show that a property can fail; no specification uses them.

### Spaces

`op` is the handler that holds `Ctx.lock`: its name, its space and its next step
`op.at`. A request (`Create`, `Start`, `Stop`, `Reset`, `UpdateImage`,
`Destroy`) checks what the code checks before its first change and enters; each
later step is one externally visible call (`CreateVolumes`, `RefreshRegistry`,
`ApplyNft`, `CreateTap`, `WriteRunningSecret`, `Spawn`, `WritePidFile`, `Settle`,
`StartAppViaAgent`, ...); `Return` releases the lock. A step named in
`FaultySteps` may fail, with the partial effects the code allows (four commands
in create_tap, nine calls in write_running_secret, a remove_dir_all that stops
half-way). Requests that are refused change nothing and are no steps.

Between any two steps the host may act: `QemuExits`, `ForeignProcess` (pid
reuse), the build of a template (`PlaceTemplate`, `UnlinkLatest`, `LinkLatest`),
the pruning script (`PruneScan` ... `PruneEnds`), `Crash` of the daemon (its
children go to init, `handle` and `op` are lost, files and taps stay), `Reboot`
(`/run` and the kernel's state are gone; the fixture reloads the bridge rules
from the store).

Abstractions and assumptions:

* one profile; a digest stands for a template directory that is complete; label,
  colour, uid, sizes and seeds are left out;
* `create` resolves the digest and writes the config in one step: both happen
  under the lock, and only pruning could come in between, which the next step
  (the overlay) meets anyway;
* whether the agent confirms an unmount is decided anew by every stop, as long as
  an agent with the nonce on file answers; when it does, and whether it is true,
  is in `Service`;
* link_exists answers correctly, and removing a pid file succeeds; removing the
  passphrase may fail unseen ("forget", `ops.rs:1565`);
* a guest's agent answers only to the nonce it was booted with; nonces in use
  are never drawn again;
* `miyorid.service` sets no KillMode, so systemd would end the QEMUs together
  with a crashed daemon; in the model that is `Crash` followed by `QemuExits`,
  and it also covers a daemon started by hand.

### Broker

Each connection is a thread in `handle`: `Accept`, `Resolve` (registry re-read),
`ReuseProxy` / `StartProxy` / `ProxyFails` (ensure_proxy under the mutex),
`Connect`, `CopyEnds`, `Release` (the drop of ProxyLease). `ReapDeadProxies` is a
pass of the watchdog. Around them proxies die, socket files vanish, guests start
and stop, and the daemon rewrites the registry (`Rewrite`: any change that names a
CID once and leaves the entries of running guests alone). The label a window
carries is the id of the space the proxy was started for (title prefix and
security context are functions of it), so no other data is needed.

Timing enters in one place. `SlowBoot` says that a guest is up no sooner than the
watchdog has been round and the threads of dead guests have done what they can
do without waiting: booting takes seconds, the watchdog polls every second.
`swept` is a history variable for it. Runs with `SlowBoot = FALSE` need no such
assumption. The socket of a proxy that wait_for_socket gave up on is taken never
to appear.

`Faults` are a process that cannot be spawned ("spawn"), a socket that does not come
in time ("socket"), a socket file that remove_file cannot remove, which the code
ignores ("unlink", `FileStays`: the file passes for the next proxy's socket, and
nobody listens on it), and one that somebody removes under a living proxy
("vanish").

### Desktop

`Broker` assumes something of the daemon, and here the daemon is `Spaces`: a
guest is a live QEMU of `Spaces`, `Alive` the CIDs of the guests, and the registry
both modules speak of is one variable. `HostMoves` is any step of `Spaces`;
`GuestConnects` is `Accept` for the CID of a guest that runs; `ThreadMoves` and
`ProxiesMove` are the broker's own steps. `drawer` is history: which QEMU is at the
other end of a connection, as long as it lives and the connection is open. It lets
`WindowShowsItsSpace` speak of the guest that draws rather than of a CID, which may
have a new owner. `Next` of `Broker`, with its assumptions about guests and
registry, is no part of this specification: that the composition satisfies it is a
property (`GuidEnvironment`). The daemon has one life here (`MaxCrashes = 0`).

### Manager

The functions of `ui.rs` change one `Ui` and call each other, so each is an
operator from the `Ui` record to the record it leaves (`SelectSpace`,
`RenderSpaces`, `RefreshDetail`, `SendAction`, `HandleDone`, ...), and an action
is one event of the GTK loop: a click, a dialog's button, the five-second timer
(`PollRefresh`), an answer from the channel (`Done`). A modal dialog keeps the
operator from the main window; timers and answers go on.

`ui.calls` holds the threads of `Daemon::send`. A call's answer is taken from the
daemon in one step (`ServeRead`, `ServeAction`) and reaches the loop in a later
one, in any order. Request ids and selection epochs are only ever compared, so an
id is free again when nothing refers to it, and an epoch is whether the
describe on its way was asked under the present one. The client may give up
(`GiveUpRead`, `GiveUpAction`); the daemon then still carries an action out, at
any later time or never (`late`). `ChangeElsewhere` is a guest that ends or
another client. `unseen` is history: the reads that have not been served since
something changed that no successful answer told the manager of; the properties
about what is on screen hold from then on.

Left out: the network page (see `Network`), progress lines, the
entries of the form beyond the id and whether encryption is chosen, texts and
layout. There is one profile. The bound `MaxTrouble` limits how often something
fails or changes elsewhere; the actions of the operator are not bounded.

### Agent, Service and Calls

`Spaces` follows one handler at a time through every system call. `Service` keeps
of a handler what other threads can see and lets several run: each connection has
a client (`client`), the socket between (`wire`, one frame), and a thread with its
program counter (`thread[c].at`). `Ask` connects and writes the request; a handler
that changes something takes `lock` with its first step (`Create`, `Destroy`,
`Start`, `Stop`, `OpenWindow`), checks, and goes on; `Release` and `Answer` end it.
`list` and `describe` walk the store without the lock: `LoadStore` (read_dir),
`IsFile`, `ReadConfig` per entry, then `Probe` of each guest. A directory is
"bare" between create_dir_all and the config, and between the two halves of
remove_dir_all. `build` streams lines without the lock.

A call of an agent is a connection in the guest's backlog, then `TakeReply` or
`CallFails`; on failure the frame stays with the guest, belonging to `Nobody`, and
is carried out later or never. `Agent` says what the agent does with it: one
connection at a time, exec-app replaces `APP_CHILD` without ending the process
before, shutdown ends the child it knows of, unmounts and exits. That child is the waypipe
server miyori-launch has become, so the application below it lives on
(`TakeAppChild`) and, like one whose handle was replaced, may hold the volume.
Faults: clients that give up
(`GiveUp`, the read timeout), handlers that panic (`Panic`: the guard is dropped,
poisoning is ignored, no reply), guests and applications that die at any time,
a spawn that fails, volumes that cannot be made.

`Calls` promises a client that its request takes effect at once and at most once
between question and answer, that "ok" means it did and "error" that it changed
nothing, also if the client left; only a connection that broke leaves it open.
`Service` implements it under `Promise == INSTANCE Calls WITH world <- World,
call <- ...`: while a handler holds the lock, `World` is the store as the handler
found it.

Left out: the nonce (a call that crosses a restart of the guest fails like any
other; `Spaces` has it), the clean_shutdown record on disk (`Spaces` has it; here
`thread.graceful`), reset, update-image and profiles, which meet no other thread in
a way destroy and list do not, the server's start (socket, group, mode).

### Label

`HandleNiriLine` takes a line of the stream: `Apply` on the window map, then
`MaybeRedraw`, which asks the daemon and the focused window's cgroup (any answer is
possible at any time) and draws on every configured bar if the text changed.
`NewOutput`, `Configure`, `Closed`, `OutputDestroyed`, `StreamClosed` and
`TimerFires` are the other callbacks. The desktop is environment: windows open,
change title, close and pass the focus, each with the lines niri sends, in either
order where two are sent; a window of the host may claim any space in its title.
A window of a space carries the prefix its proxy gives it. `Faults` adds a draw
that fails and a line parse_event refuses; the run has neither (section 3).
Left out: pixels, fonts, colours, sizes, the dry run.

### Network

`UpRead` ... `UpApply` and `DownStarts` ... `DownBridges` are net-fixture.sh as far
as others see it, command by command for a port of the stand (`UpAdd`, `UpMaster`,
`UpIsolate`); `DownDeletes` is down without miyorid or without a state directory.
`ScriptEnds` is set -e or an interrupt, at any command. Beside it
the daemon creates, destroys, starts and stops spaces, with a tap that is "bare",
"open" or "isolated" after each command of create_tap. `rules` is the nft table
(which CIDs it admits). `raised` (ports the script added for the stand, unless a space
was given the CID since the script read the store, `Overtaken`) and `current` (the table was rendered from the store as it
was when applied) are history. miyori-net is off, or writes its console to a file
or to the journal. `NetStatus` and `NetView` are functions of the state: every row
of the answer is read independently of the others, so each is true or false on
its own. The tail of the console with the reports of two boots, complete or cut,
is a pure algorithm, checked over all lengths within the bounds.

Left out: failures of nft and of refresh and crashes of the daemon (`Spaces` has
them), the PCI row. For up, the script finds a built miyorid.

## 3. Runs

All bounds are in the .cfg files. Model values are permuted (SYMMETRY) in the
safety runs of `Spaces`, `Broker` and `Desktop`, never in a liveness run. Deadlock is checked
except where the system may come to rest: the manager's window may be closed for
good, the label's process may end, and nobody need ask the daemon anything.

| run | states | what it shows |
|---|---|---|
| SpacesSession | 1 896 000 | two encrypted ids over the CIDs 3, 31 and a CID the stand holds, every handler, recoverable faults: `RegistryFollowsStore`, `NoForeignLabel`, `EveryQemuIsTracked`, `NoVolumeWorkUnderLiveQemu`, `SecretHasItsQemu` |
| SpacesCrash | 3 984 000 | a crash or reboot between any two steps, pids that go to other QEMUs and other programs, and the faults that leave something behind: `CidsAreUnique`, `NoBurnedCid`, `RunningSpaceIsReachable`, `KillsOnlyItsOwn` |
| SpacesImages | 964 000 | builds, pruning and other processes beside the handlers of a plain space: `UpdateLeavesOverlayOnDigest` |
| BrokerLeases | 283 000 | three connections, two spaces, two CIDs, socket files that vanish or cannot be removed: `LeasesCountConnections`, `NoKillUnderConnection`, `NoStaleWindow`, `EveryProxyIsTracked` |
| BrokerWatchdog | 281 000 | every fault, guests that boot at once, proxies orphaned: `WindowsVanish` under weak fairness of the watchdog |
| Desktop | 404 000 | two spaces that get the same CID in turn, one guest at a time, a registry that a failed refresh leaves behind, spawns that fail: `WindowShowsItsSpace`, and `GuidEnvironment` (the refinement of what `Broker` assumes) |
| ManagerSession | 1 531 000 | two encrypted spaces, create, build and update-image, both pages, a search: `DetailsOfSelected`, `DetailsFollowActions`, `ProfilesFollowActions`, `NeverWithoutPassphrase`, `CreatedSpaceIsSelected` |
| ManagerTrouble | 375 000 | one space, stop and destroy, timeouts, late and half-failed actions, changes elsewhere, two of them at most: `ListFollowsActions`, `EveryAnswerHasAnOwner`, and `ListConverges` under fairness of the timers |
| LabelStrip | 366 000 | two windows, two outputs, two lines on their way: once the lines are taken the text is true of the focused window (`SettledStripIsTrue`), all bars show it (`BarsAgree`), it comes on every bar (`StripConverges`), and the process does not outlive the stream (`StreamEndIsFatal`) |
| Service | 259 000 | two clients, one space with a data volume, two connections in the backlog: `MutationsAreAtomic` (the refinement of `Calls`), `ReadsAreRegular`, `CleanStopIsTrue`, `NoAppAfterUnmount`, and `EveryRequestEnds` under fairness |
| Network | 617 000 | two ids, one of which is also the stand's, CIDs 3, 4 (the stand's), 5 and 9: `RulesFollowStore`, `PortsAreNotShared`, `PageNeverFlatters`, `TunnelIsOneReport` |

Each module has its `TypeOK`, which says little more than the shape of the variables. In every
module it is a theorem (section 4), so no run checks it; in `Broker` it also says that
an entry has a lease, in `Spaces` it is the first conjunct of `Inductive`.

Why the bounds are enough: two ids and two pids are what it takes for a CID or a
pid to change owner; CID 31 contains CID 3 as a decimal prefix, which is what the
substring match of cmdline_identifies_space can confuse; the nonces allow one for
every process plus a fresh one; two pids allow two guests at once, or
the zombie of one beside the next; that pids go to other programs is in
SpacesImages, where no handler waits for a second guest, and in SpacesCrash, where
the daemon forgets its handles and has only old pid files to go by. Encrypted spaces pass every
step a plain one does and those of the secret; three connections are an old one, one whose respawn
fails and one that succeeds. In `Desktop` the one CID is always handed on, so an old
connection, an old entry of the registry and an old proxy can meet the next space
on it. One crash is enough for the states in which the
daemon has forgotten its handles; the proofs cover any number. In the manager two
spaces are what it takes for the selection to move under an answer, and two
disturbances for a change to be missed by an answer that is itself lost. A backlog
of two holds a late exec-app and the shutdown behind it. Two lines on their way are
what one change sends at most. In `Network` the window of six lines is one more
than a report, so that a report can be cut at either end, and the rulesets the
instance can produce are shorter than, as long as and longer than `RulesetMax`.

Fairness: `WF(ReapDeadProxies)` in the broker. The watchdog is a thread that sleeps a
second and locks a mutex that no thread keeps (the longest holder is
wait_for_socket with five seconds). Nothing is assumed of guests, proxies or the
copy loops: io::copy on a killed vhost-vsock does not return
(`components/guid/src/main.rs:45`). In the manager `WF(PollRefresh)`, and of the
list request `WF` of being answered and of being read: the GTK timers run as long
as the window is open, every call has a read timeout (`daemon.rs:50`), and the
loop reads up to 64 answers every 100 ms. `ListConverges` speaks of behaviours in
which changes and actions come to an end: actions without end could postpone the
list for ever, as each of them sets list_again.

In the label `WF` of `HandleNiriLine`, `StreamClosed` and each `Configure`: the loop
dispatches at least every 50 ms and takes what has come. In the service `WF`, for
each connection, of its thread or its client doing something: threads are
scheduled, calls of an agent have timeouts, a start has its deadline, a builder
ends, and clients read. std's Mutex is not fair, so `EveryRequestEnds` speaks of
behaviours in which clients at some time ask no more.

### Where the code departs from what it says

The run PruneRace states a sentence of `tools/prune-templates.sh` (quoted in
`PROJECT.json` "findings") and TLC finds a behaviour of the code against it: the
script reads the digests in use, a space is created or updated, and the script
deletes the template under its overlay.

The others met on the way have no run of their own; the models show them when the
step named is added to the faults, or the constant named is changed:

* the pid of a dead QEMU goes to the QEMU of CID 31 after a restart of the daemon,
  and the space with CID 3 looks running, because cmdline_identifies_space matches
  a substring (`qemu.rs:213`; `RunningMeansItsOwnQemu` in SpacesSession with
  `MaxCrashes = 1`);
* rollback of create without a refresh (`ops.rs:385`) leaves a registry line for a
  CID that is given to the next space (`NoForeignLabel` in SpacesSession with
  `MaxCrashes = 1`);
* a failed respawn forgets the leases (`broker.rs:167`), and a late release stops
  a proxy in use ("spawn" in BrokerLeases against `NoKillUnderConnection`);
* the passphrase "живёт всё время работы VM, убирается в stop() и при любом неудачном
  start()" (`ops.rs:1525`), but it stays when start fails inside
  write_running_secret after the file is written (`ops.rs:710`; "secret" in
  SpacesSession against `SecretHasItsQemu`), when stop returns early because
  delete_tap failed (`ops.rs:888`; "untap"), when it cannot be removed
  (`ops.rs:1565`; "forget"), and whenever QEMU ends by itself: stop then finds no
  running space and refuses, and destroy does not look for it. `SecretHasItsQemu`
  says that nothing else leaves one, so it allows a QEMU that has ended;
* the pid file cannot be written (`qemu.rs:184`): spawn fails, QEMU lives on
  unseen, and reset replaces its volumes ("pidfile" in SpacesSession against
  `EveryQemuIsTracked` and `NoVolumeWorkUnderLiveQemu`);
* stop returns early when delete_tap fails (`ops.rs:888`), so an older "clean"
  stays on record for a VM killed without an unmount (`StopDeleteTap` in `Spaces`
  goes to "failed" past `StopRecord`);
* shutdown is to end the application first, since an open file would keep /data
  mounted (`components/agent/src/main.rs:20`, `:78`), but it ends the waypipe server
  (`components/agent/miyori-launch:5`): the application of the only exec-app can
  hold the volume, and the stop is then recorded as not clean (`ShutdownReply` in
  `Agent` has both outcomes). `CleanStopIsTrue` shows that the record is not wrong;
* after a restart of the daemon, a program that gets the pid of a dead QEMU while stop
  waits for the agent is killed in its place (`ops.rs:1206`); another space's QEMU is
  not (`KillsOnlyItsOwn`);
* update-image moves the overlay, fails to record the digest (`ops.rs:1115`) and
  is repeated after latest went back: the retry takes the early return ("digest"
  in SpacesImages against `UpdateLeavesOverlayOnDigest`);
* a proxy that wait_for_socket gives up on is dropped alive (`broker.rs:203`;
  "socket" in BrokerLeases against `EveryProxyIsTracked`);
* start replaces the handle of a QEMU that died by itself without waiting for it
  (`ops.rs:768`): a zombie for the life of the daemon;
* destroy removes the space and then answers an error if registry or rules cannot
  be refreshed (`ops.rs:1150`), so an error does not mean that nothing changed
  ("refresh" in Service against `MutationsAreAtomic`);
* a bar whose buffer cannot be had keeps its old text, which lastContent says is
  on screen ("draw" in LabelStrip against `BarsAgree`), although `main.rs:507` ends the
  process rather than leave a frozen bar;
* a line parse_event refuses, such as a window with a pid beyond u32, is dropped
  whole, its focus included ("refused" in LabelStrip against `SettledStripIsTrue`);
* the daemon sends the tunnel's set and route as texts (`ops.rs:95`), the page reads
  them with as_bool (`view.rs:499`), and always says no; the tests use booleans
  (`AsFlag` in `Network`);
* net-fixture.sh down deletes tap-space-3 and -4 also when they are a daemon's
  space's, up raises the bridge before the rules, and the daemon's refresh drops
  the stand's rules; a script that read the store before a create overwrites its
  rule and shares its port with it (`RulesFollowStore` without `current`,
  `PortsAreNotShared` without `Overtaken`).

## 4. Proofs

The theorems hold for all values of the constants that satisfy the named
assumptions of the component's module: any number of spaces, CIDs, pids, clients,
windows, requests. Where a theorem also assumes something of the faults, the property
fails with the fault: section 3 names the line of the code in each case.

### Spaces

For every set of faulty steps and any number of crashes:

* `TypeCorrect`: Spec => []TypeOK
* `CidsUnique`: Spec => []CidsAreUnique
* `NoCidIsBurned`: Spec => []NoBurnedCid
* `RunningReachable`: Spec => []RunningSpaceIsReachable
* `Invariance`: Spec => []Inductive, from which the others follow

The argument. None of the properties is inductive alone, because a handler checks
at its first step what it relies on at its last. `Inductive` adds

* `HandlerInvariant`: which handler can be at which step, and that it works on a
  space still in the store; this carries the checks of the first step along;
* `TapInvariant`: the stand's taps stay, and a handler about to drop a config
  (rollback of create, destroy) has no tap left; this is why no CID is burned
  even if the daemon dies there;
* `StartInvariant`: no tracked QEMU exists while the config may go or the nonce
  is being replaced, and one just spawned has the CID and nonce on file; this is
  why a crash between spawn and pid file cannot make a tracked QEMU unreachable.

`AllocatedCidIsFree` needs that a non-empty set of naturals has a least element,
taken from `WellFoundedInduction`. `CidsAreUnique` follows because a config
appears only in `Create`, with a CID outside store, taps and NetCid, and the
stand's taps are among the taps. `NextTypeOK`, `NextHandler`, `NextCid` and
`NextReach` show one step each, action by action.

* `KillsOnlyItsOwnTheorem`: Spec => KillsOnlyItsOwn, if no CID is a decimal prefix of
  another (`PrefixFree`; otherwise the substring match of `qemu.rs:213` takes one
  space's QEMU for another's). With a handle the QEMU is the daemon's child, but after a
  restart stop kills by a pid that it checked before it waited for the agent.
  `KillInvariant` says that while a handler is on its way to the kill, the process that
  its handle, or else its pid file, leads to is a QEMU with the CID of the space, or no
  QEMU at all: only the daemon starts QEMUs, and the lock is held.

For a daemon that is not killed between two steps (`MaxCrashes = 0`; a crash leaves
half a handler's work behind, and SpacesCrash shows what is then left), with every
fault allowed except those in the second column:

| theorem | never fails | why it must not |
|---|---|---|
| `EveryQemuIsTrackedTheorem`, `NoVolumeWorkTheorem` | pidfile | a QEMU without a pid file is seen by nobody |
| `SecretTheorem` | secret, untap, forget | the passphrase is written and start fails, stop returns before it removes it, or it cannot be removed |
| `RegistryTheorem` | rollback | a space is left stored that no refresh has seen |
| `NoForeignLabelTheorem` | rollback, pidfile | such a space can run under the label of a former owner of its CID |
| `UpdateTheorem` | volumes, rollback, remove, digest | the overlay moves without its digest |

`Living` is `Inductive` with `OwnInvariant` (a live QEMU is a child of the daemon,
so a pid on file is not given to another process while the handle is held),
`VolumeInvariant` (a handler that works on volumes has no tracked QEMU of that space) and
`RaisedInvariant` (a tracked QEMU has its tap, so stop does not fail before it has
removed the secret). Each theorem adds what its own files
need: `TrackInvariant`, `SecretInvariant`, `RegistryInvariant`
(the registry is injective, and every stored space is in it unless create is still at
work) and `OverlayInvariant`.

### Broker

* `TypeCorrect`, with or without `SlowBoot` and for all faults. An entry of `started`
  has at least one lease, so the `saturating_sub` of release_proxy never saturates.
  The type alone is not inductive: `ConnInvariant` adds that a thread past a step
  knows its CID and its space, without which a release could touch an entry of no
  space;
* `ProxiesAreTracked`: if the wait for a proxy's socket never gives up (`"socket"` is
  not in `Faults`), every live proxy is in the table. The proof follows the proxies
  through the three places that drop an entry (respawn, release, watchdog) and shows
  that each ends the process first (`GoneTracked`, `ClearedOf`);
* `NoStaleWindowTheorem`: with `SlowBoot` (a boot takes longer than the watchdog's
  second), for all faults. `Windows` adds to the types that an entry's process is its
  space's and that who listens on its socket or is connected to is that process, alive
  (`TableInvariant`), that nothing of another guest is served as the space of a running
  one (`OwnerInvariant`), and that a dead guest the watchdog has been round for has no
  proxy left (`SweptInvariant`), which is what a CID that lives again relies on;
* `LeasesCountConnectionsTheorem` and `NoKillUnderConnectionTheorem`: with `SlowBoot`
  and no fault but socket files that vanish or cannot be removed ("spawn" and "socket"
  excluded). Counting needs `FiniteSetTheorems`: a connection
  that takes or gives back its lease changes the number of holders by exactly one.

### Desktop

For a daemon that is not killed, with every fault of the broker, and every fault of
the daemon but `pidfile` (a QEMU nobody sees keeps its CID) and `rollback` (a stored
space no refresh has seen):

* `GuidEnvironmentTheorem`: DesktopSpec => GuidEnvironment, which is `Spec` of
  `Broker`. `HostInvariant` is `Living` of the proofs about `Spaces` with its
  invariants about tracks and registry, and that two guests never share a CID
  (which the kernel enforces at spawn). From it: at most one process changes in a
  step, and none in a step that rewrites the registry (`ProcessesChange`,
  `RegistryChanges`), so `Alive` gains or loses one CID (`AliveChanges`); and a
  refresh touches no entry of a running guest, because a guest whose space is
  running is already stored and registered under its CID (`GuestIsRegistered`,
  `RefreshIsRewrite`). The other steps of `Spaces` are stutters of `Broker`;
* `WindowShowsItsSpaceTheorem`: DesktopSpec => []WindowShowsItsSpace. `DrawerInvariant`
  follows a connection from accept to the end of copying: its CID is its drawer's, and
  once resolved its space is its drawer's, which at `Resolve` is `NoForeignLabel` and
  later holds because a process does not change hands. `BrokerProofs` is instantiated
  beside `Broker`, so its `TableInvariant` (an entry's process is its space's) holds
  here too. Slow boots are not needed;
* `NoStaleWindowBesideDaemon`: with `SlowBoot`, `NoStaleWindowTheorem` of `Broker` holds
  of the broker beside this daemon, its hypotheses about the world now being proved.

### Manager

* `ManagerTypeCorrect`, `AnswersHaveOwners`, `DetailsAreOfSelected`, `ListFollows`,
  `DetailsFollow`, `ProfilesFollow` and the action property `CreatedIsSelected`: for
  every set of failures and of changes made elsewhere, and any number of both. The
  functions of `ui.rs` call each other, so the proof is about operators: a lemma per
  function says which fields of the `Ui` it leaves alone and what it does to each
  request slot (`RefreshEffect`, `SelectEffect`, `RenderEffect`, ...), and a second one
  that it keeps `Good`. `Good` is the invariant of a `Ui` against a daemon: `Owned`
  (one slot per kind, its call in `calls` exactly while it waits), `Chosen` (the
  selection is listed, the details are its, those on their way are of the space they
  were asked for), and `ListTrue`, `DetailTrue`, `ProfileTrue`. These three say of what
  is on screen that it is the daemon's or that an answer is still to come, and of an
  answer that has come but is not yet read that it is the daemon's, or that an action
  has been reported in between and it will be asked for again. That second half is
  what list_again, profiles_again and the epoch are for, and no property states it;
* `PassphrasesAreAsked`: NeverWithoutPassphrase, if others only change the state of
  spaces (`Elsewhere \subseteq {"state"}`) and no action is carried out after the
  window gave up on it (`"late" \notin Failures`). Both can give an id to a new space
  with another encryption behind an older list; the daemon then refuses the operation
  (`Legal`). `Careful` follows what the window believes of a space's encryption through
  every place it is kept in: the list on screen (`Known`), the one about to be rendered
  (`Coming`), the dialogs (`Offers`), the request (`Sends`). It needs that a modal
  dialog excludes other dialogs and, except for a build in the form, a pending action
  (`Modal`), and that the space an action is aimed at is in every list that is still to
  be shown, so that a confirmation given late asks for the passphrase all the same.

### Service, Agent and Calls

* `TypeCorrect`, `NoAppAfterUnmountTheorem`, `CleanStopTheorem` and
  `ReadsAreRegularTheorem`, for all faults. The inductive parts are `Control` (who
  holds the lock, which thread can be at which step), `GuestInvariant` (what a guest's
  applications and volume say about the commands it has served), `CallInvariant` (a
  frame in a guest's backlog that has a sender is the one call this sender waits for,
  and a stop that believes in an unmount is right about it, however many calls were
  abandoned before) and `ReadInvariant` (what a read without the lock has collected,
  against what was in the store always and ever since it began);
* `MutationsAreAtomicTheorem`: Spec => MutationsAreAtomic, the
  safety part of `Calls` under the refinement mapping, if `"refresh"` is not in
  `Faults`. Each step of `Service` is shown to be a step of `Calls` or a stutter.

### Label

* `LabelTypeCorrect`; `BarsAgreeTheorem` if `"draw"` is not in `Faults`, with the
  invariant that a bar without a text is not on screen; `SettledStripTheorem` if
  `"refused"` is not in `Faults`. `StripInvariant` says that the map, once the lines
  still on their way are applied to it, is what the compositor has, so that the strip
  is true when none is left.

### Network

* `NetTypeCorrect`, `RulesFollowStoreTheorem`, `PortsAreNotSharedTheorem`,
  `PageNeverFlattersTheorem`, `TunnelIsOneReportTheorem`, without assumptions about
  faults. `NetInvariant` says what the daemon's handler relies on at each step, that the
  script works with the stand's registry and the store as it once read it, without a
  conflict between them, and that a raised port is there. `PortsAreNotSharedTheorem`
  says nothing of a space created between that reading and the adding of the port. The last theorem is about
  sequences: what the tail of a console of any length can contain.

### Only model-checked

All liveness, because fairness and ENABLED are out of the prover's reach
(`WindowsVanish`, `ListConverges`, `EveryRequestEnds`, `StripConverges`,
`StreamEndIsFatal`), and the violation PruneRace shows. Induction over data and
RECURSIVE operators are out of reach too; the models use neither.

## 5. Not modelled

* the firewall, tunnel and DNS of the net VM (`miyori-init` beyond the report it
  prints) and the host kill switch: sequences of nft, ip and wg commands whose effect
  is the kernel's packet path, which the repository tests on the stand;
* sandbox and profiles (`lib/sandbox`, `lib/profile`): construction of command lines
  and parsing, without state;
* drawing, fonts and layout of label and manager, progress lines and texts;
* the start of the servers (sockets, groups, modes), the installer, image building
  and vendored crates;
* the value of a passphrase: `Spaces` and `Manager` tell only whether one was given.

## 6. Plan

1. The same theorems with the daemon killed between two steps, for those that survive
   it, and `Desktop` with more than one life of the daemon.
2. `Service` as an abstraction of `Spaces`: a handler of `Service` refined by the steps
   `Spaces` takes under the lock.
3. Pure operators checked against a reference: civil_from_days of store.rs,
   is_safe_slug.
4. The value of the passphrase in `Spaces`: reset-system and update-image take any
   (`ops.rs:991`), and an overlay under another key than the data volume cannot be
   started.
5. `NetVm`: tunnel state and kill switch, as far as the scripts' own state decides.
