------------------------------- MODULE Network -------------------------------
(***************************************************************************)
(* The network of the host, which the daemon shares with two others: the   *)
(* script net-fixture.sh, which raises and takes down the bridge and the   *)
(* ports of the stand's own spaces, and miyori-net, the virtual machine    *)
(* that is the gateway.  Script and daemon render the same table of bridge *)
(* rules from the same store, the daemon under its lock, the script under  *)
(* none.  net-status looks at all of this, and the manager shows what it   *)
(* says.                                                                   *)
(*                                                                         *)
(* Spaces follows the daemon's handlers through their failures and         *)
(* crashes; here they succeed, and others act between their steps.         *)
(***************************************************************************)
EXTENDS Store, Sequences, FiniteSetsExt

CONSTANTS
  StandIds, Stand,  \* spaces.toml of the repository: [StandIds -> Cids]
  NetId,            \* "miyori-net", in both registries
  HostRules,        \* rules of the host's other tables
  RulesetMax,       \* RULESET_MAX_CHARS, in rules
  Window,           \* CONSOLE_TAIL_BYTES, in lines
  MaxTalk           \* bound: other lines between and after the reports

ASSUME NetworkAssumption ==
  /\ Stand \in [StandIds -> Cids \ {NetCid}]
  /\ NetId \notin Ids \cup StandIds
  /\ HostRules \in Nat /\ RulesetMax \in Nat
  /\ Window \in Nat /\ MaxTalk \in Nat

VARIABLES
  store,    \* the daemon's spaces
  run,      \* ids whose QEMU has its tap open
  op,       \* the handler that holds Ctx.lock
  bridge,   \* br-spaces and its port tap-spaces exist
  taps,     \* [Cids -> state of tap-space-<cid>]
  rules,    \* table bridge miyori
  script,   \* the run of net-fixture.sh
  net,      \* miyori-net: off, or on with its console in a file or elsewhere
  raised,   \* history: ports the script added and was not overtaken at
  current   \* history: the table is as it was applied for a store then current

vars == <<store, run, op, bridge, taps, rules, script, net, raised, current>>
host == <<bridge, taps, rules, raised, current>>

TapStates == {"none", "bare", "open", "isolated"}  \* bare: not in a bridge

Entries == [id : Ids \cup StandIds \cup {NetId}, cid : Cids \cup {NetCid}]

CidsIn(entries) == {e.cid : e \in {x \in entries : x.id # NetId}}

There == {c \in Cids : taps[c] # "none"}

-----------------------------------------------------------------------------
(* miyorid render: main.rs. *)

EntriesFromStateDir(st) == {[id |-> i, cid |-> st[i].cid] : i \in Stored(st)}

LoadRegistryFile ==
  {[id |-> s, cid |-> Stand[s]] : s \in StandIds} \cup {[id |-> NetId, cid |-> NetCid]}

Conflict(x, y) == x # y /\ (x.cid = y.cid \/ x.id = y.id)

\* Fault model: two entries with one CID are merged in silence.
MergeSilently(a, b) == [ok |-> TRUE, entries |-> a \cup b]

\* merge_entries: a union, refused if two entries share a CID or an id.
MergeEntries(a, b) ==
  [ok |-> ~\E x, y \in a \cup b : Conflict(x, y), entries |-> a \cup b]

-----------------------------------------------------------------------------
(* The daemon: create, destroy, start and stop, one at a time. *)

NoOp == [at |-> "idle", id |-> NoId]
Goto(place, i) == op' = [at |-> place, id |-> i]
Done == op' = NoOp

\* ip link del, and ip tuntap add.
DeleteTap(c) == taps' = [taps EXCEPT ![c] = "none"] /\ raised' = raised \ {c}
SetTap(c, state) == taps' = [taps EXCEPT ![c] = state] /\ UNCHANGED raised

Create(i) ==
  /\ op = NoOp /\ store[i] = NoSpace
  /\ FreeCids(store, There) # {}
  /\ \E d \in Digests :
       store' = [store EXCEPT ![i] = NewSpace(store, There, d, FALSE)]
  /\ Goto("refresh", i)
  /\ UNCHANGED <<run, host, script, net>>

Destroy(i) ==
  /\ op = NoOp /\ store[i] # NoSpace /\ i \notin run
  /\ DeleteTap(store[i].cid)
  /\ Goto("remove", i)
  /\ UNCHANGED <<store, run, bridge, rules, current, script, net>>

RemoveSpace ==
  /\ op.at = "remove"
  /\ store' = [store EXCEPT ![op.id] = NoSpace]
  /\ Goto("refresh", op.id)
  /\ UNCHANGED <<run, host, script, net>>

\* net::refresh renders the daemon's spaces and nobody else's.
Refresh ==
  /\ op.at = "refresh"
  /\ rules' = [there |-> TRUE, admits |-> RenderNft(store)]
  /\ current' = TRUE
  /\ Done
  /\ UNCHANGED <<store, run, bridge, taps, raised, script, net>>

\* start: the bridge must exist; reap_leftover_tap and the first of the four
\* commands of create_tap.
Start(i) ==
  /\ op = NoOp /\ store[i] # NoSpace /\ i \notin run /\ bridge
  /\ taps' = [taps EXCEPT ![store[i].cid] = "bare"]
  /\ raised' = raised \ {store[i].cid}
  /\ Goto("attach", i)
  /\ UNCHANGED <<store, run, bridge, rules, current, script, net>>

\* The others; one that finds no bridge or no tap fails, and start with it.
CreateTap ==
  LET c == store[op.id].cid
  IN /\ op.at \in {"attach", "isolate"}
     /\ \/ /\ op.at = "attach" /\ bridge /\ c \in There
           /\ SetTap(c, IF taps[c] = "bare" THEN "open" ELSE taps[c])
           /\ Goto("isolate", op.id)
           /\ UNCHANGED run
        \/ /\ op.at = "isolate" /\ taps[c] \in {"open", "isolated"}
           /\ SetTap(c, "isolated")
           /\ run' = run \cup {op.id}
           /\ Done
        \/ /\ IF op.at = "attach" THEN ~bridge \/ c \notin There
              ELSE taps[c] \notin {"open", "isolated"}
           /\ Done
           /\ UNCHANGED <<taps, raised, run>>
     /\ UNCHANGED <<store, bridge, rules, current, script, net>>

Stop(i) ==
  /\ op = NoOp /\ i \in run
  /\ run' = run \ {i}
  /\ DeleteTap(store[i].cid)
  /\ UNCHANGED <<store, op, bridge, rules, current, script, net>>

\* QEMU ends by itself: the tap stays.
QemuDies(i) ==
  /\ i \in run
  /\ run' = run \ {i}
  /\ UNCHANGED <<store, op, host, script, net>>

-----------------------------------------------------------------------------
(* net-fixture.sh: set -e, so that a command that fails ends it. *)

StandCids == {Stand[s] : s \in StandIds}

Idle == [at |-> "idle", seen |-> {}, merged |-> {}, todo |-> {}]
At(place) == script.at = place
UpToDate == script.seen = EntriesFromStateDir(store)

\* build_merged_registry: registry and store, read once.
UpRead ==
  /\ At("idle")
  /\ LET m == MergeEntries(LoadRegistryFile, EntriesFromStateDir(store))
     IN /\ m.ok
        /\ script' = [at |-> "bridges", seen |-> EntriesFromStateDir(store),
                      merged |-> m.entries, todo |-> StandCids]
  /\ UNCHANGED <<store, run, op, host, net>>

UpBridges ==
  /\ At("bridges")
  /\ bridge' = TRUE
  /\ script' = [script EXCEPT !.at = "ports"]
  /\ UNCHANGED <<store, run, op, taps, rules, raised, current, net>>

NextPort == Min(script.todo)

\* A space has been given the port's CID since the script read the store.
Overtaken ==
  \E i \in Stored(store) :
    store[i].cid = NextPort /\ [id |-> i, cid |-> NextPort] \notin script.seen

\* A port of the stand: added if it does not exist, put into the bridge and
\* brought up, isolated.  A command that finds no tap ends the script.
UpAdd ==
  /\ At("ports") /\ script.todo # {}
  /\ taps' = [taps EXCEPT ![NextPort] = IF @ = "none" THEN "bare" ELSE @]
  /\ raised' = IF NextPort \in There \/ Overtaken THEN raised
               ELSE raised \cup {NextPort}
  /\ script' = [script EXCEPT !.at = "master"]
  /\ UNCHANGED <<store, run, op, bridge, rules, current, net>>

UpMaster ==
  /\ At("master") /\ NextPort \in There
  /\ SetTap(NextPort, IF taps[NextPort] = "bare" THEN "open" ELSE taps[NextPort])
  /\ script' = [script EXCEPT !.at = "isolate"]
  /\ UNCHANGED <<store, run, op, bridge, rules, current, net>>

UpIsolate ==
  /\ At("isolate") /\ taps[NextPort] \in {"open", "isolated"}
  /\ SetTap(NextPort, "isolated")
  /\ script' = [script EXCEPT !.at = "ports", !.todo = @ \ {NextPort}]
  /\ UNCHANGED <<store, run, op, bridge, rules, current, net>>

\* Fault model: the rules are rendered from the repository's registry alone.
UpApplyStandOnly ==
  /\ At("ports") /\ script.todo = {}
  /\ rules' = [there |-> TRUE, admits |-> CidsIn(LoadRegistryFile)]
  /\ current' = UpToDate
  /\ script' = Idle
  /\ UNCHANGED <<store, run, op, bridge, taps, raised, net>>

\* render --registry <merged> --kind nft | nft -f -
UpApply ==
  /\ At("ports") /\ script.todo = {}
  /\ rules' = [there |-> TRUE, admits |-> CidsIn(script.merged)]
  /\ current' = UpToDate
  /\ script' = Idle
  /\ UNCHANGED <<store, run, op, bridge, taps, raised, net>>

DownStarts ==
  /\ At("idle")
  /\ script' = [Idle EXCEPT !.at = "unport", !.todo = StandCids]
  /\ UNCHANGED <<store, run, op, host, net>>

DownPort ==
  /\ At("unport") /\ script.todo # {}
  /\ DeleteTap(NextPort)
  /\ script' = [script EXCEPT !.todo = @ \ {NextPort}]
  /\ UNCHANGED <<store, run, op, bridge, rules, current, net>>

\* render --state-dir <state> --kind nft | nft -f -: a pipe of two processes.
DownRead ==
  /\ At("unport") /\ script.todo = {}
  /\ script' = [script EXCEPT !.at = "apply", !.seen = EntriesFromStateDir(store)]
  /\ UNCHANGED <<store, run, op, host, net>>

DownApply ==
  /\ At("apply")
  /\ rules' = [there |-> TRUE, admits |-> CidsIn(script.seen)]
  /\ current' = UpToDate
  /\ script' = [script EXCEPT !.at = "unbridge"]
  /\ UNCHANGED <<store, run, op, bridge, taps, raised, net>>

\* Where miyorid is not built or there is no state directory, the table goes.
DownDeletes ==
  /\ At("unport") /\ script.todo = {}
  /\ rules' = [there |-> FALSE, admits |-> {}]
  /\ current' = FALSE
  /\ script' = [script EXCEPT !.at = "unbridge"]
  /\ UNCHANGED <<store, run, op, bridge, taps, raised, net>>

\* Ports of a bridge that is deleted are in no bridge.
DownBridges ==
  /\ At("unbridge")
  /\ bridge' = FALSE
  /\ taps' = [c \in Cids |-> IF taps[c] = "none" THEN "none" ELSE "bare"]
  /\ script' = Idle
  /\ UNCHANGED <<store, run, op, rules, raised, current, net>>

\* A command fails, or the operator interrupts the script.
ScriptEnds ==
  /\ ~At("idle")
  /\ script' = Idle
  /\ UNCHANGED <<store, run, op, host, net>>

-----------------------------------------------------------------------------
(* miyori-net: run-miyori-net.sh starts it. *)

\* Its standard output is a file, or the journal's socket under systemd.
NetStarts ==
  /\ net = "off" /\ bridge
  /\ net' \in {"file", "journal"}
  /\ UNCHANGED <<store, run, op, host, script>>

NetDies ==
  /\ net # "off"
  /\ net' = "off"
  /\ UNCHANGED <<store, run, op, host, script>>

\* What its init prints of the tunnel, a line at a time.
Report == <<"begin", "ifc", "set", "route", "end">>

\* The first n lines of the report of a boot, and n lines of something else.
Reported(boot, n) == [k \in 1..n |-> [kind |-> Report[k], boot |-> boot]]
Others(n) == [k \in 1..n |-> [kind |-> "other", boot |-> 0]]

(* A console two boots were appended to: the last one, 1, has come as far as  *)
(* line n of its report, the one before, 0, had come as far as m.             *)
Console(m, t, n, u) == Reported(0, m) \o Others(t) \o Reported(1, n) \o Others(u)

-----------------------------------------------------------------------------
(* net-status: net.rs. *)

NoTunnel == [ifc |-> 2, set |-> 2, route |-> 2]

ReadConsoleTail(s) ==
  IF Len(s) > Window THEN SubSeq(s, Len(s) - Window + 1, Len(s)) ELSE s

Of(s, kind) == {k \in DOMAIN s : s[k].kind = kind}

\* The lines of body, one of each kind, as the loop leaves them: the last wins.
FieldsOf(s, body) ==
  LET value(kind) == LET lines == Of(s, kind) \cap body
                     IN IF lines = {} THEN 2 ELSE s[Max(lines)].boot
      t == [ifc |-> value("ifc"), set |-> value("set"), route |-> value("route")]
  IN IF 2 \in {t.ifc, t.set, t.route} THEN NoTunnel ELSE t

\* Fault model: find in place of rfind.
FirstTunnelBlock(s) ==
  IF Of(s, "begin") = {} THEN NoTunnel
  ELSE LET start == Min(Of(s, "begin"))
           ends  == {k \in Of(s, "end") : k > start}
       IN IF ends = {} THEN NoTunnel ELSE FieldsOf(s, start..Min(ends))

\* parse_last_tunnel_block: from the last BEGIN to the first END after it.
ParseLastTunnelBlock(s) ==
  IF Of(s, "begin") = {} THEN NoTunnel
  ELSE LET start == Max(Of(s, "begin"))
           ends  == {k \in Of(s, "end") : k > start}
       IN IF ends = {} THEN NoTunnel ELSE FieldsOf(s, start..Min(ends))

\* miyori_net_status: the process is looked for in /proc, its console is what
\* its descriptor 1 points to, if that is a file.
MiyoriNetStatus(console) ==
  [running |-> net # "off",
   tunnel  |-> IF net = "file" THEN ParseLastTunnelBlock(ReadConsoleTail(console))
               ELSE NoTunnel]

\* Fault model: a flag that cannot be read is taken for the usual one.
ParseIsolatedFlagKindly(state) ==
  IF state = "open" THEN "no" ELSE "yes"

\* parse_isolated_flag: outside a bridge a tap has no such flag.
ParseIsolatedFlag(state) ==
  CASE state = "isolated" -> "yes"
    [] state = "open"     -> "no"
    [] OTHER              -> "null"

ListSpaceTaps == [c \in There |-> ParseIsolatedFlag(taps[c])]

\* ruleset_from_output: len is the length of what nft printed, the ruleset or
\* the reason why there is none.
RulesetFromOutput(ok, len) ==
  [available |-> ok,
   shown     |-> IF len > RulesetMax THEN RulesetMax ELSE len,
   truncated |-> len > RulesetMax, from |-> len]

\* nft list ruleset: every table of the host.
RulesetLength ==
  HostRules + (IF rules.there THEN 2 * Cardinality(rules.admits) + 1 ELSE 0)

NftRuleset(ok) == RulesetFromOutput(ok, IF ok THEN RulesetLength ELSE 1)

NetStatus(ok, console) ==
  [bridge |-> bridge, taps |-> ListSpaceTaps, net |-> MiyoriNetStatus(console),
   ruleset |-> NftRuleset(ok)]

-----------------------------------------------------------------------------
(* The manager's network page: view.rs. *)

\* set and route are texts in the answer; as_bool of a text is no flag, and
\* the page says no.
AsFlag(text) == FALSE

TunnelRow(t) ==
  IF t = NoTunnel THEN [ifc |-> 2, set |-> FALSE, route |-> FALSE]
  ELSE [ifc |-> t.ifc, set |-> AsFlag(t.set), route |-> AsFlag(t.route)]

RulesetNote(r) ==
  CASE ~r.available                -> "unavailable"
    [] r.available /\ r.truncated  -> "truncated"
    [] r.available /\ ~r.truncated -> "none"

NetView(s) ==
  [bridge |-> s.bridge, running |-> s.net.running,
   isolated |-> {c \in DOMAIN s.taps : s.taps[c] = "yes"},
   tunnel |-> TunnelRow(s.net.tunnel),
   shown |-> s.ruleset.shown, note |-> RulesetNote(s.ruleset)]

-----------------------------------------------------------------------------
\* The host has booted; the store is as it was left.
Init ==
  /\ store \in {st \in [Ids -> {NoSpace} \cup
                  [cid : Cids \ {NetCid}, digest : Digests, encrypted : {FALSE},
                   clean : {"never"}]] :
                  \A i, j \in Stored(st) : i # j => st[i].cid # st[j].cid}
  /\ run = {} /\ op = NoOp
  /\ bridge = FALSE
  /\ taps = [c \in Cids |-> "none"]
  /\ rules = [there |-> FALSE, admits |-> {}]
  /\ script = Idle
  /\ net = "off"
  /\ raised = {} /\ current = FALSE

Next ==
  \/ \E i \in Ids : Create(i) \/ Destroy(i) \/ Start(i) \/ Stop(i) \/ QemuDies(i)
  \/ RemoveSpace \/ Refresh \/ CreateTap
  \/ UpRead \/ UpBridges \/ UpAdd \/ UpMaster \/ UpIsolate \/ UpApply
  \/ DownStarts \/ DownPort \/ DownRead \/ DownApply \/ DownDeletes
  \/ DownBridges
  \/ ScriptEnds
  \/ NetStarts \/ NetDies

Spec == Init /\ [][Next]_vars

-----------------------------------------------------------------------------
\* Only stored spaces run, and the registry a script works with names no CID
\* and no id twice.
TypeOK ==
  /\ store \in Stores
  /\ run \subseteq Stored(store)
  /\ op \in [at : {"idle", "remove", "refresh", "attach", "isolate"},
             id : Ids \cup {NoId}]
  /\ bridge \in BOOLEAN
  /\ taps \in [Cids -> TapStates]
  /\ rules \in [there : BOOLEAN, admits : SUBSET Cids]
  /\ script \in [at : {"idle", "bridges", "ports", "master", "isolate", "unport",
                       "apply", "unbridge"},
                 seen : SUBSET Entries, merged : SUBSET Entries,
                 todo : SUBSET Cids]
  /\ ~\E x, y \in script.merged : Conflict(x, y)
  /\ net \in {"off", "file", "journal"}
  /\ raised \subseteq Cids /\ current \in BOOLEAN

\* Whoever applied the table last, daemon or script, if the store it rendered
\* was still the store then, every space is admitted and nobody else is but the
\* stand: the daemon need not know the script, only the reading and the applying
\* of one may not be parted by a change of the store.
RulesFollowStore ==
  op.at # "refresh" /\ current =>
    /\ rules.there
    /\ CidsOf(store) \subseteq rules.admits
    /\ rules.admits \subseteq CidsOf(store) \cup StandCids

\* A port the script added for the stand is no other space's, before and after:
\* merge_entries refuses a store that has its CID, allocate_cid passes a CID that
\* has a tap.  Only a space created between the script's reading of the store and
\* its `ip tuntap add` comes to share it (net-fixture.sh:43-63).
PortsAreNotShared ==
  \A s \in StandIds :
    Stand[s] \in raised =>
      \A i \in Stored(store) : store[i].cid = Stand[s] => i = s

\* Where the page is wrong it errs to the worse side: no tap looks isolated
\* that is not, no part of the ruleset passes for the whole of it, whatever nft
\* answers.
PageNeverFlatters ==
  \A ok \in BOOLEAN :
    LET page == NetView(NetStatus(ok, <<>>))
    IN /\ \A c \in page.isolated : taps[c] = "isolated"
       /\ page.note = "none" => ok /\ page.shown = RulesetLength

\* The tunnel in the answer is one that a boot of miyori-net has reported in
\* full, never put together from two reports, and never an earlier boot's once
\* the last one has begun its own; that one is found if it is within the tail.
TunnelIsOneReport ==
  net = "file" =>
    \A m, n \in 0..Len(Report), t, u \in 0..MaxTalk :
      LET tunnel == MiyoriNetStatus(Console(m, t, n, u)).tunnel
          whole(boot) == [ifc |-> boot, set |-> boot, route |-> boot]
      IN /\ tunnel # NoTunnel =>
              IF n > 0 THEN n = Len(Report) /\ tunnel = whole(1)
              ELSE m = Len(Report) /\ tunnel = whole(0)
         /\ n = Len(Report) /\ n + u <= Window => tunnel = whole(1)
=============================================================================
