---------------------------- MODULE NetworkProofs ----------------------------
(***************************************************************************)
(* Theorems about Network, for any store, any registry of the stand, any   *)
(* number of CIDs and any length of the console.                           *)
(***************************************************************************)
EXTENDS Network, StoreProofs

(* What the daemon's handler, the script, the taps and the table have to do *)
(* with each other.                                                         *)

\* A handler's space is stored until it is removed, and a space that is being
\* destroyed does not run.
DaemonInvariant ==
  /\ store \in Stores
  /\ run \subseteq Stored(store)
  /\ op \in [at : {"idle", "remove", "refresh", "attach", "isolate"}, id : Ids \cup {NoId}]
  /\ op.at # "idle" => op.id \in Ids
  /\ op.at \in {"remove", "attach", "isolate"} => op.id \in Stored(store)
  /\ op.at = "remove" => op.id \notin run

\* What the script works with is the registry of the stand and the store as it
\* was when it was read.
ScriptInvariant ==
  /\ script \in [at : {"idle", "bridges", "ports", "master", "isolate", "unport", "apply",
                       "unbridge"},
                 seen : SUBSET [id : Ids, cid : Cids], merged : SUBSET Entries,
                 todo : SUBSET StandCids]
  /\ script.at \in {"master", "isolate"} => script.todo # {}
  /\ script.merged = IF script.at \in {"bridges", "ports", "master", "isolate"}
                     THEN LoadRegistryFile \cup script.seen ELSE {}
  /\ ~\E x, y \in script.merged : Conflict(x, y)

\* A port that was raised is there.
TapInvariant ==
  /\ taps \in [Cids -> TapStates]
  /\ raised \subseteq There

TableInvariant ==
  /\ rules \in [there : BOOLEAN, admits : SUBSET Cids]
  /\ current \in BOOLEAN
  /\ RulesFollowStore

RestInvariant == bridge \in BOOLEAN /\ net \in {"off", "file", "journal"}

NetInvariant ==
  /\ DaemonInvariant /\ ScriptInvariant /\ TapInvariant /\ TableInvariant
  /\ RestInvariant /\ PortsAreNotShared

-----------------------------------------------------------------------------
(* The store and the entries rendered from it. *)

LEMMA StoredCid ==
  ASSUME store \in Stores, NEW i \in Ids
  PROVE  /\ store[i] # NoSpace <=> i \in Stored(store)
         /\ i \in Stored(store) => store[i].cid \in Cids
  BY CidAssumption DEF Stores, SpaceConfig, NoSpace, NoCid, Stored

LEMMA StoredCids ==
  ASSUME store \in Stores
  PROVE  /\ CidsOf(store) \subseteq Cids
         /\ EntriesFromStateDir(store) \subseteq [id : Ids, cid : Cids]
         /\ CidsIn(EntriesFromStateDir(store)) = CidsOf(store)
  <1>1. \A i \in Stored(store) : i \in Ids /\ store[i].cid \in Cids
    BY StoredCid DEF Stored
  <1>2. EntriesFromStateDir(store) \subseteq [id : Ids, cid : Cids]
    BY <1>1 DEF EntriesFromStateDir
  <1>3. CidsOf(store) \subseteq Cids
    BY <1>1 DEF CidsOf
  <1>4. CidsIn(EntriesFromStateDir(store)) = CidsOf(store)
    <2>1. ASSUME NEW c \in CidsOf(store) PROVE c \in CidsIn(EntriesFromStateDir(store))
      <3>1. PICK i \in Stored(store) : c = store[i].cid
        BY DEF CidsOf
      <3> DEFINE e == [id |-> i, cid |-> store[i].cid]
      <3>2. e \in EntriesFromStateDir(store) /\ e.id # NetId /\ e.cid = c
        BY <1>1, <3>1, NetworkAssumption DEF EntriesFromStateDir
      <3> HIDE DEF e
      <3> QED BY <3>2 DEF CidsIn
    <2>2. ASSUME NEW c \in CidsIn(EntriesFromStateDir(store)) PROVE c \in CidsOf(store)
      BY DEF CidsIn, EntriesFromStateDir, CidsOf
    <2> QED BY <2>1, <2>2
  <1> QED BY <1>2, <1>3, <1>4

LEMMA StandIsCids == StandCids \subseteq Cids \ {NetCid}
  BY NetworkAssumption DEF StandCids

\* The table of the merged registry admits the stand and the store it was read of.
LEMMA MergedCids ==
  ASSUME NEW seen \in SUBSET [id : Ids, cid : Cids]
  PROVE  CidsIn(LoadRegistryFile \cup seen) = StandCids \cup CidsIn(seen)
  <1>1. ASSUME NEW c \in StandCids PROVE c \in CidsIn(LoadRegistryFile \cup seen)
    <2>1. PICK s \in StandIds : c = Stand[s]
      BY DEF StandCids
    <2> DEFINE e == [id |-> s, cid |-> Stand[s]]
    <2>2. e \in LoadRegistryFile /\ e.id # NetId /\ e.cid = c
      BY <2>1, NetworkAssumption DEF LoadRegistryFile
    <2> HIDE DEF e
    <2> QED BY <2>2 DEF CidsIn
  <1>2. ASSUME NEW c \in CidsIn(LoadRegistryFile \cup seen)
        PROVE  c \in StandCids \cup CidsIn(seen)
    <2>1. PICK e \in LoadRegistryFile \cup seen : e.id # NetId /\ c = e.cid
      BY DEF CidsIn
    <2>2. CASE e \in seen
      BY <2>1, <2>2 DEF CidsIn
    <2>3. CASE e \in LoadRegistryFile
      BY <2>1, <2>3 DEF LoadRegistryFile, StandCids
    <2> QED BY <2>1, <2>2, <2>3
  <1>3. CidsIn(seen) \subseteq CidsIn(LoadRegistryFile \cup seen)
    BY DEF CidsIn
  <1> QED BY <1>1, <1>2, <1>3

LEMMA SeenCids ==
  ASSUME NEW seen \in SUBSET [id : Ids, cid : Cids]
  PROVE  CidsIn(seen) \subseteq Cids
  BY DEF CidsIn

\* The next port is one of the stand's.
LEMMA NextPortIsStands ==
  ASSUME script.todo \in SUBSET StandCids, script.todo # {}
  PROVE  NextPort \in script.todo /\ NextPort \in Cids
  <1>1. script.todo \in SUBSET Nat
    BY StandIsCids, CidAssumption
  <1>2. LowestOf(script.todo) \in script.todo
    BY <1>1, LowestIsMember
  <1>3. NextPort = LowestOf(script.todo)
    BY DEF NextPort, Min, LowestOf
  <1> QED BY <1>2, <1>3, StandIsCids

-----------------------------------------------------------------------------
LEMMA InitNet == Init => NetInvariant
  <1> SUFFICES ASSUME Init PROVE NetInvariant
    OBVIOUS
  <1>1. store \in Stores
    BY DEF Init, Stores, SpaceConfig, CleanShutdown
  <1>2. DaemonInvariant
    BY <1>1 DEF Init, DaemonInvariant, NoOp
  <1>3. ScriptInvariant
    BY DEF Init, ScriptInvariant, Idle
  <1>4. TapInvariant /\ RestInvariant /\ PortsAreNotShared
    BY DEF Init, TapInvariant, RestInvariant, PortsAreNotShared, TapStates
  <1>5. TableInvariant
    BY DEF Init, TableInvariant, RulesFollowStore
  <1> QED BY <1>2, <1>3, <1>4, <1>5 DEF NetInvariant

(* The daemon's own state: one step per handler. *)

LEMMA OpFields ==
  ASSUME NEW place, NEW i, Goto(place, i)
  PROVE  op' = [at |-> place, id |-> i] /\ op'.at = place /\ op'.id = i
  BY DEF Goto

LEMMA DoneFields == ASSUME Done PROVE op' = NoOp /\ op'.at = "idle" /\ NoOp.id = NoId
  BY DEF Done, NoOp

LEMMA NextDaemon ==
  ASSUME DaemonInvariant, Next
  PROVE  DaemonInvariant'
  <1> USE DEF DaemonInvariant
  <1>1. CASE UNCHANGED <<store, run, op>>
    BY <1>1
  <1>2. ASSUME NEW i \in Ids, Create(i) PROVE DaemonInvariant'
    <2>1. PICK d \in Digests : store' = [store EXCEPT ![i] = NewSpace(store, There, d, FALSE)]
      BY <1>2 DEF Create
    <2>2. NewSpace(store, There, d, FALSE) \in SpaceConfig
      BY <1>2, NewSpaceIsFree DEF Create
    <2>3. store' \in Stores /\ \A j \in Stored(store) : store'[j] = store[j] \/ j = i
      BY <2>1, <2>2 DEF Stores, Stored
    <2>4. run' = run /\ i \notin Stored(store) /\ op'.at = "refresh" /\ op'.id = i
          /\ op' = [at |-> "refresh", id |-> i]
      BY <1>2, StoredCid, OpFields DEF Create
    <2>5. Stored(store) \subseteq Stored(store')
      BY <2>3, <2>4 DEF Stored
    <2> QED BY <2>3, <2>4, <2>5
  <1>3. ASSUME NEW i \in Ids, Destroy(i) PROVE DaemonInvariant'
    <2>1. /\ store' = store /\ run' = run /\ i \in Stored(store) /\ i \notin run
          /\ op' = [at |-> "remove", id |-> i] /\ op'.at = "remove" /\ op'.id = i
      BY <1>3, StoredCid, OpFields DEF Destroy
    <2> QED BY <2>1
  <1>4. CASE RemoveSpace
    <2>1. /\ store' = [store EXCEPT ![op.id] = NoSpace] /\ run' = run /\ op.id \in Ids
          /\ op.id \notin run
          /\ op' = [at |-> "refresh", id |-> op.id] /\ op'.at = "refresh" /\ op'.id = op.id
      BY <1>4, OpFields DEF RemoveSpace
    <2>2. store' \in Stores /\ \A j \in Ids : j # op.id => store'[j] = store[j]
      BY <2>1 DEF Stores
    <2>3. run' \subseteq Stored(store')
      BY <2>1, <2>2 DEF Stored
    <2> QED BY <2>1, <2>2, <2>3
  <1>5. CASE Refresh
    BY <1>5, DoneFields DEF Refresh, NoOp
  <1>6. ASSUME NEW i \in Ids, Start(i) PROVE DaemonInvariant'
    <2>1. /\ store' = store /\ run' = run /\ i \in Stored(store)
          /\ op' = [at |-> "attach", id |-> i] /\ op'.at = "attach" /\ op'.id = i
      BY <1>6, StoredCid, OpFields DEF Start
    <2> QED BY <2>1
  <1>7. CASE CreateTap
    <2>1. store' = store /\ op.at \in {"attach", "isolate"}
          /\ op.id \in Stored(store) /\ op.id \in Ids
      BY <1>7 DEF CreateTap
    <2>2. CASE op' = [at |-> "isolate", id |-> op.id] /\ run' = run
      BY <2>1, <2>2
    <2>3. CASE op' = NoOp /\ run' \in {run, run \cup {op.id}}
      BY <2>1, <2>3 DEF NoOp
    <2> QED BY <1>7, <2>2, <2>3 DEF CreateTap, Goto, Done
  <1>8. ASSUME NEW i \in Ids, Stop(i) \/ QemuDies(i) PROVE DaemonInvariant'
    <2>1. store' = store /\ op' = op /\ run' \subseteq run
      BY <1>8 DEF Stop, QemuDies
    <2> QED BY <2>1
  <1>9. CASE \/ UpRead \/ UpBridges \/ UpAdd \/ UpMaster \/ UpIsolate \/ UpApply
             \/ DownStarts \/ DownPort \/ DownRead \/ DownApply \/ DownDeletes
             \/ DownBridges \/ ScriptEnds \/ NetStarts \/ NetDies
    BY <1>1, <1>9 DEF UpRead, UpBridges, UpAdd, UpMaster, UpIsolate, UpApply, DownStarts,
                      DownPort, DownRead, DownApply, DownDeletes, DownBridges, ScriptEnds,
                      NetStarts, NetDies
  <1> QED BY <1>2, <1>3, <1>4, <1>5, <1>6, <1>7, <1>8, <1>9 DEF Next

(* The script. *)

LEMMA NextScript ==
  ASSUME DaemonInvariant, ScriptInvariant, Next
  PROVE  ScriptInvariant'
  <1> USE DEF ScriptInvariant
  <1>1. CASE UNCHANGED script
    BY <1>1
  <1>2. CASE UpRead
    <2> DEFINE seen == EntriesFromStateDir(store)
    <2>1. /\ ~\E x, y \in LoadRegistryFile \cup seen : Conflict(x, y)
          /\ script' = [at |-> "bridges", seen |-> seen,
                        merged |-> LoadRegistryFile \cup seen, todo |-> StandCids]
      BY <1>2 DEF UpRead, MergeEntries
    <2>2. seen \in SUBSET [id : Ids, cid : Cids]
      BY StoredCids DEF DaemonInvariant
    <2>3. LoadRegistryFile \subseteq Entries
      BY NetworkAssumption DEF LoadRegistryFile, Entries
    <2>4. seen \subseteq Entries
      BY <2>2 DEF Entries
    <2> HIDE DEF seen
    <2> QED BY <2>1, <2>2, <2>3, <2>4
  <1>3. CASE UpBridges
    BY <1>3 DEF UpBridges, At
  <1>4. CASE UpAdd \/ UpMaster
    BY <1>4 DEF UpAdd, UpMaster, At
  <1>5. CASE UpIsolate
    BY <1>5 DEF UpIsolate, At
  <1>6. CASE UpApply \/ DownBridges \/ ScriptEnds
    <2>1. script' = Idle
      BY <1>6 DEF UpApply, DownBridges, ScriptEnds
    <2> QED BY <2>1 DEF Idle
  <1>7. CASE DownStarts
    BY <1>7 DEF DownStarts, Idle
  <1>8. CASE DownPort
    BY <1>8 DEF DownPort, At
  <1>9. CASE DownRead
    <2>1. EntriesFromStateDir(store) \in SUBSET [id : Ids, cid : Cids]
      BY StoredCids DEF DaemonInvariant
    <2> QED BY <1>9, <2>1 DEF DownRead, At
  <1>10. CASE DownApply \/ DownDeletes
    BY <1>10 DEF DownApply, DownDeletes, At
  <1>11. CASE NetStarts \/ NetDies \/ RemoveSpace \/ Refresh \/ CreateTap
    BY <1>1, <1>11 DEF NetStarts, NetDies, RemoveSpace, Refresh, CreateTap
  <1>12. CASE \E i \in Ids : Create(i) \/ Destroy(i) \/ Start(i) \/ Stop(i) \/ QemuDies(i)
    BY <1>1, <1>12 DEF Create, Destroy, Start, Stop, QemuDies
  <1> QED BY <1>2, <1>3, <1>4, <1>5, <1>6, <1>7, <1>8, <1>9, <1>10, <1>11, <1>12 DEF Next


(* The taps. *)

\* There after a step that sets the tap c to state, or deletes it.
LEMMA SetOneTap ==
  ASSUME taps \in [Cids -> TapStates], NEW c \in Cids, NEW state \in TapStates,
         taps' = [taps EXCEPT ![c] = state]
  PROVE  /\ taps' \in [Cids -> TapStates]
         /\ There \ {c} \subseteq There'
         /\ state # "none" => There' = There \cup {c}
  BY DEF There

LEMMA NextTaps ==
  ASSUME DaemonInvariant, ScriptInvariant, TapInvariant, Next
  PROVE  TapInvariant'
  <1> USE DEF TapInvariant
  <1>1. CASE taps' = taps /\ raised' = raised
    BY <1>1 DEF There
  <1>2. ASSUME NEW c \in Cids, DeleteTap(c) PROVE TapInvariant'
    <2>1. taps' = [taps EXCEPT ![c] = "none"] /\ raised' = raised \ {c} /\ "none" \in TapStates
      BY <1>2 DEF DeleteTap, TapStates
    <2> QED BY <2>1, SetOneTap
  <1>3. ASSUME NEW c \in Cids, NEW state \in TapStates \ {"none"},
               taps' = [taps EXCEPT ![c] = state], raised' \subseteq raised \cup {c}
        PROVE  TapInvariant'
    <2>1. state \in TapStates /\ state # "none"
      OBVIOUS
    <2>2. taps' \in [Cids -> TapStates] /\ There' = There \cup {c}
      BY <1>3, <2>1, SetOneTap
    <2> QED BY <1>3, <2>2
  <1>4. "bare" \in TapStates \ {"none"} /\ "open" \in TapStates \ {"none"}
        /\ "isolated" \in TapStates \ {"none"}
    BY DEF TapStates
  <1>5. ASSUME NEW i \in Ids, Destroy(i) \/ Stop(i) PROVE TapInvariant'
    <2>1. store[i].cid \in Cids
      BY <1>5, StoredCid DEF Destroy, Stop, DaemonInvariant
    <2> QED BY <1>2, <1>5, <2>1 DEF Destroy, Stop
  <1>6. ASSUME NEW i \in Ids, Start(i) PROVE TapInvariant'
    <2>1. store[i].cid \in Cids
      BY <1>6, StoredCid DEF Start, DaemonInvariant
    <2> QED BY <1>3, <1>4, <1>6, <2>1 DEF Start
  <1>7. CASE CreateTap
    <2> DEFINE c == store[op.id].cid
    <2>1. op.at \in {"attach", "isolate"} /\ op.id \in Ids /\ op.id \in Stored(store)
      BY <1>7 DEF CreateTap, DaemonInvariant
    <2>2. c \in Cids
      BY <2>1, StoredCid DEF DaemonInvariant
    <2>3. \/ taps' = taps /\ raised' = raised
          \/ c \in There /\ SetTap(c, IF taps[c] = "bare" THEN "open" ELSE taps[c])
          \/ SetTap(c, "isolated")
      BY <1>7 DEF CreateTap
    <2> HIDE DEF c
    <2>4. c \in There => (IF taps[c] = "bare" THEN "open" ELSE taps[c]) \in TapStates \ {"none"}
      BY <1>4, <2>2 DEF There
    <2> QED BY <1>1, <1>3, <1>4, <2>2, <2>3, <2>4 DEF SetTap
  <1>8. CASE UpAdd \/ UpMaster
    <2>1. NextPort \in Cids
      BY <1>8, NextPortIsStands DEF UpAdd, UpMaster, At, ScriptInvariant
    <2>2. PICK state \in {"bare", "open", taps[NextPort]} :
            taps' = [taps EXCEPT ![NextPort] = state] /\ state # "none"
      BY <1>8, <2>1 DEF UpAdd, UpMaster, SetTap, There
    <2>3. raised' \subseteq raised \cup {NextPort}
      BY <1>8 DEF UpAdd, UpMaster, SetTap
    <2>4. state \in TapStates \ {"none"}
      BY <1>4, <2>1, <2>2
    <2> QED BY <1>3, <2>1, <2>2, <2>3, <2>4
  <1>9. CASE UpIsolate
    <2>1. NextPort \in Cids
      BY <1>9, NextPortIsStands DEF UpIsolate, At, ScriptInvariant
    <2> QED BY <1>3, <1>4, <1>9, <2>1 DEF UpIsolate, SetTap
  <1>10. CASE DownPort
    <2>1. NextPort \in Cids
      BY <1>10, NextPortIsStands DEF DownPort, ScriptInvariant
    <2> QED BY <1>2, <1>10, <2>1 DEF DownPort
  <1>11. CASE DownBridges
    BY <1>11 DEF DownBridges, There, TapStates
  <1>12. CASE \/ RemoveSpace \/ Refresh \/ UpRead \/ UpBridges \/ UpApply \/ DownStarts
              \/ DownRead \/ DownApply \/ DownDeletes \/ ScriptEnds \/ NetStarts \/ NetDies
    BY <1>1, <1>12 DEF RemoveSpace, Refresh, UpRead, UpBridges, UpApply, DownStarts, DownRead,
                       DownApply, DownDeletes, ScriptEnds, NetStarts, NetDies, host
  <1>13. CASE \E i \in Ids : Create(i) \/ QemuDies(i)
    BY <1>1, <1>13 DEF Create, QemuDies, host
  <1> QED BY <1>5, <1>6, <1>7, <1>8, <1>9, <1>10, <1>11, <1>12, <1>13 DEF Next

(* The table. *)

LEMMA NextTable ==
  ASSUME DaemonInvariant, ScriptInvariant, TableInvariant, Next
  PROVE  TableInvariant'
  <1> USE DEF TableInvariant
  <1>1. ASSUME UNCHANGED <<rules, current, store>>, op.at # "refresh" \/ op'.at = "refresh"
        PROVE  TableInvariant'
    BY <1>1 DEF RulesFollowStore
  <1>2. ASSUME UNCHANGED <<rules, current>>, op'.at = "refresh" PROVE TableInvariant'
    BY <1>2 DEF RulesFollowStore
  <1>3. CASE Refresh
    <2>1. /\ rules' = [there |-> TRUE, admits |-> CidsOf(store)] /\ current' = TRUE
          /\ store' = store /\ CidsOf(store) \subseteq Cids
      BY <1>3, StoredCids DEF Refresh, RenderNft, DaemonInvariant
    <2>2. rules'.there = TRUE /\ rules'.admits = CidsOf(store)
          /\ rules' \in [there : BOOLEAN, admits : SUBSET Cids]
      BY <2>1
    <2> QED BY <2>1, <2>2 DEF RulesFollowStore
  <1>4. ASSUME NEW seen \in SUBSET [id : Ids, cid : Cids], NEW cids \in SUBSET Cids,
               CidsIn(seen) \subseteq cids, cids \subseteq CidsIn(seen) \cup StandCids,
               rules' = [there |-> TRUE, admits |-> cids],
               current' = (seen = EntriesFromStateDir(store)), store' = store
        PROVE  TableInvariant'
    <2>1. rules'.there = TRUE /\ rules'.admits = cids
          /\ rules' \in [there : BOOLEAN, admits : SUBSET Cids] /\ current' \in BOOLEAN
      BY <1>4
    <2>2. current' => CidsIn(seen) = CidsOf(store)
      BY <1>4, StoredCids DEF DaemonInvariant
    <2> QED BY <1>4, <2>1, <2>2 DEF RulesFollowStore
  <1>5. CASE UpApply
    <2> DEFINE seen == script.seen
    <2>1. script.merged = LoadRegistryFile \cup seen /\ seen \in SUBSET [id : Ids, cid : Cids]
      BY <1>5 DEF UpApply, At, ScriptInvariant
    <2>2. CidsIn(script.merged) = StandCids \cup CidsIn(seen)
      BY <2>1, MergedCids
    <2>3. CidsIn(script.merged) \in SUBSET Cids
      BY <2>1, <2>2, SeenCids, StandIsCids
    <2>4. /\ rules' = [there |-> TRUE, admits |-> CidsIn(script.merged)] /\ store' = store
          /\ current' = (seen = EntriesFromStateDir(store))
      BY <1>5 DEF UpApply, UpToDate
    <2> HIDE DEF seen
    <2> QED BY <1>4, <2>1, <2>2, <2>3, <2>4
  <1>6. CASE DownApply
    <2>1. script.seen \in SUBSET [id : Ids, cid : Cids]
      BY DEF ScriptInvariant
    <2>2. CidsIn(script.seen) \in SUBSET Cids
      BY <2>1, SeenCids
    <2>3. /\ rules' = [there |-> TRUE, admits |-> CidsIn(script.seen)] /\ store' = store
          /\ current' = (script.seen = EntriesFromStateDir(store))
      BY <1>6 DEF DownApply, UpToDate
    <2> QED BY <1>4, <2>1, <2>2, <2>3
  <1>7. CASE RemoveSpace
    BY <1>2, <1>7, OpFields DEF RemoveSpace, host
  <1>8. ASSUME NEW i \in Ids, Create(i) PROVE TableInvariant'
    BY <1>2, <1>8, OpFields DEF Create, host
  <1>9. ASSUME NEW i \in Ids, Destroy(i) \/ Start(i) \/ Stop(i) \/ QemuDies(i)
        PROVE  TableInvariant'
    <2>1. op = NoOp => op.at # "refresh"
      BY DEF NoOp
    <2> QED BY <1>1, <1>9, <2>1 DEF Destroy, Start, Stop, QemuDies, host
  <1>10. CASE CreateTap
    <2>1. op.at # "refresh"
      BY <1>10 DEF CreateTap
    <2> QED BY <1>1, <1>10, <2>1 DEF CreateTap
  <1>11. CASE \/ UpRead \/ UpBridges \/ UpAdd \/ UpMaster \/ UpIsolate \/ DownStarts
              \/ DownPort \/ DownRead \/ DownBridges \/ ScriptEnds \/ NetStarts \/ NetDies
    BY <1>1, <1>11 DEF UpRead, UpBridges, UpAdd, UpMaster, UpIsolate, DownStarts, DownPort,
                       DownRead, DownBridges, ScriptEnds, NetStarts, NetDies, host
  <1>12. CASE DownDeletes
    BY <1>12 DEF DownDeletes, RulesFollowStore
  <1> QED BY <1>3, <1>5, <1>6, <1>7, <1>8, <1>9, <1>10, <1>11, <1>12 DEF Next


(* The ports of the stand. *)

LEMMA NextPorts ==
  ASSUME DaemonInvariant, ScriptInvariant, TapInvariant, PortsAreNotShared, Next
  PROVE  PortsAreNotShared'
  <1> USE DEF PortsAreNotShared
  <1>1. ASSUME store' = store, raised' \subseteq raised PROVE PortsAreNotShared'
    BY <1>1
  <1>2. ASSUME NEW i \in Ids, Create(i) PROVE PortsAreNotShared'
    <2>1. PICK d \in Digests : store' = [store EXCEPT ![i] = NewSpace(store, There, d, FALSE)]
      BY <1>2 DEF Create
    <2>2. NewSpace(store, There, d, FALSE).cid \in FreeCids(store, There)
      BY <1>2, NewSpaceIsFree DEF Create
    <2>3. NewSpace(store, There, d, FALSE).cid \notin raised
      BY <2>2 DEF FreeCids, TapInvariant
    <2>4. raised' = raised
      BY <1>2 DEF Create, host
    <2>5. /\ store'[i].cid \notin raised
          /\ \A j \in Ids \ {i} : store'[j] = store[j]
      BY <2>1, <2>3 DEF DaemonInvariant, Stores
    <2> QED BY <2>4, <2>5 DEF Stored
  <1>3. CASE RemoveSpace
    <2>1. store' = [store EXCEPT ![op.id] = NoSpace] /\ op.id \in Ids /\ raised' = raised
      BY <1>3 DEF RemoveSpace, DaemonInvariant, host
    <2>2. /\ store'[op.id] = NoSpace /\ NoSpace.cid = NoCid
          /\ \A j \in Ids \ {op.id} : store'[j] = store[j]
      BY <2>1 DEF DaemonInvariant, Stores, NoSpace
    <2> QED BY <2>1, <2>2 DEF Stored
  <1>4. CASE UpAdd
    <2>1. store' = store
      BY <1>4 DEF UpAdd
    <2>2. CASE raised' = raised
      BY <1>1, <2>1, <2>2
    <2>3. CASE ~Overtaken /\ raised' = raised \cup {NextPort}
      <3>1. /\ script.merged = LoadRegistryFile \cup script.seen
            /\ ~\E x, y \in script.merged : Conflict(x, y)
        BY <1>4 DEF UpAdd, At, ScriptInvariant
      <3>2. ASSUME NEW s \in StandIds, Stand[s] = NextPort,
                   NEW i \in Stored(store), store[i].cid = Stand[s]
            PROVE  i = s
        <4> DEFINE x == [id |-> s, cid |-> Stand[s]]
                   y == [id |-> i, cid |-> NextPort]
        <4>1. y \in script.seen
          BY <2>3, <3>2 DEF Overtaken
        <4>2. x \in script.merged /\ y \in script.merged
          BY <3>1, <4>1 DEF LoadRegistryFile
        <4>3. x.cid = y.cid /\ x.id = s /\ y.id = i
          BY <3>2
        <4> HIDE DEF x, y
        <4>4. x = y
          BY <3>1, <4>2, <4>3 DEF Conflict
        <4> QED BY <4>3, <4>4
      <3> QED BY <2>1, <2>3, <3>2
    <2> QED BY <1>4, <2>2, <2>3 DEF UpAdd
  <1>5. ASSUME NEW i \in Ids, Destroy(i) \/ Start(i) \/ Stop(i) \/ QemuDies(i)
        PROVE  PortsAreNotShared'
    BY <1>1, <1>5 DEF Destroy, Start, Stop, QemuDies, DeleteTap, host
  <1>6. CASE CreateTap
    <2>1. store' = store /\ raised' = raised
      BY <1>6 DEF CreateTap, SetTap
    <2> QED BY <1>1, <2>1
  <1>7. CASE UpMaster \/ UpIsolate \/ DownPort
    BY <1>1, <1>7 DEF UpMaster, UpIsolate, DownPort, SetTap, DeleteTap
  <1>8. CASE \/ Refresh \/ UpRead \/ UpBridges \/ UpApply \/ DownStarts \/ DownRead
             \/ DownApply \/ DownDeletes \/ DownBridges \/ ScriptEnds \/ NetStarts
             \/ NetDies
    BY <1>1, <1>8 DEF Refresh, UpRead, UpBridges, UpApply, DownStarts, DownRead, DownApply,
                      DownDeletes, DownBridges, ScriptEnds, NetStarts, NetDies, host
  <1> QED BY <1>2, <1>3, <1>4, <1>5, <1>6, <1>7, <1>8 DEF Next

LEMMA NextRest == ASSUME RestInvariant, Next PROVE RestInvariant'
  <1>1. CASE NetStarts \/ NetDies
    BY <1>1 DEF RestInvariant, NetStarts, NetDies, host
  <1>2. CASE UpBridges \/ DownBridges
    BY <1>2 DEF RestInvariant, UpBridges, DownBridges
  <1>3. CASE \/ Refresh \/ RemoveSpace \/ CreateTap \/ UpRead \/ UpAdd \/ UpMaster
             \/ UpIsolate \/ UpApply \/ DownStarts \/ DownPort \/ DownRead \/ DownApply
             \/ DownDeletes \/ ScriptEnds
    BY <1>3 DEF RestInvariant, Refresh, RemoveSpace, CreateTap, UpRead, UpAdd, UpMaster,
                UpIsolate, UpApply, DownStarts, DownPort, DownRead, DownApply, DownDeletes,
                ScriptEnds, host
  <1>4. ASSUME NEW i \in Ids, Create(i) \/ Destroy(i) \/ Start(i) \/ Stop(i) \/ QemuDies(i)
        PROVE  RestInvariant'
    BY <1>4 DEF RestInvariant, Create, Destroy, Start, Stop, QemuDies, host
  <1> QED BY <1>1, <1>2, <1>3, <1>4 DEF Next

LEMMA NetAlways == Spec => []NetInvariant
  <1>1. NetInvariant /\ Next => NetInvariant'
    BY NextDaemon, NextScript, NextTaps, NextTable, NextPorts, NextRest DEF NetInvariant
  <1>2. NetInvariant /\ UNCHANGED vars => NetInvariant'
    <2> SUFFICES ASSUME NetInvariant, UNCHANGED vars PROVE NetInvariant'
      OBVIOUS
    <2>1. /\ store' = store /\ run' = run /\ op' = op /\ bridge' = bridge /\ taps' = taps
          /\ rules' = rules /\ script' = script /\ net' = net /\ raised' = raised
          /\ current' = current
      BY DEF vars
    <2> QED BY <2>1 DEF NetInvariant, DaemonInvariant, ScriptInvariant, TapInvariant, There,
                        TableInvariant, RulesFollowStore, RestInvariant, PortsAreNotShared
  <1> QED BY <1>1, <1>2, InitNet, PTL DEF Spec

\* The type invariant of the network: only stored spaces run, and the registry a
\* script works with names no CID and no id twice.
THEOREM NetTypeCorrect == Spec => []TypeOK
  <1>1. NetInvariant => TypeOK
    <2> SUFFICES ASSUME NetInvariant PROVE TypeOK
      OBVIOUS
    <2>1. script.seen \subseteq Entries
      BY DEF NetInvariant, ScriptInvariant, Entries
    <2>2. script.todo \subseteq Cids
      BY StandIsCids DEF NetInvariant, ScriptInvariant
    <2>3. script \in [at : {"idle", "bridges", "ports", "master", "isolate", "unport",
                           "apply", "unbridge"},
                     seen : SUBSET Entries, merged : SUBSET Entries, todo : SUBSET Cids]
      BY <2>1, <2>2 DEF NetInvariant, ScriptInvariant
    <2>4. raised \subseteq Cids
      BY DEF NetInvariant, TapInvariant, There
    <2> QED BY <2>3, <2>4 DEF TypeOK, NetInvariant, DaemonInvariant, ScriptInvariant,
                              TapInvariant, TableInvariant, RestInvariant
  <1> QED BY <1>1, NetAlways, PTL

\* The table of bridge rules fits the store whenever the store it was rendered
\* from was still the store when it was applied, whether the daemon's refresh,
\* the script's up or its down came last (net.rs refresh, net-fixture.sh).
THEOREM RulesFollowStoreTheorem == Spec => []RulesFollowStore
  <1>1. NetInvariant => RulesFollowStore
    BY DEF NetInvariant, TableInvariant
  <1> QED BY <1>1, NetAlways, PTL

\* A port that the script added for the stand belongs to no other space, unless
\* the space was created after the script had read the store and before it added
\* the port: merge_entries refuses what was there before, allocate_cid passes over
\* what was added (main.rs merge_entries, store.rs allocate_cid).
THEOREM PortsAreNotSharedTheorem == Spec => []PortsAreNotShared
  <1>1. NetInvariant => PortsAreNotShared
    BY DEF NetInvariant
  <1> QED BY <1>1, NetAlways, PTL

-----------------------------------------------------------------------------
(* What net-status answers. *)

\* No tap looks isolated that is not, and no part of the ruleset passes for the
\* whole, whatever nft answers (net.rs parse_isolated_flag, ruleset_from_output,
\* view.rs the network page).
THEOREM PageNeverFlattersTheorem == Spec => []PageNeverFlatters
  <1>1. NetInvariant => PageNeverFlatters
    <2> SUFFICES ASSUME NetInvariant, NEW ok \in BOOLEAN
                 PROVE  LET page == NetView(NetStatus(ok, <<>>))
                        IN /\ \A c \in page.isolated : taps[c] = "isolated"
                           /\ page.note = "none" => ok /\ page.shown = RulesetLength
      BY DEF PageNeverFlatters
    <2> DEFINE status == NetStatus(ok, <<>>)
               page == NetView(status)
               len == IF ok THEN RulesetLength ELSE 1
               r == RulesetFromOutput(ok, len)
    <2>1. status.taps = ListSpaceTaps /\ status.ruleset = r
      BY DEF NetStatus, NftRuleset
    <2>2. /\ page.isolated = {c \in DOMAIN status.taps : status.taps[c] = "yes"}
          /\ page.shown = status.ruleset.shown /\ page.note = RulesetNote(status.ruleset)
      BY DEF NetView
    <2>3. ASSUME NEW c \in page.isolated PROVE taps[c] = "isolated"
      <3>1. c \in There /\ ParseIsolatedFlag(taps[c]) = "yes"
        BY <2>1, <2>2, <2>3 DEF ListSpaceTaps
      <3>2. ASSUME NEW state, state # "isolated" PROVE ParseIsolatedFlag(state) # "yes"
        <4>1. CASE state = "open"
          BY <4>1, Zenon DEF ParseIsolatedFlag
        <4>2. CASE state # "open"
          BY <3>2, <4>2, Zenon DEF ParseIsolatedFlag
        <4> QED BY <4>1, <4>2
      <3> QED BY <3>1, <3>2
    <2>4. ASSUME page.note = "none" PROVE ok /\ page.shown = RulesetLength
      <3>1. r.available = ok /\ r.truncated = (len > RulesetMax)
            /\ r.shown = IF len > RulesetMax THEN RulesetMax ELSE len
        BY DEF RulesetFromOutput
      <3>2. RulesetNote(r) = "none"
        BY <2>1, <2>2, <2>4
      <3> HIDE DEF r, len
      <3>3. r.available
        <4> SUFFICES ASSUME ~r.available PROVE FALSE
          OBVIOUS
        <4>1. RulesetNote(r) = "unavailable"
          BY Zenon DEF RulesetNote
        <4> QED BY <3>2, <4>1
      <3>4. ~r.truncated
        <4> SUFFICES ASSUME r.truncated PROVE FALSE
          OBVIOUS
        <4>1. RulesetNote(r) = "truncated"
          BY <3>3, Zenon DEF RulesetNote
        <4> QED BY <3>2, <4>1
      <3>5. ok /\ r.shown = len
        BY <3>1, <3>3, <3>4
      <3> QED BY <2>1, <2>2, <3>5 DEF len
    <2> QED BY <2>3, <2>4
  <1> QED BY <1>1, NetAlways, PTL

(* The tunnel: what parse_last_tunnel_block makes of a console. *)

LEMMA GreatestIs ==
  ASSUME NEW S, NEW x \in S, S \subseteq Int, \A y \in S : y <= x
  PROVE  Max(S) = x
  <1>1. \E z \in S : \A y \in S : z >= y
    BY SMT
  <1>2. Max(S) \in S /\ \A y \in S : Max(S) >= y
    BY <1>1, Zenon DEF Max
  <1> DEFINE g == Max(S)
  <1> HIDE DEF g
  <1>3. g \in Int /\ x \in Int /\ g >= x /\ g <= x
    BY <1>2 DEF g
  <1>4. g = x
    BY <1>3
  <1> QED BY <1>4 DEF g

LEMMA LeastIs ==
  ASSUME NEW S, NEW x \in S, S \subseteq Int, \A y \in S : x <= y
  PROVE  Min(S) = x
  <1>1. Min(S) \in S /\ \A y \in S : Min(S) <= y
    BY Zenon DEF Min
  <1> DEFINE g == Min(S)
  <1> HIDE DEF g
  <1>2. g \in Int /\ x \in Int /\ g <= x /\ x <= g
    BY <1>1 DEF g
  <1>3. g = x
    BY <1>2
  <1> QED BY <1>3 DEF g

\* The lines of a console.
Lines == [kind : {"begin", "ifc", "set", "route", "end", "other"}, boot : 0..1]

Whole(boot) == [ifc |-> boot, set |-> boot, route |-> boot]

\* The lines of a boot's report stand at p..p+4 and no report begins or ends later.
LEMMA BlockFound ==
  ASSUME NEW s, NEW len \in Nat, DOMAIN s = 1..len, NEW b \in 0..1,
         NEW p \in 1..len, p + 4 <= len,
         \A k \in p..(p + 4) : s[k] = [kind |-> Report[k - p + 1], boot |-> b],
         \A k \in (p + 5)..len : s[k].kind = "other"
  PROVE  ParseLastTunnelBlock(s) = Whole(b)
  <1>1. /\ s[p].kind = "begin" /\ s[p + 1].kind = "ifc" /\ s[p + 2].kind = "set"
        /\ s[p + 3].kind = "route" /\ s[p + 4].kind = "end"
        /\ \A k \in p..(p + 4) : s[k].boot = b
    <2>1. /\ p \in p..(p + 4) /\ p + 1 \in p..(p + 4) /\ p + 2 \in p..(p + 4)
          /\ p + 3 \in p..(p + 4) /\ p + 4 \in p..(p + 4)
      OBVIOUS
    <2>2. ASSUME NEW k \in p..(p + 4)
          PROVE  s[k].kind = Report[k - p + 1] /\ s[k].boot = b
      <3>1. s[k] = [kind |-> Report[k - p + 1], boot |-> b]
        OBVIOUS
      <3> QED BY <3>1
    <2>3. /\ p - p + 1 = 1 /\ (p + 1) - p + 1 = 2 /\ (p + 2) - p + 1 = 3
          /\ (p + 3) - p + 1 = 4 /\ (p + 4) - p + 1 = 5
      OBVIOUS
    <2>4. /\ s[p].kind = Report[1] /\ s[p + 1].kind = Report[2] /\ s[p + 2].kind = Report[3]
          /\ s[p + 3].kind = Report[4] /\ s[p + 4].kind = Report[5]
      BY <2>1, <2>2, <2>3
    <2> QED BY <2>2, <2>4 DEF Report
  <1>2. \A k \in (p + 5)..len : s[k].kind = "other"
    OBVIOUS
  <1>3. p \in Of(s, "begin") /\ \A k \in Of(s, "begin") : k <= p
    BY <1>1, <1>2 DEF Of
  <1>4. Max(Of(s, "begin")) = p
    <2>1. Of(s, "begin") \subseteq Int
      BY DEF Of
    <2> QED BY <1>3, <2>1, GreatestIs
  <1> DEFINE ends == {k \in Of(s, "end") : k > p}
  <1>5. ends = {p + 4}
    BY <1>1, <1>2 DEF Of
  <1>6. Min(ends) = p + 4
    <2>1. p + 4 \in {p + 4} /\ {p + 4} \subseteq Int /\ \A y \in {p + 4} : p + 4 <= y
      OBVIOUS
    <2>2. Min({p + 4}) = p + 4
      BY <2>1, LeastIs
    <2> QED BY <1>5, <2>2
  <1> DEFINE body == p..(p + 4)
  <1>7. ASSUME NEW kind, NEW q \in body, Of(s, kind) \cap body = {q}
        PROVE  s[Max(Of(s, kind) \cap body)].boot = b
    <2>1. Max({q}) = q
      BY GreatestIs
    <2> QED BY <1>1, <1>7, <2>1
  <1>8. /\ Of(s, "ifc") \cap body = {p + 1} /\ Of(s, "set") \cap body = {p + 2}
        /\ Of(s, "route") \cap body = {p + 3}
    <2>1. PICK q : q = p + 1
      OBVIOUS
    <2>2. PICK r : r = p + 2
      OBVIOUS
    <2>3. PICK x : x = p + 3
      OBVIOUS
    <2>4. PICK y : y = p + 4
      OBVIOUS
    <2>5. /\ s[p].kind = "begin" /\ s[q].kind = "ifc" /\ s[r].kind = "set"
          /\ s[x].kind = "route" /\ s[y].kind = "end"
      BY <1>1, <2>1, <2>2, <2>3, <2>4
    <2>6. body = {p, q, r, x, y}
      BY <2>1, <2>2, <2>3, <2>4
    <2>7. \A kind : Of(s, kind) \cap body = {k \in body : s[k].kind = kind}
      BY DEF Of
    <2> HIDE DEF body
    <2>8. {k \in body : s[k].kind = "ifc"} = {q}
      BY <2>5, <2>6, Zenon
    <2>9. {k \in body : s[k].kind = "set"} = {r}
      BY <2>5, <2>6, Zenon
    <2>10. {k \in body : s[k].kind = "route"} = {x}
      BY <2>5, <2>6, Zenon
    <2> QED BY <2>1, <2>2, <2>3, <2>7, <2>8, <2>9, <2>10, Zenon
  <1>9. FieldsOf(s, body) = Whole(b)
    <2> DEFINE value(kind) == IF Of(s, kind) \cap body = {} THEN 2
                              ELSE s[Max(Of(s, kind) \cap body)].boot
               t == [ifc |-> value("ifc"), set |-> value("set"), route |-> value("route")]
    <2> HIDE DEF body
    <2>1. value("ifc") = b
      <3>1. p + 1 \in body
        BY DEF body
      <3> QED BY <1>7, <1>8, <3>1
    <2>2. value("set") = b
      <3>1. p + 2 \in body
        BY DEF body
      <3> QED BY <1>7, <1>8, <3>1
    <2>3. value("route") = b
      <3>1. p + 3 \in body
        BY DEF body
      <3> QED BY <1>7, <1>8, <3>1
    <2>4. FieldsOf(s, body) = IF 2 \in {t.ifc, t.set, t.route} THEN NoTunnel ELSE t
      BY DEF FieldsOf
    <2> HIDE DEF value
    <2>5. t = Whole(b) /\ t.ifc = b /\ t.set = b /\ t.route = b
      BY <2>1, <2>2, <2>3 DEF Whole
    <2> HIDE DEF t
    <2>6. b # 2
      OBVIOUS
    <2> QED BY <2>4, <2>5, <2>6
  <1>10. ParseLastTunnelBlock(s) = FieldsOf(s, p..Min(ends))
    BY <1>3, <1>4, <1>5 DEF ParseLastTunnelBlock
  <1> QED BY <1>6, <1>9, <1>10

\* There is no beginning of a report, or none ends after its last one.
LEMMA NoBlockFound ==
  ASSUME NEW s, NEW p, \A k \in Of(s, "begin") : k <= p, Of(s, "begin") \subseteq Int,
         Of(s, "begin") # {} => p \in Of(s, "begin"),
         \A k \in Of(s, "end") : ~(k > p)
  PROVE  ParseLastTunnelBlock(s) = NoTunnel
  <1>1. CASE Of(s, "begin") = {}
    BY <1>1 DEF ParseLastTunnelBlock
  <1>2. CASE p \in Of(s, "begin")
    <2>1. Max(Of(s, "begin")) = p
      BY <1>2, GreatestIs
    <2>2. {k \in Of(s, "end") : k > p} = {}
      OBVIOUS
    <2> QED BY <1>2, <2>1, <2>2 DEF ParseLastTunnelBlock
  <1> QED BY <1>1, <1>2

LEMMA ReportedLines ==
  ASSUME NEW b \in 0..1, NEW n \in 0..5
  PROVE  LET a == Reported(b, n)
         IN /\ a \in Seq(Lines) /\ Len(a) = n
            /\ \A k \in 1..n : a[k] = [kind |-> Report[k], boot |-> b]
  <1>1. ASSUME NEW k \in 1..n
        PROVE  Report[k] \in {"begin", "ifc", "set", "route", "end", "other"}
    <2>1. k \in {1, 2, 3, 4, 5}
      OBVIOUS
    <2> QED BY <2>1 DEF Report
  <1> DEFINE line(k) == [kind |-> Report[k], boot |-> b]
             a == [k \in 1..n |-> line(k)]
  <1>2. \A k \in 1..n : line(k) \in Lines
    BY <1>1 DEF Lines
  <1> HIDE DEF line
  <1>3. n \in Nat /\ a \in Seq(Lines) /\ Len(a) = n /\ \A k \in 1..n : a[k] = line(k)
    BY <1>2
  <1> QED BY <1>3 DEF line, Reported

LEMMA OtherLines ==
  ASSUME NEW t \in Nat
  PROVE  LET b == Others(t)
         IN /\ b \in Seq(Lines) /\ Len(b) = t
            /\ \A k \in 1..t : b[k].kind = "other"
  <1> DEFINE line == [kind |-> "other", boot |-> 0]
             b == [k \in 1..t |-> line]
  <1>1. line \in Lines /\ line.kind = "other"
    BY DEF Lines
  <1> HIDE DEF line
  <1>2. b \in Seq(Lines) /\ Len(b) = t /\ \A k \in 1..t : b[k] = line
    BY <1>1
  <1> QED BY <1>1, <1>2 DEF line, Others

\* What stands at each line of a console, and in the tail that is read of it.
LEMMA ConsoleLines ==
  ASSUME NEW m \in 0..5, NEW n \in 0..5, NEW t \in Nat, NEW u \in Nat
  PROVE  LET s == Console(m, t, n, u)
         IN /\ s \in Seq(Lines)
            /\ Len(s) = m + t + n + u
            /\ \A k \in 1..m : s[k] = [kind |-> Report[k], boot |-> 0]
            /\ \A k \in (m + 1)..(m + t) : s[k].kind = "other"
            /\ \A k \in (m + t + 1)..(m + t + n) :
                 s[k] = [kind |-> Report[k - m - t], boot |-> 1]
            /\ \A k \in (m + t + n + 1)..(m + t + n + u) : s[k].kind = "other"
  <1> DEFINE a == Reported(0, m)
             b == Others(t)
             c == Reported(1, n)
             d == Others(u)
             abc == a \o b \o c
             s == abc \o d
  <1>1. a \in Seq(Lines) /\ Len(a) = m /\ \A k \in 1..m : a[k] = [kind |-> Report[k], boot |-> 0]
    BY 0 \in 0..1, ReportedLines
  <1>2. c \in Seq(Lines) /\ Len(c) = n /\ \A k \in 1..n : c[k] = [kind |-> Report[k], boot |-> 1]
    BY 1 \in 0..1, ReportedLines
  <1>3. b \in Seq(Lines) /\ Len(b) = t /\ \A k \in 1..t : b[k].kind = "other"
    BY OtherLines
  <1>4. d \in Seq(Lines) /\ Len(d) = u /\ \A k \in 1..u : d[k].kind = "other"
    BY OtherLines
  <1> HIDE DEF a, b, c, d
  <1>5. (a \o b) \in Seq(Lines) /\ Len(a \o b) = m + t
    BY <1>1, <1>3
  <1>6. abc \in Seq(Lines) /\ Len(abc) = m + t + n
    BY <1>2, <1>5
  <1> HIDE DEF abc
  <1>7. s \in Seq(Lines) /\ Len(s) = m + t + n + u
    BY <1>4, <1>6
  <1>8. \A k \in 1..(m + t) : s[k] = (a \o b)[k]
    <2>1. \A k \in 1..(m + t) : abc[k] = (a \o b)[k]
      BY <1>2, <1>5 DEF abc
    <2>2. \A k \in 1..(m + t + n) : s[k] = abc[k]
      BY <1>4, <1>6
    <2>3. \A k \in 1..(m + t) : k \in 1..(m + t + n)
      OBVIOUS
    <2> QED BY <2>1, <2>2, <2>3, Zenon
  <1>9. \A k \in 1..m : s[k] = [kind |-> Report[k], boot |-> 0]
    <2> TAKE k \in 1..m
    <2>1. (a \o b)[k] = a[k]
      BY <1>1, <1>3
    <2>2. k \in 1..(m + t)
      OBVIOUS
    <2> QED BY <1>1, <1>8, <2>1, <2>2, Zenon
  <1>10. \A k \in (m + 1)..(m + t) : s[k].kind = "other"
    <2> TAKE k \in (m + 1)..(m + t)
    <2>1. (a \o b)[k] = b[k - m]
      <3>1. a \in Seq(Lines) /\ b \in Seq(Lines) /\ Len(a) = m /\ Len(b) = t
        BY <1>1, <1>3
      <3> QED BY <3>1
    <2>2. k - m \in 1..t /\ k \in 1..(m + t)
      OBVIOUS
    <2> QED BY <1>3, <1>8, <2>1, <2>2
  <1>11. \A k \in (m + t + 1)..(m + t + n) : s[k] = [kind |-> Report[k - m - t], boot |-> 1]
    <2> TAKE k \in (m + t + 1)..(m + t + n)
    <2>1. s[k] = abc[k]
      BY <1>4, <1>6
    <2>2. abc[k] = c[k - (m + t)]
      BY <1>2, <1>5 DEF abc
    <2>3. k - (m + t) = k - m - t /\ k - m - t \in 1..n
      OBVIOUS
    <2> QED BY <1>2, <2>1, <2>2, <2>3
  <1>12. \A k \in (m + t + n + 1)..(m + t + n + u) : s[k].kind = "other"
    <2> TAKE k \in (m + t + n + 1)..(m + t + n + u)
    <2>1. s[k] = d[k - (m + t + n)]
      BY <1>4, <1>6
    <2> QED BY <1>4, <2>1
  <1>13. s = Console(m, t, n, u)
    BY DEF Console, abc, a, b, c, d
  <1> HIDE DEF s
  <1> QED BY <1>7, <1>9, <1>10, <1>11, <1>12, <1>13

LEMMA TailLines ==
  ASSUME NEW Line, NEW s \in Seq(Line)
  PROVE  LET tail == ReadConsoleTail(s)
             cut  == Len(s) - Len(tail)
         IN /\ tail \in Seq(Line) /\ Len(tail) <= Len(s) /\ DOMAIN tail = 1..Len(tail)
            /\ Len(tail) = IF Len(s) > Window THEN Window ELSE Len(s)
            /\ \A k \in 1..Len(tail) : tail[k] = s[k + cut]
  <1>1. CASE Len(s) > Window
    <2>1. ReadConsoleTail(s) = SubSeq(s, Len(s) - Window + 1, Len(s))
      BY <1>1 DEF ReadConsoleTail
    <2> QED BY <1>1, <2>1, NetworkAssumption
  <1>2. CASE ~(Len(s) > Window)
    BY <1>2 DEF ReadConsoleTail
  <1> QED BY <1>1, <1>2

\* What net-status finds in a console of two boots.
LEMMA TunnelOfConsole ==
  ASSUME NEW m \in 0..5, NEW n \in 0..5, NEW t \in Nat, NEW u \in Nat
  PROVE  LET tunnel == ParseLastTunnelBlock(ReadConsoleTail(Console(m, t, n, u)))
         IN /\ tunnel # NoTunnel =>
                 IF n > 0 THEN n = 5 /\ tunnel = Whole(1) ELSE m = 5 /\ tunnel = Whole(0)
            /\ n = 5 /\ n + u <= Window => tunnel = Whole(1)
  <1> DEFINE s == Console(m, t, n, u)
             tail == ReadConsoleTail(s)
             len == Len(tail)
             cut == Len(s) - len
             tunnel == ParseLastTunnelBlock(tail)
  <1>1. /\ s \in Seq(Lines)
        /\ Len(s) = m + t + n + u
        /\ \A k \in 1..m : s[k] = [kind |-> Report[k], boot |-> 0]
        /\ \A k \in (m + 1)..(m + t) : s[k].kind = "other"
        /\ \A k \in (m + t + 1)..(m + t + n) : s[k] = [kind |-> Report[k - m - t], boot |-> 1]
        /\ \A k \in (m + t + n + 1)..(m + t + n + u) : s[k].kind = "other"
    BY ConsoleLines
  <1> HIDE DEF s
  <1>2. /\ tail \in Seq(Lines) /\ len <= Len(s) /\ DOMAIN tail = 1..len /\ len \in Nat
        /\ len = IF Len(s) > Window THEN Window ELSE Len(s)
        /\ \A k \in 1..len : tail[k] = s[k + cut]
    <2>1. /\ tail \in Seq(Lines) /\ len <= Len(s) /\ DOMAIN tail = 1..len
          /\ len = IF Len(s) > Window THEN Window ELSE Len(s)
          /\ \A k \in 1..len : tail[k] = s[k + cut]
      BY <1>1, TailLines, Zenon
    <2>2. len \in Nat
      BY <2>1
    <2> QED BY <2>1, <2>2
  <1> HIDE DEF tail
  <1>3. len \in Nat /\ cut \in Nat /\ cut + len = m + t + n + u /\ (len >= Window \/ cut = 0)
    BY <1>1, <1>2, NetworkAssumption
  <1> HIDE DEF len, cut
  \* The line k of the tail, by where it comes from.
  <1>4. ASSUME NEW k \in 1..len
        PROVE  /\ k + cut \in 1..m => tail[k] = [kind |-> Report[k + cut], boot |-> 0]
               /\ k + cut \in (m + 1)..(m + t) => tail[k].kind = "other"
               /\ k + cut \in (m + t + 1)..(m + t + n) =>
                    tail[k] = [kind |-> Report[k + cut - m - t], boot |-> 1]
               /\ k + cut > m + t + n => tail[k].kind = "other"
    <2>1. k + cut > m + t + n => k + cut \in (m + t + n + 1)..(m + t + n + u)
      BY <1>3
    <2>2. tail[k] = s[k + cut]
      BY <1>2
    <2>3. PICK j \in Int : j = k + cut
      BY <1>3
    <2>4. tail[k] = s[j] /\ j \in Int
      BY <2>2, <2>3
    <2>5. /\ j \in 1..m => s[j] = [kind |-> Report[j], boot |-> 0]
          /\ j \in (m + 1)..(m + t) => s[j].kind = "other"
          /\ j \in (m + t + 1)..(m + t + n) => s[j] = [kind |-> Report[j - m - t], boot |-> 1]
          /\ j \in (m + t + n + 1)..(m + t + n + u) => s[j].kind = "other"
      BY <1>1
    <2>6. /\ j \in 1..m => tail[k] = [kind |-> Report[j], boot |-> 0]
          /\ j \in (m + 1)..(m + t) => tail[k].kind = "other"
          /\ j \in (m + t + 1)..(m + t + n) => tail[k] = [kind |-> Report[j - m - t], boot |-> 1]
          /\ j > m + t + n => tail[k].kind = "other"
      <3>1. j > m + t + n => j \in (m + t + n + 1)..(m + t + n + u)
        BY <2>1, <2>3
      <3>2. j \in 1..m => tail[k] = [kind |-> Report[j], boot |-> 0]
        BY <2>4, <2>5
      <3>3. j \in (m + 1)..(m + t) => tail[k].kind = "other"
        BY <2>4, <2>5
      <3>4. j \in (m + t + 1)..(m + t + n) => tail[k] = [kind |-> Report[j - m - t], boot |-> 1]
        BY <2>4, <2>5
      <3>5. j > m + t + n => tail[k].kind = "other"
        BY <2>4, <2>5, <3>1
      <3> QED BY <3>2, <3>3, <3>4, <3>5, Zenon
    <2>7. k + cut \in 1..m => tail[k] = [kind |-> Report[k + cut], boot |-> 0]
      BY <2>6, <2>3
    <2>8. k + cut \in (m + 1)..(m + t) => tail[k].kind = "other"
      BY <2>6, <2>3
    <2>9. k + cut \in (m + t + 1)..(m + t + n) =>
            tail[k] = [kind |-> Report[k + cut - m - t], boot |-> 1]
      <3> HAVE k + cut \in (m + t + 1)..(m + t + n)
      <3>1. tail[k] = [kind |-> Report[j - m - t], boot |-> 1]
        BY <2>6, <2>3
      <3>2. j - m - t = k + cut - m - t
        BY <1>3, <2>3
      <3> QED BY <3>1, <3>2, Zenon
    <2>10. k + cut > m + t + n => tail[k].kind = "other"
      BY <2>6, <2>3
    <2> QED BY <2>7, <2>8, <2>9, <2>10, Zenon
  <1>5. \A j \in 1..5 : (Report[j] = "begin" <=> j = 1) /\ (Report[j] = "end" <=> j = 5)
    BY DEF Report
  <1>6. ASSUME NEW k \in 1..len
        PROVE  /\ tail[k].kind = "begin" => \/ k + cut = 1 /\ m > 0
                                            \/ k + cut = m + t + 1 /\ n > 0
               /\ tail[k].kind = "end" => \/ k + cut = 5 /\ m = 5
                                          \/ k + cut = m + t + 5 /\ n = 5
    <2>1. CASE k + cut \in 1..m
      <3>1. tail[k] = [kind |-> Report[k + cut], boot |-> 0]
        BY <1>4, <2>1, Zenon
      <3>2. tail[k].kind = Report[k + cut]
        BY <3>1
      <3>3. k + cut \in 1..5
        BY <2>1
      <3> QED BY <1>5, <2>1, <3>2, <3>3
    <2>2. CASE k + cut \in (m + t + 1)..(m + t + n)
      <3>1. tail[k] = [kind |-> Report[k + cut - m - t], boot |-> 1]
        BY <1>4, <2>2, Zenon
      <3>2. tail[k].kind = Report[k + cut - m - t]
        BY <3>1
      <3>3. k + cut - m - t \in 1..5
        BY <1>3, <2>2
      <3> QED BY <1>3, <1>5, <2>2, <3>2, <3>3
    <2>3. CASE k + cut \in (m + 1)..(m + t) \/ k + cut > m + t + n
      BY <1>4, <2>3
    <2>4. \/ k + cut \in 1..m \/ k + cut \in (m + 1)..(m + t)
          \/ k + cut \in (m + t + 1)..(m + t + n) \/ k + cut > m + t + n
      BY <1>3
    <2> QED BY <2>1, <2>2, <2>3, <2>4
  <1>7. Of(tail, "begin") \subseteq 1..len /\ Of(tail, "end") \subseteq 1..len
        /\ \A k \in 1..len : /\ k \in Of(tail, "begin") <=> tail[k].kind = "begin"
                             /\ k \in Of(tail, "end") <=> tail[k].kind = "end"
    BY <1>2 DEF Of
  \* The last boot's beginning is in the tail.
  <1>8. ASSUME n > 0, cut < m + t + 1
        PROVE  IF n = 5 THEN tunnel = Whole(1) ELSE tunnel = NoTunnel
    <2> DEFINE p == m + t + 1 - cut
    <2>1. p \in 1..len /\ p + cut = m + t + 1 /\ (n = 5 => p + 4 <= len)
      BY <1>3, <1>8
    <2> HIDE DEF p
    <2>2. CASE n = 5
      <3>1. ASSUME NEW k \in p..(p + 4)
            PROVE  tail[k] = [kind |-> Report[k - p + 1], boot |-> 1]
        <4>1. k \in 1..len /\ k + cut \in (m + t + 1)..(m + t + n)
              /\ k + cut - m - t = k - p + 1
          BY <1>3, <2>1, <2>2
        <4>2. tail[k] = [kind |-> Report[k + cut - m - t], boot |-> 1]
          BY <1>4, <4>1
        <4> QED BY <4>1, <4>2
      <3>2. ASSUME NEW k \in (p + 5)..len PROVE tail[k].kind = "other"
        <4>1. k \in 1..len /\ k + cut > m + t + n
          BY <1>3, <2>1, <2>2
        <4> QED BY <1>4, <4>1
      <3>3. 1 \in 0..1
        OBVIOUS
      <3> QED BY <1>2, <2>1, <2>2, <3>1, <3>2, <3>3, BlockFound
    <2>3. CASE n # 5
      <3>1. tail[p].kind = "begin"
        <4>1. p + cut \in (m + t + 1)..(m + t + n) /\ p + cut - m - t = 1
          BY <1>3, <1>8, <2>1
        <4>2. tail[p] = [kind |-> Report[p + cut - m - t], boot |-> 1]
          BY <1>4, <2>1, <4>1
        <4> QED BY <4>1, <4>2 DEF Report
      <3>2. p \in Of(tail, "begin") /\ Of(tail, "begin") \subseteq Int
        BY <1>7, <2>1, <3>1
      <3>3. ASSUME NEW k \in Of(tail, "begin") PROVE k <= p
        <4>1. k \in 1..len /\ (k + cut = 1 \/ k + cut = m + t + 1)
          BY <1>6, <1>7
        <4> QED BY <1>3, <2>1, <4>1
      <3>4. ASSUME NEW k \in Of(tail, "end") PROVE ~(k > p)
        <4>1. k \in 1..len /\ k + cut = 5 /\ m = 5
          BY <1>6, <1>7, <2>3
        <4> QED BY <1>3, <2>1, <4>1
      <3>5. tunnel = NoTunnel
        BY <3>2, <3>3, <3>4, NoBlockFound
      <3> QED BY <2>3, <3>5
    <2> QED BY <2>2, <2>3
  \* It is not: nor is any other.
  <1>9. ASSUME n > 0, ~(cut < m + t + 1) PROVE tunnel = NoTunnel
    <2>1. ASSUME NEW k \in Of(tail, "begin") PROVE FALSE
      <3>1. k \in 1..len /\ (k + cut = 1 \/ k + cut = m + t + 1)
        BY <1>6, <1>7
      <3> QED BY <1>3, <1>9, <3>1
    <2>2. Of(tail, "begin") = {}
      BY <2>1
    <2> QED BY <2>2 DEF ParseLastTunnelBlock
  \* The last boot has not begun its report.
  <1>10. ASSUME n = 0 PROVE tunnel = NoTunnel \/ (m = 5 /\ tunnel = Whole(0))
    <2>1. CASE cut = 0 /\ m = 5
      <3>1. 1 \in 1..len /\ 1 + 4 <= len
        BY <1>3, <2>1
      <3>2. ASSUME NEW k \in 1..(1 + 4)
            PROVE  tail[k] = [kind |-> Report[k - 1 + 1], boot |-> 0]
        <4>1. k \in 1..len /\ k + cut \in 1..m /\ k + cut = k - 1 + 1
          BY <1>3, <2>1
        <4>2. tail[k] = [kind |-> Report[k + cut], boot |-> 0]
          BY <1>4, <4>1
        <4> QED BY <4>1, <4>2
      <3>3. ASSUME NEW k \in (1 + 5)..len PROVE tail[k].kind = "other"
        <4>1. k \in 1..len /\ (k + cut \in (m + 1)..(m + t) \/ k + cut > m + t + n)
          BY <1>3, <1>10, <2>1
        <4> QED BY <1>4, <4>1
      <3>4. PICK p : p = 1
        OBVIOUS
      <3>6. PICK b : b = 0
        OBVIOUS
      <3>7. /\ p \in 1..len /\ p + 4 <= len /\ b \in 0..1
            /\ \A k \in p..(p + 4) : tail[k] = [kind |-> Report[k - p + 1], boot |-> b]
            /\ \A k \in (p + 5)..len : tail[k].kind = "other"
        BY <3>1, <3>2, <3>3, <3>4, <3>6
      <3>8. tunnel = Whole(b)
        BY <1>2, <3>7, BlockFound
      <3>5. tunnel = Whole(0)
        BY <3>6, <3>8
      <3> QED BY <2>1, <3>5
    <2>2. CASE cut # 0
      <3>1. ASSUME NEW k \in Of(tail, "begin") PROVE FALSE
        <4>1. k \in 1..len /\ k + cut = 1
          BY <1>6, <1>7, <1>10
        <4> QED BY <1>3, <2>2, <4>1
      <3>2. Of(tail, "begin") = {}
        BY <3>1
      <3> QED BY <3>2 DEF ParseLastTunnelBlock
    <2>3. CASE m # 5
      <3>1. Of(tail, "end") = {}
        <4>1. ASSUME NEW k \in Of(tail, "end") PROVE FALSE
          BY <1>6, <1>7, <1>10, <2>3
        <4> QED BY <4>1
      <3>2. \A start : {k \in Of(tail, "end") : k > start} = {}
        BY <3>1
      <3> QED BY <3>2, Zenon DEF ParseLastTunnelBlock
    <2> QED BY <2>1, <2>2, <2>3
  <1>11. n = 5 /\ n + u <= Window => cut < m + t + 1
    BY <1>3, NetworkAssumption
  <1> HIDE DEF tunnel
  <1>12. tunnel # NoTunnel =>
           IF n > 0 THEN n = 5 /\ tunnel = Whole(1) ELSE m = 5 /\ tunnel = Whole(0)
    <2>1. CASE n > 0
      BY <1>8, <1>9, <2>1
    <2>2. CASE n = 0
      BY <1>10, <2>2
    <2> QED BY <2>1, <2>2
  <1>13. n = 5 /\ n + u <= Window => tunnel = Whole(1)
    BY <1>8, <1>11
  <1> QED BY <1>12, <1>13 DEF tunnel, tail, s

\* The tunnel in the answer is one boot's full report, however long the console
\* and whatever the tail that is read of it cuts off, and never that of an
\* earlier boot once the last one has begun its own (net.rs
\* read_console_tail, parse_last_tunnel_block).
THEOREM TunnelIsOneReportTheorem == Spec => []TunnelIsOneReport
  <1>1. TunnelIsOneReport
    <2>1. Len(Report) = 5
      BY DEF Report
    <2> SUFFICES ASSUME net = "file", NEW m \in 0..5, NEW n \in 0..5,
                        NEW t \in 0..MaxTalk, NEW u \in 0..MaxTalk
                 PROVE  LET tunnel == MiyoriNetStatus(Console(m, t, n, u)).tunnel
                        IN /\ tunnel # NoTunnel =>
                                IF n > 0 THEN n = 5 /\ tunnel = Whole(1)
                                ELSE m = 5 /\ tunnel = Whole(0)
                           /\ n = 5 /\ n + u <= Window => tunnel = Whole(1)
      BY <2>1 DEF TunnelIsOneReport, Whole
    <2>2. MiyoriNetStatus(Console(m, t, n, u)).tunnel
            = ParseLastTunnelBlock(ReadConsoleTail(Console(m, t, n, u)))
      BY DEF MiyoriNetStatus
    <2>3. t \in Nat /\ u \in Nat
      BY NetworkAssumption
    <2> QED BY <2>2, <2>3, TunnelOfConsole
  <1> QED BY <1>1, PTL
=============================================================================
