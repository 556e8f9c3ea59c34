---------------------------- MODULE SpacesProofs ----------------------------
(***************************************************************************)
(* What holds of Spaces for every number of spaces, CIDs, processes and    *)
(* images.  First, for every set of steps that may fail and every number of*)
(* crashes: its type invariant, and that the store, the taps and the QEMU  *)
(* processes agree about which CID is whose.  Then, for a daemon that is   *)
(* not killed between two steps (MaxCrashes = 0) and every fault but those *)
(* a theorem names: what processes, volumes, secrets, records, registry and*)
(* overlays are left as.                                                   *)
(***************************************************************************)
EXTENDS Spaces, StoreProofs

-----------------------------------------------------------------------------
(* Types.                                                                  *)

LEMMA IdleIsTyped == Idle \in Handler
  BY DEF Idle, Handler, Operations, Places

LEMMA FreePidIsTyped == FreePid \in Process /\ Foreign \in Process
  BY DEF FreePid, Foreign, Process

LEMMA InitTypeOK == Init => TypeOK
<1> SUFFICES ASSUME Init PROVE TypeOK
  OBVIOUS
<1>1. proc \in [Pids -> Process]
  BY FreePidIsTyped DEF Init
<1>2. op \in Handler
  BY IdleIsTyped DEF Init
<1>3. config \in Stores
  BY DEF Init, Stores
<1>4. pruner \in Pruner
  BY DEF Init, NoPruner, Pruner
<1>5. crashes \in 0..MaxCrashes
  BY HostAssumption DEF Init
<1>6. QED
  BY <1>1, <1>2, <1>3, <1>4, <1>5, HostAssumption DEF Init, TypeOK, NoCid

LEMMA StoredIsTyped ==
  ASSUME TypeOK, NEW i \in Stored(config)
  PROVE  /\ i \in Ids
         /\ config[i] \in SpaceConfig
         /\ config[i].cid \in Cids /\ config[i].cid # NoCid
         /\ config[i].digest \in Digests
         /\ config[i].encrypted \in BOOLEAN
  BY DEF TypeOK, Stores, Stored, SpaceConfig, NoSpace

\* The handler of a start has a typed space to work on.
LEMMA StartIsTyped ==
  ASSUME TypeOK, HandlerInvariant, op.name = "start"
  PROVE  op.id \in Ids /\ cid \in Cids
  BY StoredIsTyped DEF HandlerInvariant, cid

LEMMA QemuIsTyped ==
  ASSUME TypeOK, NEW i \in Stored(config)
  PROVE  Qemu(i) \in Process
  BY StoredIsTyped DEF TypeOK, Qemu, Process

LEMMA EndedIsTyped ==
  ASSUME NEW r \in Process
  PROVE  Ended(r) \in Process
  BY FreePidIsTyped DEF Ended, Process

LEMMA OrphanIsTyped ==
  ASSUME NEW r \in Process
  PROVE  [r EXCEPT !.ours = FALSE] \in Process
  BY DEF Process

LEMMA KillAndReapIsTyped ==
  ASSUME TypeOK, NEW i \in Ids, KillAndReap(i)
  PROVE  /\ proc' \in [Pids -> Process]
         /\ handle' \in [Ids -> Pids \cup {NoPid}]
         /\ pidFile' \in [Ids -> Pids \cup {NoPid}]
<1>1. handle' \in [Ids -> Pids \cup {NoPid}] /\ pidFile' \in [Ids -> Pids \cup {NoPid}]
  BY DEF TypeOK, KillAndReap
<1>2. proc' \in [Pids -> Process]
  BY FreePidIsTyped, EndedIsTyped DEF TypeOK, KillAndReap
<1>3. QED
  BY <1>1, <1>2

LEMMA TemplateDigestIsTyped ==
  ASSUME TypeOK, TemplateDigest # NoDigest
  PROVE  TemplateDigest \in Digests
  BY DEF TypeOK, TemplateDigest

\* A request that takes the lock keeps the types.
LEMMA RequestTypeOK == TypeOK /\ Request => TypeOK'
<1> SUFFICES ASSUME TypeOK, NEW i \in Ids,
                    \/ \E encrypted \in Encryption : Create(i, encrypted)
                    \/ Start(i)
                    \/ Stop(i)
                    \/ \E name \in {"reset-system", "reset-all"} : Reset(name, i)
                    \/ UpdateImage(i)
                    \/ Destroy(i)
             PROVE  TypeOK'
  BY DEF Request
<1>1. ASSUME NEW e \in Encryption, Create(i, e) PROVE TypeOK'
  <2>1. e \in BOOLEAN /\ TemplateDigest \in Digests
    BY <1>1, HostAssumption, TemplateDigestIsTyped DEF Create
  <2>2. NewSpace(config, taps, TemplateDigest, e) \in SpaceConfig
    BY <1>1, <2>1, NewSpaceIsFree DEF Create
  <2>3. config' \in Stores
    BY <1>1, <2>2 DEF Create, TypeOK, Stores
  <2>4. op' \in Handler
    BY <1>1, <2>1 DEF Create, Handler, Idle, Operations, Places, Steps
  <2>5. QED
    BY <1>1, <2>3, <2>4 DEF Create, TypeOK, images, run
<1>2. CASE Start(i)
  <2>1. op' \in Handler
    BY <1>2 DEF Start, Enter, Handler, Idle, Operations, Places, Steps
  <2>2. nonceFile' \in [Ids -> Nonces \cup {NoNonce}]
    BY <1>2 DEF Start, TypeOK, FreshNonces
  <2>3. QED
    BY <1>2, <2>1, <2>2 DEF Start, TypeOK, disk, images
<1>3. CASE Stop(i)
  <2>1. op' \in Handler
    BY <1>3 DEF Stop, Handler, Idle, Operations, Places, Steps
  <2>2. QED
    BY <1>3, <2>1 DEF Stop, TypeOK, disk, images, run
<1>4. ASSUME NEW name \in {"reset-system", "reset-all"}, Reset(name, i)
      PROVE  TypeOK'
  <2>1. config[i].digest \in Digests
    BY <1>4, StoredIsTyped DEF Reset
  <2>2. op' \in Handler
    BY <1>4, <2>1 DEF Reset, VolumeStep, Handler, Idle, Operations, Places, Steps
  <2>3. QED
    BY <1>4, <2>2 DEF Reset, TypeOK, disk, images, run
<1>5. CASE UpdateImage(i)
  <2>1. latest \in Digests
    BY <1>5 DEF UpdateImage, TypeOK
  <2>2. op' \in Handler
    BY <1>5, <2>1
    DEF UpdateImage, Enter, VolumeStep, Handler, Idle, Operations, Places, Steps
  <2>3. QED
    BY <1>5, <2>2 DEF UpdateImage, TypeOK, disk, images, run
<1>6. CASE Destroy(i)
  <2>1. op' \in Handler
    BY <1>6 DEF Destroy, Enter, Handler, Idle, Operations, Places, Steps
  <2>2. QED
    BY <1>6, <2>1 DEF Destroy, TypeOK, disk, images, run
<1>7. QED
  BY <1>1, <1>2, <1>3, <1>4, <1>5, <1>6

\* The handler goes on to its next step.
LEMMA GoesOn ==
  ASSUME NEW h \in Handler, NEW place \in Places, NEW g, g = [h EXCEPT !.at = place]
  PROVE  /\ g \in Handler /\ g.at = place /\ g.name = h.name /\ g.id = h.id
         /\ g.pid = h.pid /\ g.digest = h.digest /\ g.graceful = h.graceful
  BY DEF Handler

\* A step of the handler keeps the types.
LEMMA StepTypeOK == TypeOK /\ HandlerInvariant /\ Step => TypeOK'
<1> SUFFICES ASSUME TypeOK, HandlerInvariant, Step PROVE TypeOK'
  OBVIOUS
<1> USE DEF Goto, At
<1>1. CASE WriteQemuImgSecret
  <2>1. op' \in Handler
    <3>1. PICK place : place \in {"volumes", AfterFailure} /\ op' = [op EXCEPT !.at = place]
      BY <1>1 DEF WriteQemuImgSecret
    <3>2. place \in Places
      BY <3>1 DEF AfterFailure, Places, Steps
    <3> QED BY <3>1, <3>2, GoesOn DEF TypeOK
  <2>2. QED
    BY <1>1, <2>1 DEF WriteQemuImgSecret, TypeOK, disk, images
<1>2. CASE CreateVolumes
  <2>1. op' \in Handler
    BY <1>2 DEF CreateVolumes, TypeOK, Handler, Places, Steps, AfterFailure
  <2>2. QED
    BY <1>2, <2>1 DEF CreateVolumes, TypeOK, images
<1>3. CASE RefreshRegistry
  <2>1. op' \in Handler
    BY <1>3 DEF RefreshRegistry, TypeOK, Handler, Places, Steps, AfterFailure
  <2>2. RenderRegistry(config) \in [Ids -> Cids \cup {NoCid}]
    BY DEF RenderRegistry, TypeOK, Stores, SpaceConfig, NoSpace
  <2>3. QED
    BY <1>3, <2>1, <2>2 DEF RefreshRegistry, TypeOK, images, run
<1>4. CASE ApplyNft
  <2>1. op' \in Handler
    BY <1>4 DEF ApplyNft, TypeOK, Handler, Places, Steps, AfterFailure
  <2>2. RenderNft(config) \subseteq Cids
    BY StoredIsTyped DEF RenderNft, CidsOf
  <2>3. QED
    BY <1>4, <2>1, <2>2 DEF ApplyNft, TypeOK, disk, images, run
<1>5. CASE RollbackCreate
  <2>1. op' \in Handler
    BY <1>5 DEF RollbackCreate, TypeOK, Handler, Places
  <2>2. config' \in Stores
    BY <1>5 DEF RollbackCreate, Removed, HalfRemoved, TypeOK, Stores
  <2>3. QED
    BY <1>5, <2>1, <2>2
    DEF RollbackCreate, Removed, HalfRemoved, TypeOK, images, run
<1>6. CASE ReapLeftoverTap
  <2>1. op' \in Handler
    BY <1>6 DEF ReapLeftoverTap, TypeOK, Handler, Places, Steps
  <2>2. QED
    BY <1>6, <2>1 DEF ReapLeftoverTap, TypeOK, disk, images, run
<1>7. CASE CreateTap
  <2>1. op' \in Handler
    BY <1>7 DEF CreateTap, TypeOK, Handler, Places, Steps
  <2>2. cid \in Cids
    BY <1>7, StartIsTyped DEF CreateTap, HandlerInvariant
  <2>3. QED
    BY <1>7, <2>1, <2>2 DEF CreateTap, TypeOK, disk, images, run
<1>8. CASE WriteRunningSecret
  <2>1. op' \in Handler
    BY <1>8 DEF WriteRunningSecret, TypeOK, Handler, Places, Steps
  <2>2. op.id \in Ids
    BY <1>8, StartIsTyped DEF WriteRunningSecret, HandlerInvariant
  <2>3. taps' \in SUBSET Cids /\ secrets' \in SUBSET Ids
    BY <1>8, <2>2 DEF WriteRunningSecret, DeleteTapIgnoringErrors, TypeOK
  <2>4. UNCHANGED <<disk, images, pidFile, nonceFile, imgSecret, nft, proc, handle, crashes>>
    BY <1>8 DEF WriteRunningSecret
  <2>5. QED
    BY <2>1, <2>3, <2>4 DEF TypeOK, disk, images
<1>9. CASE Spawn
  <2>1. op' \in Handler
    <3>1. \/ \E p \in Pids : op' = [op EXCEPT !.pid = p, !.at = "pidfile"]
          \/ op' = [op EXCEPT !.at = "failed"]
      BY <1>9 DEF Spawn, AbandonStart
    <3>2. "pidfile" \in Places /\ "failed" \in Places
      BY DEF Places, Steps
    <3>3. op \in Handler
      BY DEF TypeOK
    <3>4. CASE op' = [op EXCEPT !.at = "failed"]
      BY <3>2, <3>3, <3>4 DEF Handler
    <3>5. ASSUME NEW p \in Pids, op' = [op EXCEPT !.pid = p, !.at = "pidfile"]
          PROVE  op' \in Handler
      BY <3>2, <3>3, <3>5 DEF Handler
    <3> QED BY <3>1, <3>4, <3>5
  <2>2. op.id \in Stored(config)
    BY <1>9 DEF Spawn, HandlerInvariant
  <2>3. Qemu(op.id) \in Process
    BY <2>2, QemuIsTyped
  <2>4. \/ UNCHANGED proc
        \/ \E p \in Pids : proc' = [proc EXCEPT ![p] = Qemu(op.id)]
    BY <1>9 DEF Spawn
  <2>5. proc' \in [Pids -> Process]
    BY <2>3, <2>4 DEF TypeOK
  <2>6. QED
    BY <1>9, <2>1, <2>5
    DEF Spawn, AbandonStart, RemoveRunningSecret, DeleteTapIgnoringErrors, TypeOK, disk,
        images
<1>10. CASE WritePidFile
  <2>1. op' \in Handler
    BY <1>10 DEF WritePidFile, AbandonStart, TypeOK, Handler, Places, Steps
  <2>2. pidFile' \in [Ids -> Pids \cup {NoPid}]
    BY <1>10 DEF WritePidFile, TypeOK, Handler
  <2>3. QED
    BY <1>10, <2>1, <2>2
    DEF WritePidFile, AbandonStart, RemoveRunningSecret, DeleteTapIgnoringErrors, TypeOK,
        disk, images
<1>11. CASE Settle
  <2>1. op' \in Handler
    BY <1>11 DEF Settle, AbandonStart, TypeOK, Handler, Places, Steps
  <2>2. /\ proc' \in [Pids -> Process]
        /\ handle' \in [Ids -> Pids \cup {NoPid}]
    BY <1>11, FreePidIsTyped DEF Settle, TypeOK, Handler
  <2>3. QED
    BY <1>11, <2>1, <2>2
    DEF Settle, AbandonStart, RemoveRunningSecret, DeleteTapIgnoringErrors, TypeOK, disk,
        images
<1>12. CASE StartAppViaAgent
  <2>1. op' \in Handler
    BY <1>12 DEF StartAppViaAgent, AbandonStart, TypeOK, Handler, Places, Steps
  <2>2. op.id \in Ids
    BY <1>12, StartIsTyped DEF StartAppViaAgent, HandlerInvariant
  <2>3. /\ proc' \in [Pids -> Process]
        /\ handle' \in [Ids -> Pids \cup {NoPid}]
        /\ pidFile' \in [Ids -> Pids \cup {NoPid}]
    BY <1>12, <2>2, KillAndReapIsTyped DEF StartAppViaAgent, TypeOK
  <2>4. QED
    BY <1>12, <2>1, <2>3
    DEF StartAppViaAgent, AbandonStart, RemoveRunningSecret, DeleteTapIgnoringErrors,
        TypeOK, disk, images
<1>13. CASE StopKill
  <2>1. op' \in Handler
    BY <1>13 DEF StopKill, TypeOK, Handler, Places, Steps
  <2>2. op.id \in Ids
    BY <1>13, StoredIsTyped DEF StopKill, HandlerInvariant
  <2>3. QED
    BY <1>13, <2>1, <2>2, KillAndReapIsTyped DEF StopKill, TypeOK, disk, images
<1>14. CASE StopDeleteTap
  <2>1. op' \in Handler
    BY <1>14 DEF StopDeleteTap, TypeOK, Handler, Places, Steps
  <2>2. QED
    BY <1>14, <2>1 DEF StopDeleteTap, TypeOK, disk, images, run
<1>15. CASE StopRecord
  <2>1. op' \in Handler
    BY <1>15 DEF StopRecord, TypeOK, Handler, Places
  <2>2. config[op.id] \in SpaceConfig
    BY <1>15, StoredIsTyped DEF StopRecord, HandlerInvariant
  <2>3. config' \in Stores
    BY <1>15, <2>2
    DEF StopRecord, TypeOK, Stores, SpaceConfig, CleanShutdown
  <2>4. QED
    BY <1>15, <2>1, <2>3 DEF StopRecord, RemoveRunningSecret, TypeOK, images
<1>16. CASE SetDigest
  <2>1. op' \in Handler
    BY <1>16 DEF SetDigest, TypeOK, Handler, Places
  <2>2. config[op.id] \in SpaceConfig /\ op.digest \in Digests
    BY <1>16, StoredIsTyped DEF SetDigest, HandlerInvariant
  <2>3. config' \in Stores
    BY <1>16, <2>2 DEF SetDigest, TypeOK, Stores, SpaceConfig
  <2>4. QED
    BY <1>16, <2>1, <2>3 DEF SetDigest, TypeOK, images, run
<1>17. CASE RemoveSpace
  <2>1. op' \in Handler
    BY <1>17 DEF RemoveSpace, TypeOK, Handler, Places, Steps
  <2>2. config' \in Stores
    BY <1>17 DEF RemoveSpace, Removed, HalfRemoved, TypeOK, Stores
  <2>3. QED
    BY <1>17, <2>1, <2>2
    DEF RemoveSpace, Removed, HalfRemoved, TypeOK, images, run
<1>18. CASE Return
  BY <1>18, IdleIsTyped DEF Return, TypeOK, disk, images, run
<1>19. QED
  BY <1>1, <1>2, <1>3, <1>4, <1>5, <1>6, <1>7, <1>8, <1>9, <1>10, <1>11, <1>12,
     <1>13, <1>14, <1>15, <1>16, <1>17, <1>18 DEF Step

\* What the rest of the host does keeps the types.
LEMMA HostTypeOK == TypeOK /\ Host => TypeOK'
<1> SUFFICES ASSUME TypeOK, Host PROVE TypeOK'
  OBVIOUS
<1>1. ASSUME NEW p \in Pids, QemuExits(p) PROVE TypeOK'
  <2>1. Ended(proc[p]) \in Process
    BY EndedIsTyped DEF TypeOK
  <2>2. proc' \in [Pids -> Process]
    BY <1>1, <2>1 DEF QemuExits, TypeOK
  <2>3. QED
    BY <1>1, <2>2 DEF QemuExits, TypeOK, disk, images, run
<1>2. ASSUME NEW p \in Pids, ForeignProcess(p) PROVE TypeOK'
  <2>1. proc' \in [Pids -> Process]
    BY <1>2, FreePidIsTyped DEF ForeignProcess, TypeOK
  <2>2. QED
    BY <1>2, <2>1 DEF ForeignProcess, TypeOK, disk, images, run
<1>3. ASSUME NEW d \in Digests,
             PlaceTemplate(d) \/ UnlinkLatest(d) \/ LinkLatest(d)
      PROVE  TypeOK'
  <2>1. /\ templates' \subseteq Digests
        /\ latest' \in Digests \cup {NoDigest}
        /\ builds' \in [Digests -> {"none", "placed", "unlinked"}]
    BY <1>3 DEF PlaceTemplate, UnlinkLatest, LinkLatest, TypeOK
  <2>2. UNCHANGED <<disk, run, taps, nft, proc, handle, op, pruner, crashes>>
    BY <1>3 DEF PlaceTemplate, UnlinkLatest, LinkLatest
  <2>3. QED
    BY <2>1, <2>2 DEF TypeOK, disk, run
<1>4. ASSUME NEW d \in Digests, PruneTemplate(d) PROVE TypeOK'
  <2>1. pruner' \in Pruner
    BY <1>4 DEF PruneTemplate, Pruner, TypeOK
  <2>2. QED
    BY <1>4, <2>1 DEF PruneTemplate, TypeOK, disk, run
<1>5. CASE PruneScan
  <2>1. {config[i].digest : i \in Stored(config)} \subseteq Digests
    BY StoredIsTyped
  <2>2. pruner' \in Pruner
    BY <1>5, <2>1 DEF PruneScan, NoPruner, Pruner
  <2>3. QED
    BY <1>5, <2>2 DEF PruneScan, TypeOK, disk, run
<1>6. CASE PruneCheck \/ PruneKeep \/ PruneEnds
  <2>1. pruner' \in Pruner
    <3>1. CASE PruneCheck
      BY <3>1 DEF PruneCheck, Pruner, TypeOK
    <3>2. CASE PruneKeep
      BY <3>2 DEF PruneKeep, Pruner, TypeOK
    <3>3. CASE PruneEnds
      BY <3>3 DEF PruneEnds, NoPruner, Pruner
    <3>4. QED
      BY <1>6, <3>1, <3>2, <3>3
  <2>2. UNCHANGED <<disk, templates, latest, builds, run, taps, nft, proc,
                    handle, op, crashes>>
    BY <1>6 DEF PruneCheck, PruneKeep, PruneEnds
  <2>3. QED
    BY <2>1, <2>2 DEF TypeOK, disk, run
<1>7. CASE Crash
  <2>1. \A p \in Pids : [proc[p] EXCEPT !.ours = FALSE] \in Process
    BY OrphanIsTyped DEF TypeOK
  <2>2. proc' \in [Pids -> Process]
    BY <1>7, <2>1, FreePidIsTyped DEF Crash
  <2>3. crashes' \in 0..MaxCrashes
    BY <1>7, HostAssumption DEF Crash, TypeOK
  <2>4. QED
    BY <1>7, <2>2, <2>3, IdleIsTyped DEF Crash, TypeOK, disk, run
<1>8. CASE Reboot
  <2>1. crashes' \in 0..MaxCrashes
    BY <1>8, HostAssumption DEF Reboot, TypeOK
  <2>2. RenderNft(config) \subseteq Cids
    BY StoredIsTyped DEF RenderNft, CidsOf
  <2>3. QED
    BY <1>8, <2>1, <2>2, IdleIsTyped, FreePidIsTyped, HostAssumption
    DEF Reboot, NoPruner, Pruner, TypeOK, disk
<1>9. QED
  BY <1>1, <1>2, <1>3, <1>4, <1>5, <1>6, <1>7, <1>8 DEF Host

LEMMA NextTypeOK == TypeOK /\ HandlerInvariant /\ [Next]_vars => TypeOK'
<1>1. TypeOK /\ UNCHANGED vars => TypeOK'
  BY DEF vars, TypeOK
<1>2. QED
  BY <1>1, RequestTypeOK, StepTypeOK, HostTypeOK DEF Next

-----------------------------------------------------------------------------
(* Where a handler is, and what it works on.                               *)

LEMMA NextHandler ==
  TypeOK /\ HandlerInvariant /\ [Next]_vars => HandlerInvariant'
<1> SUFFICES ASSUME TypeOK, HandlerInvariant, [Next]_vars PROVE HandlerInvariant'
  OBVIOUS
<1> USE DEF Goto, At
<1>1. ASSUME NEW i \in Ids, NEW e \in Encryption, Create(i, e)
      PROVE  HandlerInvariant'
  BY <1>1 DEF Create, HandlerInvariant, Idle
<1>2. ASSUME NEW i \in Ids, Start(i) PROVE HandlerInvariant'
  BY <1>2 DEF Start, Enter, HandlerInvariant, Idle, disk, Stored
<1>3. ASSUME NEW i \in Ids, Stop(i) PROVE HandlerInvariant'
  BY <1>3 DEF Stop, HandlerInvariant, Idle, disk, Stored
<1>4. ASSUME NEW i \in Ids, NEW name \in {"reset-system", "reset-all"},
             Reset(name, i)
      PROVE  HandlerInvariant'
  BY <1>4 DEF Reset, VolumeStep, HandlerInvariant, Idle, disk, Stored
<1>5. ASSUME NEW i \in Ids, UpdateImage(i) PROVE HandlerInvariant'
  BY <1>5 DEF UpdateImage, Enter, VolumeStep, HandlerInvariant, Idle, disk, Stored
<1>6. ASSUME NEW i \in Ids, Destroy(i) PROVE HandlerInvariant'
  BY <1>6 DEF Destroy, Enter, HandlerInvariant, Idle, disk, Stored
<1>7. CASE WriteQemuImgSecret
  <2>1. /\ op'.name = op.name /\ op'.id = op.id
        /\ \/ op'.at \in {"volumes", "failed"}
           \/ op'.at = "rollback" /\ op.name = "create"
    BY <1>7 DEF WriteQemuImgSecret, AfterFailure, TypeOK, Handler
  <2>2. config' = config /\ op.id \in Ids
    BY <1>7 DEF WriteQemuImgSecret, disk, HandlerInvariant, Idle
  <2>3. QED
    BY <2>1, <2>2 DEF HandlerInvariant, Stored
<1>8. CASE CreateVolumes
  BY <1>8 DEF CreateVolumes, AfterFailure, HandlerInvariant, Idle, TypeOK, Handler, Stored
<1>9. CASE RefreshRegistry
  BY <1>9 DEF RefreshRegistry, AfterFailure, HandlerInvariant, Idle, TypeOK, Handler, Stored
<1>10. CASE ApplyNft
  BY <1>10 DEF ApplyNft, AfterFailure, HandlerInvariant, Idle, TypeOK, Handler, disk, Stored
<1>11. CASE RollbackCreate
  BY <1>11 DEF RollbackCreate, HandlerInvariant, Idle, TypeOK, Handler
<1>12. CASE ReapLeftoverTap
  BY <1>12 DEF ReapLeftoverTap, HandlerInvariant, Idle, TypeOK, Handler, disk, Stored
<1>13. CASE CreateTap
  BY <1>13 DEF CreateTap, HandlerInvariant, Idle, TypeOK, Handler, disk, Stored
<1>14. CASE WriteRunningSecret
  BY <1>14 DEF WriteRunningSecret, HandlerInvariant, Idle, TypeOK, Handler, disk, Stored
<1>15. CASE Spawn
  BY <1>15 DEF Spawn, AbandonStart, HandlerInvariant, Idle, TypeOK, Handler, disk, Stored
<1>16. CASE WritePidFile
  BY <1>16 DEF WritePidFile, AbandonStart, HandlerInvariant, Idle, TypeOK, Handler, disk, Stored
<1>17. CASE Settle
  BY <1>17 DEF Settle, AbandonStart, HandlerInvariant, Idle, TypeOK, Handler, disk, Stored
<1>18. CASE StartAppViaAgent
  BY <1>18 DEF StartAppViaAgent, AbandonStart, HandlerInvariant, Idle, TypeOK, Handler, disk, Stored
<1>19. CASE StopKill
  BY <1>19 DEF StopKill, HandlerInvariant, Idle, TypeOK, Handler, disk, Stored
<1>20. CASE StopDeleteTap
  BY <1>20 DEF StopDeleteTap, HandlerInvariant, Idle, TypeOK, Handler, disk, Stored
<1>21. CASE StopRecord
  BY <1>21 DEF StopRecord, HandlerInvariant, Idle, TypeOK, Handler, Stored, Stores, SpaceConfig, NoSpace
<1>22. CASE SetDigest
  BY <1>22 DEF SetDigest, HandlerInvariant, Idle, TypeOK, Handler, Stored, Stores, SpaceConfig, NoSpace
<1>23. CASE RemoveSpace
  BY <1>23 DEF RemoveSpace, HandlerInvariant, Idle, TypeOK, Handler
<1>24. CASE Return
  BY <1>24 DEF Return, HandlerInvariant, Idle
<1>25. CASE Crash \/ Reboot
  BY <1>25 DEF Crash, Reboot, HandlerInvariant, Idle
<1>26. ASSUME UNCHANGED <<op, config>> PROVE HandlerInvariant'
  BY <1>26 DEF HandlerInvariant, Stored
<1>27. QED
  BY <1>1, <1>2, <1>3, <1>4, <1>5, <1>6, <1>7, <1>8, <1>9, <1>10, <1>11, <1>12,
     <1>13, <1>14, <1>15, <1>16, <1>17, <1>18, <1>19, <1>20, <1>21, <1>22, <1>23,
     <1>24, <1>25, <1>26
  DEF Next, Request, Step, Host, QemuExits, ForeignProcess, PlaceTemplate,
      UnlinkLatest, LinkLatest, PruneScan, PruneCheck, PruneKeep, PruneTemplate,
      PruneEnds, disk, vars

-----------------------------------------------------------------------------
(* CIDs and taps.                                                          *)

CidInvariant == CidsAreUnique /\ NoBurnedCid /\ TapInvariant

\* The CID of a space is never one of the stand's.
LEMMA CidIsNotStand ==
  ASSUME TypeOK, CidsAreUnique, NEW i \in Ids
  PROVE  config[i].cid \notin StandTaps
<1>1. CASE i \in Stored(config)
  BY <1>1 DEF CidsAreUnique
<1>2. CASE i \notin Stored(config)
  BY <1>2, CidAssumption, HostAssumption DEF Stored, NoCid
<1>3. QED
  BY <1>1, <1>2

\* Steps that leave every CID and every tap where they are.
LEMMA QuietStep ==
  ASSUME CidInvariant,
         \A i \in Ids : config'[i].cid = config[i].cid,
         taps' = taps,
         op'.name = "create" => op.name = "create" /\ op'.id = op.id /\ op.id \in Ids,
         op'.at = "remove" => op.at = "remove" /\ op'.id = op.id /\ op.id \in Ids
  PROVE  CidInvariant'
<1>1. Stored(config') = Stored(config)
  BY DEF Stored
<1>2. CidsOf(config') = CidsOf(config)
  BY <1>1 DEF CidsOf, Stored
<1>3. CidsAreUnique'
  BY <1>1 DEF CidInvariant, CidsAreUnique, Stored
<1>4. NoBurnedCid'
  BY <1>2 DEF CidInvariant, NoBurnedCid
<1>5. TapInvariant'
  BY DEF CidInvariant, TapInvariant, cid
<1>6. QED
  BY <1>3, <1>4, <1>5 DEF CidInvariant

\* Steps of start and stop that may delete the tap of their space.
LEMMA DeleteTapStep ==
  ASSUME TypeOK, CidInvariant,
         UNCHANGED config,
         op.id \in Ids,
         taps \ {cid} \subseteq taps', taps' \subseteq taps,
         op'.name \in {"start", "stop"}, op'.at # "remove"
  PROVE  CidInvariant'
<1>1. cid \notin StandTaps
  BY CidIsNotStand DEF CidInvariant, cid
<1>2. CidsAreUnique'
  BY DEF CidInvariant, CidsAreUnique, Stored
<1>3. NoBurnedCid'
  BY DEF CidInvariant, NoBurnedCid
<1>4. TapInvariant'
  BY <1>1 DEF CidInvariant, TapInvariant
<1>5. QED
  BY <1>2, <1>3, <1>4 DEF CidInvariant

\* create hands out a CID that nobody has.
LEMMA CreateStep ==
  ASSUME TypeOK, CidInvariant, NEW i \in Ids, NEW e \in Encryption, Create(i, e)
  PROVE  CidInvariant'
<1> DEFINE new == NewSpace(config, taps, TemplateDigest, e)
<1>1. e \in BOOLEAN /\ TemplateDigest \in Digests
  BY HostAssumption, TemplateDigestIsTyped DEF Create
<1>2. /\ new.cid # NoCid
      /\ new.cid \notin {NetCid} \cup CidsOf(config) \cup taps
  BY <1>1, NewSpaceIsFree DEF Create, FreeCids
<1> HIDE DEF new
<1>3. config' = [config EXCEPT ![i] = new] /\ taps' = taps
      /\ op'.id = i /\ op'.at # "remove"
  BY DEF Create, new, Idle
<1>4. /\ config'[i] = new
      /\ \A j \in Ids \ {i} : config'[j] = config[j]
      /\ Stored(config') = Stored(config) \cup {i}
  BY <1>2, <1>3 DEF TypeOK, Stores, Stored
<1>5. \A j \in Stored(config) : j # i /\ config[j].cid \in CidsOf(config)
  BY DEF Create, CidsOf
<1>6. CidsAreUnique'
  <2>1. new.cid \notin {NetCid} \cup StandTaps
    BY <1>2 DEF CidInvariant, TapInvariant
  <2>2. \A j \in Stored(config) : config'[j] = config[j] /\ config[j].cid # new.cid
    BY <1>2, <1>4, <1>5 DEF Stored
  <2>3. QED
    BY <1>4, <2>1, <2>2 DEF CidInvariant, CidsAreUnique
<1>7. NoBurnedCid'
  <2>1. CidsOf(config) \subseteq CidsOf(config')
    BY <1>4, <1>5 DEF CidsOf, Stored
  <2>2. QED
    BY <1>3, <2>1 DEF CidInvariant, NoBurnedCid
<1>8. TapInvariant'
  BY <1>2, <1>3, <1>4 DEF CidInvariant, TapInvariant, cid
<1>9. QED
  BY <1>6, <1>7, <1>8 DEF CidInvariant

\* A space that goes takes no tap with it.
LEMMA RemoveStep ==
  ASSUME TypeOK, CidInvariant, op.id \in Ids,
         op.name = "create" \/ op.at = "remove",
         Removed \/ HalfRemoved, taps' = taps,
         op'.id = op.id, op'.at # "remove"
  PROVE  CidInvariant'
<1>1. cid \notin taps
  BY DEF CidInvariant, TapInvariant
<1>2. /\ config'[op.id].cid \in {cid, NoCid}
      /\ \A j \in Ids \ {op.id} : config'[j] = config[j]
  BY DEF Removed, HalfRemoved, TypeOK, Stores, NoSpace, cid
<1>3. CidsAreUnique'
  <2>1. \A j \in Stored(config') : /\ j \in Stored(config)
                                   /\ config'[j].cid = config[j].cid
    BY <1>2 DEF Stored, cid
  <2>2. QED
    BY <2>1 DEF CidInvariant, CidsAreUnique
<1>4. NoBurnedCid'
  <2>1. \A c \in CidsOf(config) : c # cid => c \in CidsOf(config')
    BY <1>2 DEF CidsOf, Stored, cid
  <2>2. QED
    BY <1>1, <2>1 DEF CidInvariant, NoBurnedCid
<1>5. TapInvariant'
  <2>1. NoCid \notin taps
    BY CidAssumption DEF TypeOK, NoCid
  <2>2. cid' \notin taps
    BY <1>1, <1>2, <2>1 DEF cid
  <2>3. QED
    BY <2>2 DEF CidInvariant, TapInvariant
<1>6. QED
  BY <1>3, <1>4, <1>5 DEF CidInvariant

LEMMA NextCid ==
  TypeOK /\ HandlerInvariant /\ CidInvariant /\ [Next]_vars => CidInvariant'
<1> SUFFICES ASSUME TypeOK, HandlerInvariant, CidInvariant, [Next]_vars
             PROVE  CidInvariant'
  OBVIOUS
<1> USE DEF Goto, At
<1>1. ASSUME NEW i \in Ids, NEW e \in Encryption, Create(i, e)
      PROVE  CidInvariant'
  BY <1>1, CreateStep
<1>2. ASSUME NEW i \in Ids, Start(i) PROVE CidInvariant'
  BY <1>2, QuietStep DEF Start, Enter, Idle, disk
<1>3. ASSUME NEW i \in Ids, Stop(i) PROVE CidInvariant'
  BY <1>3, QuietStep DEF Stop, Idle, disk
<1>4. ASSUME NEW i \in Ids, NEW name \in {"reset-system", "reset-all"},
             Reset(name, i)
      PROVE  CidInvariant'
  BY <1>4, QuietStep DEF Reset, VolumeStep, Idle, disk
<1>5. ASSUME NEW i \in Ids, UpdateImage(i) PROVE CidInvariant'
  BY <1>5, QuietStep DEF UpdateImage, Enter, VolumeStep, Idle, disk
<1>6. ASSUME NEW i \in Ids, Destroy(i) PROVE CidInvariant'
  <2>1. /\ UNCHANGED config
        /\ op'.name = "destroy" /\ op'.id = i
        /\ \/ taps' = taps \ {config[i].cid}
           \/ taps' = taps /\ op'.at # "remove"
    BY <1>6 DEF Destroy, Enter, Idle, disk
  <2>2. config[i].cid \notin StandTaps
    BY CidIsNotStand DEF CidInvariant
  <2>3. CidsAreUnique'
    BY <2>1 DEF CidInvariant, CidsAreUnique, Stored
  <2>4. NoBurnedCid'
    BY <2>1 DEF CidInvariant, NoBurnedCid
  <2>5. TapInvariant'
    BY <2>1, <2>2 DEF CidInvariant, TapInvariant, cid
  <2>6. QED
    BY <2>3, <2>4, <2>5 DEF CidInvariant
<1>7. CASE WriteQemuImgSecret \/ CreateVolumes \/ RefreshRegistry \/ ApplyNft
  <2>1. op.at # "idle" /\ UNCHANGED <<config, taps>>
    BY <1>7 DEF WriteQemuImgSecret, CreateVolumes, RefreshRegistry, ApplyNft, disk
  <2>2. op.id \in Ids
    BY <2>1 DEF HandlerInvariant, Idle
  <2>3. op'.name = op.name /\ op'.id = op.id /\ op'.at # "remove"
    BY <1>7 DEF WriteQemuImgSecret, CreateVolumes, RefreshRegistry, ApplyNft,
                AfterFailure, TypeOK, Handler
  <2>4. QED
    BY <2>1, <2>2, <2>3, QuietStep
<1>8. CASE RollbackCreate
  BY <1>8, RemoveStep DEF RollbackCreate, HandlerInvariant, Idle, TypeOK, Handler
<1>9. CASE ReapLeftoverTap
  BY <1>9, DeleteTapStep, StartIsTyped
  DEF ReapLeftoverTap, HandlerInvariant, TypeOK, Handler, disk
<1>10. CASE CreateTap
  <2>1. op.id \in Stored(config) /\ cid \in CidsOf(config)
    BY <1>10 DEF CreateTap, HandlerInvariant, CidsOf, cid
  <2>2. /\ UNCHANGED config /\ taps' \in {taps, taps \cup {cid}}
        /\ op'.name = "start" /\ op'.at # "remove"
    BY <1>10 DEF CreateTap, HandlerInvariant, TypeOK, Handler, disk
  <2>3. CidsAreUnique'
    BY <2>2 DEF CidInvariant, CidsAreUnique, Stored
  <2>4. NoBurnedCid'
    BY <2>1, <2>2 DEF CidInvariant, NoBurnedCid
  <2>5. TapInvariant'
    BY <2>2 DEF CidInvariant, TapInvariant
  <2>6. QED
    BY <2>3, <2>4, <2>5 DEF CidInvariant
<1>11. CASE WriteRunningSecret
  BY <1>11, DeleteTapStep, StartIsTyped
  DEF WriteRunningSecret, DeleteTapIgnoringErrors, HandlerInvariant, TypeOK,
      Handler, disk
<1>12. CASE Spawn
  <2>1. op.name = "start" /\ op.id \in Ids
    BY <1>12, StartIsTyped DEF Spawn, HandlerInvariant
  <2>2. /\ UNCHANGED config /\ op'.name = "start" /\ op'.at # "remove"
        /\ taps \ {cid} \subseteq taps' /\ taps' \subseteq taps
    BY <1>12, <2>1
    DEF Spawn, AbandonStart, DeleteTapIgnoringErrors, disk, TypeOK, Handler
  <2>3. QED
    BY <2>1, <2>2, DeleteTapStep
<1>13. CASE WritePidFile \/ Settle \/ StartAppViaAgent
  <2>1. op.name = "start" /\ op.id \in Ids
    BY <1>13, StartIsTyped DEF WritePidFile, Settle, StartAppViaAgent,
                               HandlerInvariant
  <2>2. /\ UNCHANGED config /\ op'.name = "start" /\ op'.at # "remove"
        /\ taps \ {cid} \subseteq taps' /\ taps' \subseteq taps
    BY <1>13, <2>1
    DEF WritePidFile, Settle, StartAppViaAgent, AbandonStart,
        DeleteTapIgnoringErrors, TypeOK, Handler, disk
  <2>3. QED
    BY <2>1, <2>2, DeleteTapStep
<1>14. CASE StopKill
  BY <1>14, QuietStep DEF StopKill, HandlerInvariant, TypeOK, Handler, disk
<1>15. CASE StopDeleteTap
  BY <1>15, DeleteTapStep, StoredIsTyped
  DEF StopDeleteTap, HandlerInvariant, TypeOK, Handler, disk
<1>16. CASE StopRecord
  <2>1. op'.name = "stop" /\ op'.at # "remove" /\ taps' = taps
    BY <1>16 DEF StopRecord, HandlerInvariant, TypeOK, Handler
  <2>2. \A i \in Ids : config'[i].cid = config[i].cid
    BY <1>16 DEF StopRecord, TypeOK, Stores, SpaceConfig, NoSpace
  <2>3. QED
    BY <2>1, <2>2, QuietStep
<1>17. CASE SetDigest
  <2>1. op'.name = "update-image" /\ op'.at # "remove" /\ taps' = taps
    BY <1>17 DEF SetDigest, HandlerInvariant, TypeOK, Handler
  <2>2. \A i \in Ids : config'[i].cid = config[i].cid
    BY <1>17 DEF SetDigest, TypeOK, Stores, SpaceConfig, NoSpace
  <2>3. QED
    BY <2>1, <2>2, QuietStep
<1>18. CASE RemoveSpace
  BY <1>18, RemoveStep DEF RemoveSpace, HandlerInvariant, Idle, TypeOK, Handler
<1>19. CASE Return
  BY <1>19, QuietStep DEF Return, Idle, disk
<1>20. CASE Crash
  BY <1>20, QuietStep DEF Crash, Idle, disk
<1>21. CASE Reboot
  <2>1. UNCHANGED config /\ taps' = StandTaps /\ op' = Idle
    BY <1>21 DEF Reboot, disk
  <2>2. QED
    BY <2>1 DEF CidInvariant, CidsAreUnique, Stored, NoBurnedCid, TapInvariant, Idle
<1>22. ASSUME UNCHANGED <<op, config, taps>> PROVE CidInvariant'
  BY <1>22 DEF CidInvariant, CidsAreUnique, Stored, NoBurnedCid, TapInvariant, cid
<1>23. QED
  BY <1>1, <1>2, <1>3, <1>4, <1>5, <1>6, <1>7, <1>8, <1>9, <1>10, <1>11, <1>12,
     <1>13, <1>14, <1>15, <1>16, <1>17, <1>18, <1>19, <1>20, <1>21, <1>22
  DEF Next, Request, Step, Host, QemuExits, ForeignProcess, PlaceTemplate,
      UnlinkLatest, LinkLatest, PruneScan, PruneCheck, PruneKeep, PruneTemplate,
      PruneEnds, disk, vars

-----------------------------------------------------------------------------
(* Processes and what the daemon has on file about them.                   *)

ReachInvariant == RunningSpaceIsReachable /\ StartInvariant

\* No process becomes a live QEMU, or another one, in the step.
NoNewQemu ==
  \A p \in Pids :
    proc'[p].st = "live" /\ proc'[p].id \in Ids
      => /\ proc[p].st = "live" /\ proc[p].id = proc'[p].id
         /\ proc[p].cid = proc'[p].cid /\ proc[p].nonce = proc'[p].nonce

\* No pid file is written in the step.
NoNewPidFile == \A i \in Ids : pidFile'[i] \in {pidFile[i], NoPid}

\* What a space has on file changes in the step only if none of its QEMUs is
\* tracked.
TrackedKeepFiles ==
  \A i \in Ids : \/ /\ config'[i].cid = config[i].cid
                    /\ nonceFile'[i] = nonceFile[i]
                 \/ \A p \in Pids : ~Tracked(i, p)

\* Then no QEMU comes to be tracked in the step.
LEMMA OnlyFewerAreTracked ==
  ASSUME NoNewQemu, NoNewPidFile,
         NEW i \in Ids, NEW p \in Pids, Tracked(i, p)'
  PROVE  Tracked(i, p)
  BY HostAssumption DEF NoNewQemu, NoNewPidFile, Tracked

\* To be reachable it is enough that the files agree with the process.
LEMMA ReachableSuffices ==
  ASSUME \A i \in Ids, p \in Pids :
           Tracked(i, p)' => /\ i \in Stored(config')
                             /\ proc'[p].cid = config'[i].cid
                             /\ proc'[p].nonce = nonceFile'[i]
  PROVE  RunningSpaceIsReachable'
<1> SUFFICES ASSUME NEW i \in Ids, NEW p \in Pids, Tracked(i, p)'
             PROVE  Running(i)'
  BY DEF RunningSpaceIsReachable
<1>1. QED
  BY HostAssumption DEF Tracked, Stored, Running, CmdlineIdentifiesSpace

\* In a step without a new QEMU the tracked ones stay reachable.
LEMMA ReachableStays ==
  ASSUME RunningSpaceIsReachable, NoNewQemu, NoNewPidFile, TrackedKeepFiles
  PROVE  RunningSpaceIsReachable'
<1>1. ASSUME NEW i \in Ids, NEW p \in Pids, Tracked(i, p)'
      PROVE  /\ i \in Stored(config')
             /\ proc'[p].cid = config'[i].cid
             /\ proc'[p].nonce = nonceFile'[i]
  <2>1. Tracked(i, p)
    BY <1>1, OnlyFewerAreTracked
  <2>2. /\ i \in Stored(config)
        /\ proc[p].cid = config[i].cid
        /\ proc[p].nonce = nonceFile[i]
    BY <2>1 DEF RunningSpaceIsReachable
  <2>3. config'[i].cid = config[i].cid /\ nonceFile'[i] = nonceFile[i]
    BY <2>1 DEF TrackedKeepFiles
  <2>4. proc'[p].cid = proc[p].cid /\ proc'[p].nonce = proc[p].nonce
    BY <1>1 DEF NoNewQemu, Tracked
  <2>5. QED
    BY <2>2, <2>3, <2>4 DEF Stored
<1>2. QED
  BY <1>1, ReachableSuffices

\* The same for both parts of the invariant, when the handler moves on.
LEMMA ReachStays ==
  ASSUME ReachInvariant, NoNewQemu, NoNewPidFile, TrackedKeepFiles,
         op'.name = "create" => op.name = "create",
         op'.at \in {"remove", "reap", "tap", "secret", "spawn"}
           => op.at \in {"remove", "reap", "tap", "secret", "spawn"},
         op'.name = "create" \/ op'.at \in {"remove", "reap", "tap", "secret", "spawn"}
           => op.id \in Ids /\ op'.id = op.id,
         op'.at # "pidfile"
  PROVE  ReachInvariant'
<1>1. RunningSpaceIsReachable'
  BY ReachableStays DEF ReachInvariant
<1>2. ASSUME op'.name = "create"
             \/ op'.at \in {"remove", "reap", "tap", "secret", "spawn"},
             NEW p \in Pids, Tracked(op.id, p)'
      PROVE  FALSE
  BY <1>2, OnlyFewerAreTracked DEF ReachInvariant, StartInvariant
<1>3. StartInvariant'
  BY <1>2 DEF StartInvariant, Tracked
<1>4. QED
  BY <1>1, <1>3 DEF ReachInvariant

\* A space that is not running, or not stored, has no tracked QEMU.
LEMMA NotRunningNotTracked ==
  ASSUME RunningSpaceIsReachable, NEW i \in Ids,
         ~Running(i) \/ i \notin Stored(config)
  PROVE  \A p \in Pids : ~Tracked(i, p)
  BY DEF RunningSpaceIsReachable

\* Steps that touch neither processes nor pid files.
LEMMA SameProcesses ==
  ASSUME UNCHANGED <<proc, pidFile>>
  PROVE  NoNewQemu /\ NoNewPidFile
  BY DEF NoNewQemu, NoNewPidFile

LEMMA KillAndReapMakesNone ==
  ASSUME TypeOK, NEW i \in Ids, KillAndReap(i)
  PROVE  NoNewQemu /\ NoNewPidFile
<1>1. NoNewPidFile
  BY DEF TypeOK, KillAndReap, NoNewPidFile
<1>2. \A p \in Pids : \/ proc'[p] = proc[p]
                      \/ proc'[p].st # "live"
  BY IdAssumption DEF TypeOK, KillAndReap, Ended, FreePid, Process
<1>3. NoNewQemu
  BY <1>2 DEF NoNewQemu
<1>4. QED
  BY <1>1, <1>3

LEMMA NextReach ==
  TypeOK /\ HandlerInvariant /\ ReachInvariant /\ [Next]_vars => ReachInvariant'
<1> SUFFICES ASSUME TypeOK, HandlerInvariant, ReachInvariant, [Next]_vars
             PROVE  ReachInvariant'
  OBVIOUS
<1> USE DEF Goto, At
<1>1. ASSUME NEW i \in Ids, NEW e \in Encryption, Create(i, e)
      PROVE  ReachInvariant'
  <2>1. \A p \in Pids : ~Tracked(i, p)
    BY <1>1, NotRunningNotTracked DEF Create, ReachInvariant
  <2>2. /\ UNCHANGED <<proc, pidFile, nonceFile>>
        /\ \A j \in Ids \ {i} : config'[j] = config[j]
        /\ op'.id = i /\ op'.at \notin {"remove", "reap", "tap", "secret", "spawn", "pidfile"}
    BY <1>1 DEF Create, run, Idle, TypeOK, Stores
  <2>3. RunningSpaceIsReachable'
    BY <2>1, <2>2, SameProcesses, ReachableStays
    DEF ReachInvariant, TrackedKeepFiles
  <2>4. StartInvariant'
    BY <2>1, <2>2 DEF StartInvariant, Tracked
  <2>5. QED
    BY <2>3, <2>4 DEF ReachInvariant
<1>2. ASSUME NEW i \in Ids, Start(i) PROVE ReachInvariant'
  <2>1. \A p \in Pids : ~Tracked(i, p)
    BY <1>2, NotRunningNotTracked DEF Start, ReachInvariant
  <2>2. /\ UNCHANGED <<proc, pidFile, config>>
        /\ \A j \in Ids \ {i} : nonceFile'[j] = nonceFile[j]
        /\ op'.id = i /\ op'.at # "pidfile"
    BY <1>2 DEF Start, Enter, disk, Idle, TypeOK
  <2>3. RunningSpaceIsReachable'
    BY <2>1, <2>2, SameProcesses, ReachableStays
    DEF ReachInvariant, TrackedKeepFiles
  <2>4. StartInvariant'
    BY <2>1, <2>2 DEF StartInvariant, Tracked
  <2>5. QED
    BY <2>3, <2>4 DEF ReachInvariant
<1>3. ASSUME NEW i \in Ids,
             \/ Stop(i)
             \/ \E name \in {"reset-system", "reset-all"} : Reset(name, i)
             \/ UpdateImage(i)
      PROVE  ReachInvariant'
  <2>1. UNCHANGED <<proc, pidFile, nonceFile, config>>
    BY <1>3 DEF Stop, Reset, UpdateImage, run, disk
  <2>2. /\ op'.name # "create"
        /\ op'.at \notin {"remove", "reap", "tap", "secret", "spawn", "pidfile"}
    <3>1. CASE Stop(i)
      BY <3>1 DEF Stop, Idle
    <3>2. CASE \E name \in {"reset-system", "reset-all"} : Reset(name, i)
      BY <3>2 DEF Reset, VolumeStep, Idle
    <3>3. CASE UpdateImage(i)
      BY <3>3 DEF UpdateImage, Enter, VolumeStep, Idle
    <3>4. QED
      BY <1>3, <3>1, <3>2, <3>3
  <2>3. QED
    BY <2>1, <2>2, SameProcesses, ReachStays DEF TrackedKeepFiles
<1>4. ASSUME NEW i \in Ids, Destroy(i) PROVE ReachInvariant'
  <2>1. \A p \in Pids : ~Tracked(i, p)
    BY <1>4, NotRunningNotTracked DEF Destroy, ReachInvariant
  <2>2. /\ UNCHANGED <<proc, pidFile, config, nonceFile>>
        /\ op'.id = i /\ op'.at # "pidfile"
    BY <1>4 DEF Destroy, Enter, disk, run, Idle
  <2>3. RunningSpaceIsReachable'
    BY <2>2, SameProcesses, ReachableStays DEF ReachInvariant, TrackedKeepFiles
  <2>4. StartInvariant'
    BY <2>1, <2>2 DEF StartInvariant, Tracked
  <2>5. QED
    BY <2>3, <2>4 DEF ReachInvariant
<1>5. CASE WriteQemuImgSecret \/ CreateVolumes \/ RefreshRegistry \/ ApplyNft
  <2>1. op.at # "idle" /\ UNCHANGED <<proc, pidFile, nonceFile, config>>
    BY <1>5 DEF WriteQemuImgSecret, CreateVolumes, RefreshRegistry, ApplyNft, disk, run
  <2>2. op.id \in Ids
    BY <2>1 DEF HandlerInvariant, Idle
  <2>3. /\ op'.name = op.name /\ op'.id = op.id
        /\ op'.at \notin {"remove", "reap", "tap", "secret", "spawn", "pidfile"}
    BY <1>5 DEF WriteQemuImgSecret, CreateVolumes, RefreshRegistry, ApplyNft,
                AfterFailure, TypeOK, Handler
  <2>4. QED
    BY <2>1, <2>2, <2>3, SameProcesses, ReachStays DEF TrackedKeepFiles
<1>6. CASE RollbackCreate \/ RemoveSpace
  <2>1. op.at # "idle" /\ UNCHANGED <<proc, pidFile, nonceFile>>
    BY <1>6 DEF RollbackCreate, RemoveSpace, run
  <2>2. op.id \in Ids
    BY <2>1 DEF HandlerInvariant, Idle
  <2>3. /\ op'.name = op.name /\ op'.id = op.id
        /\ op'.at \notin {"remove", "reap", "tap", "secret", "spawn", "pidfile"}
    BY <1>6 DEF RollbackCreate, RemoveSpace, TypeOK, Handler
  <2>4. \A p \in Pids : ~Tracked(op.id, p)
    BY <1>6 DEF RollbackCreate, RemoveSpace, HandlerInvariant, ReachInvariant,
                StartInvariant
  <2>5. \A j \in Ids \ {op.id} : config'[j] = config[j]
    BY <1>6 DEF RollbackCreate, RemoveSpace, Removed, HalfRemoved, TypeOK, Stores
  <2>6. TrackedKeepFiles
    BY <2>1, <2>4, <2>5 DEF TrackedKeepFiles
  <2>7. QED
    BY <2>1, <2>2, <2>3, <2>6, SameProcesses, ReachStays
<1>7. CASE ReapLeftoverTap \/ CreateTap \/ WriteRunningSecret
  <2>1. op.name = "start" /\ op.id \in Ids
    BY <1>7, StartIsTyped DEF ReapLeftoverTap, CreateTap, WriteRunningSecret,
                              HandlerInvariant
  <2>2. UNCHANGED <<proc, pidFile, nonceFile, config>>
    BY <1>7 DEF ReapLeftoverTap, CreateTap, WriteRunningSecret, disk, run
  <2>3. /\ op'.name = op.name /\ op'.id = op.id /\ op'.at # "pidfile"
        /\ op.at \in {"reap", "tap", "secret"}
    BY <1>7 DEF ReapLeftoverTap, CreateTap, WriteRunningSecret, TypeOK, Handler
  <2>4. QED
    BY <2>1, <2>2, <2>3, SameProcesses, ReachStays DEF TrackedKeepFiles
<1>8. CASE Spawn
  <2>1. op.id \in Stored(config) /\ op.id \in Ids /\ op.name = "start"
    BY <1>8, StartIsTyped DEF Spawn, HandlerInvariant
  <2>2. UNCHANGED <<pidFile, nonceFile, config>>
    BY <1>8 DEF Spawn, disk
  <2>3. ASSUME NEW p \in Pids, proc[p] = FreePid,
               proc' = [proc EXCEPT ![p] = Qemu(op.id)],
               op' = [op EXCEPT !.pid = p, !.at = "pidfile"]
        PROVE  ReachInvariant'
    <3>1. /\ proc'[p].id = op.id
          /\ proc'[p].cid = config[op.id].cid
          /\ proc'[p].nonce = nonceFile[op.id]
          /\ \A q \in Pids \ {p} : proc'[q] = proc[q]
      BY <2>3 DEF Qemu, TypeOK
    <3>2. /\ op'.pid = p /\ op'.id = op.id /\ op'.at = "pidfile"
          /\ op'.name = "start"
      BY <2>1, <2>3 DEF TypeOK, Handler
    <3>3. StartInvariant'
      BY <2>2, <3>1, <3>2 DEF StartInvariant, cid
    <3>4. ASSUME NEW i \in Ids, NEW q \in Pids, Tracked(i, q)'
          PROVE  /\ i \in Stored(config')
                 /\ proc'[q].cid = config'[i].cid
                 /\ proc'[q].nonce = nonceFile'[i]
      <4>1. CASE q = p
        BY <2>1, <2>2, <3>1, <3>4, <4>1 DEF Tracked
      <4>2. CASE q # p
        <5>1. Tracked(i, q)
          BY <2>2, <3>1, <3>4, <4>2 DEF Tracked
        <5>2. QED
          BY <2>2, <3>1, <4>2, <5>1 DEF ReachInvariant, RunningSpaceIsReachable
      <4>3. QED
        BY <4>1, <4>2
    <3>5. QED
      BY <3>3, <3>4, ReachableSuffices DEF ReachInvariant
  <2>4. ASSUME AbandonStart, UNCHANGED proc PROVE ReachInvariant'
    <3>1. op'.name = "start" /\ op'.at = "failed"
      BY <2>1, <2>4 DEF AbandonStart, TypeOK, Handler
    <3>2. QED
      BY <2>2, <2>4, <3>1, SameProcesses, ReachStays DEF TrackedKeepFiles
  <2>5. QED
    BY <1>8, <2>3, <2>4 DEF Spawn
<1>9. CASE WritePidFile
  <2>1. op.id \in Stored(config) /\ op.id \in Ids /\ op.name = "start"
    BY <1>9, StartIsTyped DEF WritePidFile, HandlerInvariant
  <2>2. UNCHANGED <<proc, nonceFile, config>>
    BY <1>9 DEF WritePidFile, disk
  <2>3. CASE pidFile' = [pidFile EXCEPT ![op.id] = op.pid] /\ Goto("settle")
    <3>1. op'.name = "start" /\ op'.at = "settle"
      BY <2>1, <2>3 DEF TypeOK, Handler
    <3>2. StartInvariant'
      BY <3>1 DEF StartInvariant
    <3>3. ASSUME NEW i \in Ids, NEW q \in Pids, Tracked(i, q)'
          PROVE  /\ i \in Stored(config')
                 /\ proc'[q].cid = config'[i].cid
                 /\ proc'[q].nonce = nonceFile'[i]
      <4>1. CASE i = op.id
        <5>1. q = op.pid /\ proc[q].st = "live" /\ proc[q].id = op.id
          BY <2>2, <2>3, <3>3, <4>1 DEF Tracked, TypeOK
        <5>2. proc[q].cid = config[i].cid /\ proc[q].nonce = nonceFile[i]
          BY <1>9, <4>1, <5>1 DEF WritePidFile, ReachInvariant, StartInvariant, cid
        <5>3. QED
          BY <2>1, <2>2, <4>1, <5>2
      <4>2. CASE i # op.id
        <5>1. Tracked(i, q)
          BY <2>2, <2>3, <3>3, <4>2 DEF Tracked, TypeOK
        <5>2. QED
          BY <2>2, <5>1 DEF ReachInvariant, RunningSpaceIsReachable
      <4>3. QED
        BY <4>1, <4>2
    <3>4. QED
      BY <3>2, <3>3, ReachableSuffices DEF ReachInvariant
  <2>4. CASE /\ \E p \in {pidFile[op.id], NoPid} :
                  pidFile' = [pidFile EXCEPT ![op.id] = p]
             /\ AbandonStart
    <3>1. op'.name = "start" /\ op'.at = "failed"
      BY <2>1, <2>4 DEF AbandonStart, TypeOK, Handler
    <3>2. NoNewQemu /\ NoNewPidFile
      BY <2>2, <2>4 DEF NoNewQemu, NoNewPidFile, TypeOK
    <3>3. QED
      BY <2>2, <3>1, <3>2, ReachStays DEF TrackedKeepFiles
  <2>5. QED
    BY <1>9, <2>3, <2>4 DEF WritePidFile
<1>10. CASE Settle
  <2>1. op.name = "start"
    BY <1>10 DEF Settle, HandlerInvariant
  <2>2. op'.name = "start" /\ op'.at \in {"failed", "agent"}
    BY <1>10, <2>1 DEF Settle, AbandonStart, TypeOK, Handler
  <2>3. UNCHANGED <<nonceFile, config>> /\ NoNewPidFile
    BY <1>10 DEF Settle, disk, NoNewPidFile, TypeOK
  <2>4. \A p \in Pids : proc'[p] = proc[p] \/ proc'[p].st # "live"
    BY <1>10 DEF Settle, FreePid, TypeOK
  <2>5. QED
    BY <2>2, <2>3, <2>4, ReachStays DEF NoNewQemu, TrackedKeepFiles
<1>11. CASE StartAppViaAgent
  <2>1. op.name = "start" /\ op.id \in Ids
    BY <1>11, StartIsTyped DEF StartAppViaAgent, HandlerInvariant
  <2>2. op'.name = "start" /\ op'.at \in {"failed", "ok"}
    BY <1>11, <2>1 DEF StartAppViaAgent, AbandonStart, TypeOK, Handler
  <2>3. UNCHANGED <<nonceFile, config>>
    BY <1>11 DEF StartAppViaAgent, disk
  <2>4. NoNewQemu /\ NoNewPidFile
    BY <1>11, <2>1, SameProcesses, KillAndReapMakesNone DEF StartAppViaAgent
  <2>5. QED
    BY <2>2, <2>3, <2>4, ReachStays DEF TrackedKeepFiles
<1>12. CASE StopKill
  <2>1. op.name = "stop" /\ op.id \in Ids
    BY <1>12, StoredIsTyped DEF StopKill, HandlerInvariant
  <2>2. op'.name = "stop" /\ op'.at = "untap"
    BY <1>12, <2>1 DEF StopKill, TypeOK, Handler
  <2>3. UNCHANGED <<nonceFile, config>> /\ NoNewQemu /\ NoNewPidFile
    BY <1>12, <2>1, KillAndReapMakesNone DEF StopKill, disk
  <2>4. QED
    BY <2>2, <2>3, ReachStays DEF TrackedKeepFiles
<1>13. CASE StopDeleteTap \/ StopRecord \/ SetDigest
  <2>1. UNCHANGED <<proc, pidFile, nonceFile>>
    BY <1>13 DEF StopDeleteTap, StopRecord, SetDigest, run
  <2>2. op'.name # "create" /\ op'.at \in {"record", "failed", "ok"}
    BY <1>13 DEF StopDeleteTap, StopRecord, SetDigest, HandlerInvariant, TypeOK,
                 Handler
  <2>3. \A i \in Ids : config'[i].cid = config[i].cid
    BY <1>13 DEF StopDeleteTap, StopRecord, SetDigest, disk, TypeOK, Stores,
                 SpaceConfig, NoSpace
  <2>4. QED
    BY <2>1, <2>2, <2>3, SameProcesses, ReachStays DEF TrackedKeepFiles
<1>14. CASE Return
  BY <1>14, SameProcesses, ReachStays DEF Return, Idle, disk, run, TrackedKeepFiles
<1>15. CASE Crash
  <2>1. NoNewQemu
    BY <1>15 DEF Crash, NoNewQemu, FreePid, TypeOK, Process
  <2>2. QED
    BY <1>15, <2>1, ReachStays
    DEF Crash, Idle, disk, run, TrackedKeepFiles, NoNewPidFile
<1>16. CASE Reboot
  <2>1. NoNewQemu
    BY <1>16 DEF Reboot, NoNewQemu, FreePid
  <2>2. \A i \in Ids : pidFile'[i] = NoPid
    BY <1>16 DEF Reboot
  <2>3. \A i \in Ids, p \in Pids : ~Tracked(i, p)'
    BY <2>2, HostAssumption DEF Tracked
  <2>4. op' = Idle
    BY <1>16 DEF Reboot
  <2>5. QED
    BY <2>3, <2>4 DEF ReachInvariant, RunningSpaceIsReachable, StartInvariant, Idle
<1>17. ASSUME NEW p \in Pids, QemuExits(p) \/ ForeignProcess(p)
       PROVE  ReachInvariant'
  <2>1. UNCHANGED <<op, pidFile, nonceFile, config>>
    BY <1>17 DEF QemuExits, ForeignProcess, run, disk
  <2>2. \A q \in Pids : \/ proc'[q] = proc[q]
                        \/ proc'[q].st # "live"
                        \/ proc'[q].id = NoId
    BY <1>17 DEF QemuExits, ForeignProcess, Ended, Foreign, FreePid, TypeOK, Process
  <2>3. NoNewQemu /\ NoNewPidFile /\ TrackedKeepFiles
    BY <2>1, <2>2, IdAssumption DEF NoNewQemu, NoNewPidFile, TrackedKeepFiles
  <2>4. RunningSpaceIsReachable'
    BY <2>3, ReachableStays DEF ReachInvariant
  <2>5. op.id \in Ids \/ op = Idle
    BY DEF HandlerInvariant
  <2>6. StartInvariant'
    <3>1. CASE op = Idle
      BY <2>1, <3>1 DEF StartInvariant, Idle
    <3>2. CASE op.id \in Ids
      <4>1. \A q \in Pids : Tracked(op.id, q)' => Tracked(op.id, q)
        BY <2>1, <2>3, <3>2, OnlyFewerAreTracked
      <4>2. QED
        BY <2>1, <2>2, <3>2, <4>1, IdAssumption
        DEF ReachInvariant, StartInvariant, cid
    <3>3. QED
      BY <2>5, <3>1, <3>2
  <2>7. QED
    BY <2>4, <2>6 DEF ReachInvariant
<1>18. ASSUME UNCHANGED <<op, proc, pidFile, nonceFile, config>>
       PROVE  ReachInvariant'
  <2>1. RunningSpaceIsReachable'
    BY <1>18, SameProcesses, ReachableStays DEF ReachInvariant, TrackedKeepFiles
  <2>2. StartInvariant'
    BY <1>18 DEF ReachInvariant, StartInvariant, Tracked, cid
  <2>3. QED
    BY <2>1, <2>2 DEF ReachInvariant
<1>19. QED
  BY <1>1, <1>2, <1>3, <1>4, <1>5, <1>6, <1>7, <1>8, <1>9, <1>10, <1>11, <1>12,
     <1>13, <1>14, <1>15, <1>16, <1>17, <1>18
  DEF Next, Request, Step, Host, PlaceTemplate, UnlinkLatest, LinkLatest,
      PruneScan, PruneCheck, PruneKeep, PruneTemplate, PruneEnds, disk, run, vars

-----------------------------------------------------------------------------
(* The theorems.                                                           *)

LEMMA InitInductive == Init => Inductive
<1> SUFFICES ASSUME Init PROVE Inductive
  OBVIOUS
<1>1. TypeOK
  BY InitTypeOK
<1>2. Stored(config) = {} /\ op = Idle /\ taps = StandTaps
  BY DEF Init, Stored, NoSpace
<1>3. \A i \in Ids, p \in Pids : ~Tracked(i, p)
  BY HostAssumption DEF Init, Tracked
<1>4. QED
  BY <1>1, <1>2, <1>3
  DEF Inductive, HandlerInvariant, CidsAreUnique, NoBurnedCid, TapInvariant,
      RunningSpaceIsReachable, StartInvariant, Idle

\* The inductive invariant holds in every state, whatever fails and whenever
\* the daemon dies.
THEOREM Invariance == Spec => []Inductive
<1>1. Init => Inductive
  BY InitInductive
<1>2. Inductive /\ [Next]_vars => Inductive'
  BY NextTypeOK, NextHandler, NextCid, NextReach
  DEF Inductive, CidInvariant, ReachInvariant
<1>3. QED
  BY <1>1, <1>2, PTL DEF Spec

\* The types of every file, table and process the daemon keeps.
THEOREM TypeCorrect == Spec => []TypeOK
<1>1. Inductive => TypeOK
  BY DEF Inductive
<1>2. QED
  BY <1>1, Invariance, PTL

\* allocate_cid never hands a CID to two spaces, nor one of the stand or of the
\* network machine, in any history of failed creates, destroys and crashes.
THEOREM CidsUnique == Spec => []CidsAreUnique
<1>1. Inductive => CidsAreUnique
  BY DEF Inductive
<1>2. QED
  BY <1>1, Invariance, PTL

\* destroy and the rollback of create never leave the tap of a space that is
\* gone, so no CID is lost to allocate_cid.
THEOREM NoCidIsBurned == Spec => []NoBurnedCid
<1>1. Inductive => NoBurnedCid
  BY DEF Inductive
<1>2. QED
  BY <1>1, Invariance, PTL

\* A QEMU that its pid file leads to can always be stopped: the store has its
\* CID, the nonce file its nonce, and state_of reports it running.
THEOREM RunningReachable == Spec => []RunningSpaceIsReachable
<1>1. Inductive => RunningSpaceIsReachable
  BY DEF Inductive
<1>2. QED
  BY <1>1, Invariance, PTL

-----------------------------------------------------------------------------
(* What stop and a failed start kill, for every fault and every number of  *)
(* crashes.                                                                *)

\* A handler begins when none is under way.
LEMMA EnterEffect ==
  ASSUME NEW name, NEW i, NEW at, Enter(name, i, at)
  PROVE  op.at = "idle" /\ op'.name = name /\ op'.id = i /\ op'.at = at
<1>1. op.at = "idle"
  BY DEF Enter, Idle
<1>2. op'.name = name /\ op'.id = i /\ op'.at = at
  BY DEF Enter, Idle
<1>3. QED
  BY <1>1, <1>2

\* The steps of start at which there is a QEMU of its own.
Spawning == {"pidfile", "settle", "agent"}

\* The steps that touch processes, pid files or handles are few.
LEMMA ProcessStepsOrCrash ==
  ASSUME TypeOK, [Next]_vars
  PROVE  \/ Spawn \/ WritePidFile \/ Settle \/ StartAppViaAgent \/ StopKill
         \/ \E i \in Ids : Stop(i)
         \/ \E p \in Pids : QemuExits(p) \/ ForeignProcess(p)
         \/ Crash \/ Reboot
         \/ /\ UNCHANGED <<proc, pidFile, handle>>
            /\ \/ UNCHANGED <<op, config>>
               \/ \A x \in {op.at, op'.at} : x \notin Spawning \cup {"kill"}
<1> DEFINE Quiet == /\ UNCHANGED <<proc, pidFile, handle>>
                    /\ \/ UNCHANGED <<op, config>>
                       \/ \A x \in {op.at, op'.at} : x \notin Spawning \cup {"kill"}
<1> USE DEF Goto, At, disk, images, run, Spawning
<1>1. ASSUME NEW i \in Ids, NEW e \in Encryption, Create(i, e) PROVE Quiet
  BY <1>1 DEF Create, Idle
<1>2. ASSUME NEW i \in Ids, Start(i) PROVE Quiet
  <2>1. op.at = "idle" /\ op'.at \in {"reap", "failed"}
    BY <1>2, EnterEffect DEF Start
  <2>2. QED
    BY <1>2, <2>1 DEF Start
<1>4. ASSUME NEW i \in Ids, NEW name \in {"reset-system", "reset-all"},
             Reset(name, i)
      PROVE  Quiet
  BY <1>4 DEF Reset, VolumeStep, Idle
<1>5. ASSUME NEW i \in Ids, UpdateImage(i) PROVE Quiet
  BY <1>5 DEF UpdateImage, Enter, VolumeStep, Idle
<1>6. ASSUME NEW i \in Ids, Destroy(i) PROVE Quiet
  <2>1. op.at = "idle" /\ op'.at \in {"remove", "failed"}
    BY <1>6, EnterEffect DEF Destroy
  <2>2. QED
    BY <1>6, <2>1 DEF Destroy
<1>7. Request => Quiet \/ \E i \in Ids : Stop(i)
  BY <1>1, <1>2, <1>4, <1>5, <1>6 DEF Request
<1>8. ASSUME WriteQemuImgSecret \/ RefreshRegistry \/ ApplyNft PROVE Quiet
  BY <1>8 DEF WriteQemuImgSecret, RefreshRegistry, ApplyNft, AfterFailure,
              TypeOK, Handler
<1>9. ASSUME CreateVolumes PROVE Quiet
  <2>1. op'.at \in {"registry", "digest", "ok", "rollback", "failed"}
    BY <1>9 DEF CreateVolumes, AfterFailure, TypeOK, Handler
  <2>2. QED
    BY <1>9, <2>1 DEF CreateVolumes
<1>10. ASSUME RollbackCreate \/ ReapLeftoverTap \/ CreateTap \/ WriteRunningSecret PROVE Quiet
  BY <1>10 DEF RollbackCreate, ReapLeftoverTap, CreateTap, WriteRunningSecret,
               TypeOK, Handler
<1>11. ASSUME StopDeleteTap \/ StopRecord \/ SetDigest \/ RemoveSpace PROVE Quiet
  BY <1>11 DEF StopDeleteTap, StopRecord, SetDigest, RemoveSpace, TypeOK, Handler
<1>12. ASSUME Return PROVE Quiet
  BY <1>12 DEF Return, Idle
<1>13. ASSUME NEW d \in Digests,
              PlaceTemplate(d) \/ UnlinkLatest(d) \/ LinkLatest(d) \/ PruneTemplate(d)
       PROVE  Quiet
  BY <1>13 DEF PlaceTemplate, UnlinkLatest, LinkLatest, PruneTemplate
<1>14. ASSUME PruneScan \/ PruneCheck \/ PruneKeep \/ PruneEnds PROVE Quiet
  BY <1>14 DEF PruneScan, PruneCheck, PruneKeep, PruneEnds
<1>15. ASSUME UNCHANGED vars PROVE Quiet
  BY <1>15 DEF vars
<1> HIDE DEF Quiet
<1>16. Step => \/ Spawn \/ WritePidFile \/ Settle \/ StartAppViaAgent \/ StopKill
               \/ Quiet
  BY <1>8, <1>9, <1>10, <1>11, <1>12 DEF Step
<1>17. Host => \/ \E p \in Pids : QemuExits(p) \/ ForeignProcess(p)
               \/ Crash \/ Reboot \/ Quiet
  BY <1>13, <1>14 DEF Host
<1>18. QED
  BY <1>7, <1>15, <1>16, <1>17 DEF Next, Quiet

\* No CID is a decimal prefix of another.
PrefixFree == \A c, d \in Cids : c \in {d, d \div 10, d \div 100} => c = d

\* A process that was spawned for the space and that the daemon, its parent, has
\* not waited for: nobody else can be given its pid.
Child(r, i) == r.ours /\ r.st # "free" /\ r.id = i

\* A handle is of a child of its own space, and the pid file names the same one.
\* start has a child without a handle until it stores it.  stop holds the QEMU it
\* saw at its first line by its handle or, if that was lost with a former daemon,
\* has only a pid, which another program may have been given since.
KillInvariant ==
  /\ \A i \in Ids : handle[i] # NoPid
       => /\ Child(proc[handle[i]], i)
          /\ pidFile[i] \in {handle[i], NoPid} \/ (op.id = i /\ op.at = "settle")
  /\ op.at \in Spawning
       => op.pid \in Pids /\ Child(proc[op.pid], op.id) /\ proc[op.pid].cid = cid
  /\ op.at \in {"pidfile", "settle"} => \A i \in Ids : handle[i] # op.pid
  /\ op.at = "settle" => pidFile[op.id] = op.pid
  /\ op.at = "agent" => handle[op.id] = op.pid
  /\ op.at = "kill"
       => \/ handle[op.id] # NoPid /\ proc[handle[op.id]].cid = cid
          \/ /\ handle[op.id] = NoPid
             /\ pidFile[op.id] # NoPid => proc[pidFile[op.id]].cid \in {cid, NoCid}

\* kill_and_reap at the two places it is called from.
LEMMA KillAndReapKeeps ==
  ASSUME TypeOK, KillInvariant, op.id \in Ids, op.at \in {"kill", "agent"},
         KillAndReap(op.id)
  PROVE  /\ \A p \in Pids : proc'[p] # proc[p] => proc[p].cid \in {cid, NoCid}
         /\ \A i \in Ids : handle'[i] # NoPid
              => /\ Child(proc'[handle'[i]], i) /\ handle'[i] = handle[i]
                 /\ pidFile'[i] \in {handle'[i], NoPid}
<1> USE HostAssumption
<1>1. /\ handle'[op.id] = NoPid
      /\ \A i \in Ids \ {op.id} : handle'[i] = handle[i] /\ pidFile'[i] = pidFile[i]
  BY DEF KillAndReap, TypeOK
<1>2. ASSUME NEW i \in Ids \ {op.id}, handle[i] # NoPid
      PROVE  Child(proc[handle[i]], i) /\ pidFile[i] \in {handle[i], NoPid}
  BY <1>2 DEF KillInvariant
<1>3. ASSUME NEW q \in Pids, proc[q].cid \in {cid, NoCid},
             \A p \in Pids \ {q} : proc'[p] = proc[p],
             \A i \in Ids \ {op.id} : Child(proc[q], i) => Child(proc'[q], i)
      PROVE  /\ \A p \in Pids : proc'[p] # proc[p] => proc[p].cid \in {cid, NoCid}
             /\ \A i \in Ids \ {op.id} : handle[i] # NoPid => Child(proc'[handle[i]], i)
  <2>1. \A p \in Pids : proc'[p] # proc[p] => p = q
    BY <1>3
  <2>2. ASSUME NEW i \in Ids \ {op.id}, handle[i] # NoPid
        PROVE  Child(proc'[handle[i]], i)
    <3>1. CASE handle[i] = q
      <4>1. Child(proc'[q], i)
        BY <1>2, <1>3, <2>2, <3>1
      <4> QED BY <1>1, <3>1, <4>1 DEF Child
    <3>2. CASE handle[i] # q
      BY <1>1, <1>2, <1>3, <2>2, <3>2 DEF TypeOK
    <3> QED BY <3>1, <3>2
  <2> QED BY <1>3, <2>1, <2>2
<1>4. CASE handle[op.id] # NoPid
  <2> DEFINE q == handle[op.id]
  <2>1. Child(proc[q], op.id) /\ proc[q].cid = cid
    BY <1>4 DEF KillInvariant, Spawning
  <2>2. proc' = [proc EXCEPT ![q] = FreePid] /\ q \in Pids
    BY <1>4 DEF KillAndReap, TypeOK
  <2> HIDE DEF q
  <2>3. q \in Pids /\ (\A p \in Pids \ {q} : proc'[p] = proc[p])
        /\ \A i \in Ids \ {op.id} : ~Child(proc[q], i)
    BY <2>1, <2>2 DEF Child, TypeOK
  <2>4. /\ \A p \in Pids : proc'[p] # proc[p] => proc[p].cid \in {cid, NoCid}
        /\ \A i \in Ids \ {op.id} : handle[i] # NoPid => Child(proc'[handle[i]], i)
    BY <1>3, <2>1, <2>3
  <2> QED BY <1>1, <1>2, <2>4
<1>5. CASE handle[op.id] = NoPid /\ pidFile[op.id] # NoPid
  <2> DEFINE q == pidFile[op.id]
  <2>1. q \in Pids /\ proc[q].cid \in {cid, NoCid}
    BY <1>5 DEF KillInvariant, TypeOK, Spawning, Child
  <2>2. PICK r : /\ proc' = [proc EXCEPT ![q] = r]
                 /\ r = proc[q] \/ r = Ended(proc[q])
    BY <1>5 DEF KillAndReap
  <2> HIDE DEF q
  <2>3. (\A p \in Pids \ {q} : proc'[p] = proc[p]) /\ proc'[q] = r
    BY <2>1, <2>2 DEF TypeOK
  <2>4. \A i \in Ids : Child(proc[q], i) => Child(proc'[q], i)
    <3>1. proc[q] \in Process
      BY <2>1 DEF TypeOK
    <3> QED BY <2>2, <2>3, <3>1 DEF Child, Ended, Process
  <2>5. /\ \A p \in Pids : proc'[p] # proc[p] => proc[p].cid \in {cid, NoCid}
        /\ \A i \in Ids \ {op.id} : handle[i] # NoPid => Child(proc'[handle[i]], i)
    BY <1>3, <2>1, <2>3, <2>4
  <2> QED BY <1>1, <1>2, <2>5
<1>6. CASE handle[op.id] = NoPid /\ pidFile[op.id] = NoPid
  <2>1. UNCHANGED proc
    BY <1>6 DEF KillAndReap
  <2> QED BY <1>1, <1>2, <2>1 DEF Child
<1> QED BY <1>4, <1>5, <1>6

LEMMA NextKill ==
  ASSUME TypeOK, HandlerInvariant, KillInvariant, PrefixFree, [Next]_vars
  PROVE  KillInvariant'
<1> USE IdAssumption, HostAssumption DEF Goto, At
<1>1. CASE Spawn
  <2>1. op.name = "start" /\ op.id \in Ids /\ op.id \in Stored(config)
    BY <1>1, StartIsTyped DEF Spawn, HandlerInvariant
  <2>2. UNCHANGED <<pidFile, handle, config>> /\ op.at = "spawn"
    BY <1>1 DEF Spawn, disk
  <2>3. CASE UNCHANGED proc /\ op'.at = "failed"
    BY <2>2, <2>3 DEF KillInvariant, Child, Spawning
  <2>4. ASSUME NEW p \in Pids, proc[p] = FreePid,
               proc' = [proc EXCEPT ![p] = Qemu(op.id)],
               op' = [op EXCEPT !.pid = p, !.at = "pidfile"]
        PROVE  KillInvariant'
    <3>1. op'.at = "pidfile" /\ op'.pid = p /\ op'.id = op.id
      BY <2>4 DEF TypeOK, Handler
    <3>2. /\ proc'[p].id = op.id /\ proc'[p].ours /\ proc'[p].cid = cid
          /\ proc'[p].st # "free" /\ \A q \in Pids \ {p} : proc'[q] = proc[q]
      BY <2>4 DEF TypeOK, Qemu, cid
    <3>3. \A i \in Ids : handle[i] # p
      BY <2>4 DEF KillInvariant, Child, FreePid
    <3>4. cid' = cid
      BY <2>2, <3>1 DEF cid
    <3>5. \A i \in Ids : handle[i] # NoPid => proc'[handle[i]] = proc[handle[i]]
      BY <3>2, <3>3 DEF TypeOK
    <3>6. \A i \in Ids : handle[i] # NoPid
            => Child(proc[handle[i]], i) /\ pidFile[i] \in {handle[i], NoPid}
      BY <2>2 DEF KillInvariant
    <3> QED BY <2>2, <3>1, <3>2, <3>3, <3>4, <3>5, <3>6
            DEF KillInvariant, Child, Spawning
  <2>5. QED
    BY <1>1, <2>3, <2>4 DEF Spawn, AbandonStart, TypeOK, Handler
<1>2. CASE WritePidFile
  <2>1. op.id \in Ids /\ op.at = "pidfile"
    BY <1>2, StartIsTyped DEF WritePidFile, HandlerInvariant
  <2>2. UNCHANGED <<proc, handle, config>> /\ op'.id = op.id /\ op'.pid = op.pid
    BY <1>2 DEF WritePidFile, AbandonStart, disk, TypeOK, Handler
  <2>3. cid' = cid
    BY <2>2 DEF cid
  <2>4. \A i \in Ids \ {op.id} : pidFile'[i] = pidFile[i]
    BY <1>2 DEF WritePidFile, TypeOK
  <2>5. CASE pidFile'[op.id] = op.pid /\ op'.at = "settle"
    BY <2>1, <2>2, <2>3, <2>4, <2>5 DEF KillInvariant, Child, Spawning
  <2>6. CASE pidFile'[op.id] \in {pidFile[op.id], NoPid} /\ op'.at = "failed"
    BY <2>1, <2>2, <2>4, <2>6 DEF KillInvariant, Child, Spawning
  <2>7. \/ pidFile'[op.id] = op.pid /\ op'.at = "settle"
        \/ pidFile'[op.id] \in {pidFile[op.id], NoPid} /\ op'.at = "failed"
    BY <1>2, <2>1 DEF WritePidFile, AbandonStart, TypeOK, Handler
  <2> QED BY <2>5, <2>6, <2>7
<1>3. CASE Settle
  <2>1. op.id \in Ids /\ op.at = "settle"
    BY <1>3, StartIsTyped DEF Settle, HandlerInvariant
  <2>2. /\ op.pid \in Pids /\ Child(proc[op.pid], op.id) /\ proc[op.pid].cid = cid
        /\ pidFile[op.id] = op.pid /\ \A i \in Ids : handle[i] # op.pid
    BY <2>1 DEF KillInvariant, Spawning
  <2>3. CASE /\ proc' = [proc EXCEPT ![op.pid] = FreePid]
             /\ pidFile' = [pidFile EXCEPT ![op.id] = NoPid]
             /\ UNCHANGED handle /\ op'.at = "failed"
    <3>1. \A q \in Pids \ {op.pid} : proc'[q] = proc[q]
      BY <2>3 DEF TypeOK
    <3>2. pidFile'[op.id] = NoPid /\ \A i \in Ids \ {op.id} : pidFile'[i] = pidFile[i]
      BY <2>1, <2>3 DEF TypeOK
    <3> QED BY <2>1, <2>2, <2>3, <3>1, <3>2 DEF KillInvariant, Child, Spawning
  <2>4. CASE /\ handle' = [handle EXCEPT ![op.id] = op.pid]
             /\ UNCHANGED <<proc, pidFile, config>>
             /\ op'.at = "agent" /\ op'.pid = op.pid /\ op'.id = op.id
    <3>1. handle'[op.id] = op.pid /\ \A i \in Ids \ {op.id} : handle'[i] = handle[i]
      BY <2>1, <2>4 DEF TypeOK
    <3>2. cid' = cid
      BY <2>4 DEF cid
    <3> QED BY <2>1, <2>2, <2>4, <3>1, <3>2 DEF KillInvariant, Child, Spawning
  <2>5. QED
    BY <1>3, <2>3, <2>4 DEF Settle, AbandonStart, disk, TypeOK, Handler
<1>4. ASSUME op.id \in Ids, op.at \in {"kill", "agent"}, KillAndReap(op.id),
             op'.at \in {"untap", "failed"}
      PROVE  KillInvariant'
  <2>1. \A i \in Ids : handle'[i] # NoPid
          => Child(proc'[handle'[i]], i) /\ pidFile'[i] \in {handle'[i], NoPid}
    BY <1>4, KillAndReapKeeps
  <2> QED BY <1>4, <2>1 DEF KillInvariant, Spawning
<1>5. CASE StartAppViaAgent
  <2>1. op.id \in Ids /\ op.at = "agent"
    BY <1>5, StartIsTyped DEF StartAppViaAgent, HandlerInvariant
  <2>2. CASE UNCHANGED <<proc, handle, pidFile>> /\ op'.at = "ok"
    BY <2>1, <2>2 DEF KillInvariant, Child, Spawning
  <2>3. CASE KillAndReap(op.id) /\ op'.at = "failed"
    BY <1>4, <2>1, <2>3
  <2> QED BY <1>5, <2>2, <2>3 DEF StartAppViaAgent, AbandonStart, TypeOK, Handler
<1>6. CASE StopKill
  BY <1>4, <1>6, StoredIsTyped DEF StopKill, HandlerInvariant, TypeOK, Handler
<1>7. ASSUME NEW i \in Ids, Stop(i) PROVE KillInvariant'
  <2>1. /\ op.at = "idle" /\ op'.at = "kill" /\ op'.id = i
        /\ UNCHANGED <<proc, pidFile, handle, config>>
    BY <1>7 DEF Stop, Idle, disk, run
  <2>2. pidFile[i] \in Pids /\ proc[pidFile[i]].cid = config[i].cid
    <3>1. pidFile[i] \in Pids /\ config[i].cid \in Cids
      BY <1>7, StoredIsTyped DEF Stop, Running, TypeOK
    <3>2. proc[pidFile[i]].cid \in Cids
      BY <1>7, <3>1 DEF Stop, Running, CmdlineIdentifiesSpace, TypeOK, Process
    <3> QED BY <1>7, <3>1, <3>2 DEF Stop, Running, CmdlineIdentifiesSpace, PrefixFree
  <2>3. handle[i] # NoPid => handle[i] = pidFile[i]
    BY <2>1, <2>2 DEF KillInvariant
  <2>4. cid' = config[i].cid
    BY <2>1 DEF cid
  <2> QED BY <2>1, <2>2, <2>3, <2>4 DEF KillInvariant, Child, Spawning
<1>8. ASSUME NEW p \in Pids, UNCHANGED <<pidFile, handle, op, config>>,
             \A q \in Pids \ {p} : proc'[q] = proc[q],
             \A i : Child(proc[p], i) => Child(proc'[p], i) /\ proc'[p].cid = proc[p].cid,
             proc'[p].cid \in {proc[p].cid, NoCid}
      PROVE  KillInvariant'
  <2>1. \A i : \A q \in Pids :
          Child(proc[q], i) => Child(proc'[q], i) /\ proc'[q].cid = proc[q].cid
    BY <1>8
  <2>2. \A q \in Pids : proc'[q].cid \in {proc[q].cid, NoCid}
    BY <1>8
  <2>3. cid' = cid
    BY <1>8 DEF cid
  <2>4. \A i \in Ids : handle[i] # NoPid
          => Child(proc'[handle[i]], i) /\ proc'[handle[i]].cid = proc[handle[i]].cid
    BY <2>1 DEF KillInvariant, TypeOK
  <2>5. op.at = "kill" => op.id \in Ids
    BY StoredIsTyped DEF HandlerInvariant
  <2>6. op.at \in Spawning => Child(proc'[op.pid], op.id) /\ proc'[op.pid].cid = cid
    BY <2>1 DEF KillInvariant
  <2>7. op.at = "kill" /\ pidFile[op.id] # NoPid => pidFile[op.id] \in Pids
    BY <2>5 DEF TypeOK
  <2> QED BY <1>8, <2>2, <2>3, <2>4, <2>5, <2>6, <2>7 DEF KillInvariant
<1>9. ASSUME NEW p \in Pids, QemuExits(p) PROVE KillInvariant'
  <2>1. UNCHANGED <<pidFile, handle, op, config>>
    BY <1>9 DEF QemuExits, disk, run
  <2>2. proc'[p] = Ended(proc[p]) /\ \A q \in Pids \ {p} : proc'[q] = proc[q]
    BY <1>9 DEF QemuExits, TypeOK
  <2>3. proc[p] \in Process
    BY DEF TypeOK
  <2>4. \A i : Child(proc[p], i) => Child(proc'[p], i) /\ proc'[p].cid = proc[p].cid
    BY <2>2, <2>3 DEF Child, Ended, Process
  <2>5. proc'[p].cid \in {proc[p].cid, NoCid}
    BY <2>2, <2>3 DEF Ended, Process, FreePid
  <2> QED BY <1>8, <2>1, <2>2, <2>4, <2>5
<1>10. ASSUME NEW p \in Pids, ForeignProcess(p) PROVE KillInvariant'
  <2>1. UNCHANGED <<pidFile, handle, op, config>>
    BY <1>10 DEF ForeignProcess, disk, run
  <2>2. /\ proc[p].st = "free" \/ ~proc[p].ours
        /\ proc'[p].cid = NoCid /\ \A q \in Pids \ {p} : proc'[q] = proc[q]
    BY <1>10 DEF ForeignProcess, TypeOK, Foreign, FreePid
  <2>3. \A i : ~Child(proc[p], i)
    BY <2>2 DEF Child
  <2> QED BY <1>8, <2>1, <2>2, <2>3
<1>11. CASE Crash \/ Reboot
  <2>1. op'.at = "idle" /\ \A i \in Ids : handle'[i] = NoPid
    BY <1>11 DEF Crash, Reboot, Idle
  <2> QED BY <2>1 DEF KillInvariant, Spawning
<1>12. CASE UNCHANGED <<proc, pidFile, handle, op, config>>
  BY <1>12 DEF KillInvariant, Child, cid
<1>13. CASE /\ UNCHANGED <<proc, pidFile, handle>>
            /\ \A x \in {op.at, op'.at} : x \notin Spawning \cup {"kill"}
  BY <1>13 DEF KillInvariant, Child, Spawning
<1> QED
  BY <1>1, <1>2, <1>3, <1>5, <1>6, <1>7, <1>9, <1>10, <1>11, <1>12, <1>13,
     ProcessStepsOrCrash

\* Whichever step of stop or start ends a QEMU, it is one with the space's CID.
LEMMA KillStep ==
  ASSUME TypeOK, HandlerInvariant, KillInvariant, [Next]_vars,
         op.at \in {"kill", "agent"}, op # op', op' # Idle,
         NEW p \in Pids, proc'[p] # proc[p]
  PROVE  proc[p].cid \in {cid, NoCid}
<1>1. CASE KillAndReap(op.id) /\ op.id \in Ids
  BY <1>1, KillAndReapKeeps
<1>2. CASE StartAppViaAgent
  BY <1>1, <1>2, StartIsTyped DEF StartAppViaAgent, HandlerInvariant, At
<1>3. CASE StopKill
  BY <1>1, <1>3, StoredIsTyped DEF StopKill, HandlerInvariant, At
<1>4. ~Crash /\ ~Reboot
  BY DEF Crash, Reboot
<1>5. QED
  BY <1>2, <1>3, <1>4, ProcessStepsOrCrash
  DEF Spawn, WritePidFile, Settle, Stop, Idle, QemuExits, ForeignProcess, At

\* kill_and_reap kills by handle or, when that was lost, by a pid file it does not
\* look at again, and of all QEMUs still ends only one with the CID of the space it
\* was asked about: for every fault, every number of crashes and however pids are
\* reused, as long as no CID is a decimal prefix of another.
THEOREM KillsOnlyItsOwnTheorem ==
  ASSUME PrefixFree
  PROVE  Spec => KillsOnlyItsOwn
<1>1. Init => KillInvariant
  BY DEF Init, KillInvariant, Idle, Spawning
<1>2. Inductive /\ KillInvariant /\ [Next]_vars => KillInvariant'
  BY NextKill DEF Inductive
<1>3. Inductive /\ KillInvariant /\ [Next]_vars
        => [\A p \in Pids :
              /\ op.at \in {"kill", "agent"} /\ op # op' /\ op' # Idle
              /\ proc'[p] # proc[p] /\ proc[p].cid # NoCid
              => proc[p].cid = cid]_vars
  BY KillStep DEF Inductive
<1>4. QED
  BY <1>1, <1>2, <1>3, Invariance, PTL DEF Spec, KillsOnlyItsOwn

-----------------------------------------------------------------------------
(* While the daemon lives.  The theorems from here on assume MaxCrashes = 0 *)
(* (a daemon that dies between two steps of a handler leaves its work half *)
(* done), and name the steps whose failure they do not survive.            *)

LEMMA NoCrashes ==
  ASSUME TypeOK, MaxCrashes = 0
  PROVE  ~Crash /\ ~Reboot
  BY DEF TypeOK, Crash, Reboot

\* Every QEMU is a child of the daemon, so its pid is not reused before the
\* daemon has waited for it; hence a pid file and a handle name a process of
\* their own space, dead or alive.
OwnInvariant ==
  /\ \A p \in Pids : /\ proc[p].id # NoId => proc[p].ours
                     /\ proc[p].id = NoId => proc[p].cid = NoCid
  /\ \A i \in Ids : pidFile[i] # NoPid => proc[pidFile[i]].id = i
  /\ \A i \in Ids : handle[i] # NoPid => proc[handle[i]].id = i
  /\ op.at \in {"pidfile", "settle"}
       => op.pid \in Pids /\ proc[op.pid].id = op.id /\ handle[op.id] # op.pid
  /\ op.at = "pidfile"
       => pidFile[op.id] = NoPid \/ proc[pidFile[op.id]].st # "live"
  /\ op.at \in {"settle", "agent"} => pidFile[op.id] = op.pid

LEMMA ProcessSteps ==
  ASSUME TypeOK, MaxCrashes = 0, [Next]_vars
  PROVE  \/ Spawn \/ WritePidFile \/ Settle \/ StartAppViaAgent \/ StopKill
         \/ \E p \in Pids : QemuExits(p) \/ ForeignProcess(p)
         \/ /\ UNCHANGED <<proc, pidFile, handle>>
            /\ op' = op \/ \A x \in {op.at, op'.at} : x \notin Spawning
<1>1. ASSUME NEW i \in Ids, Stop(i)
      PROVE  /\ UNCHANGED <<proc, pidFile, handle>>
             /\ \A x \in {op.at, op'.at} : x \notin Spawning
  BY <1>1 DEF Stop, Idle, run, Spawning
<1>2. QED
  BY <1>1, NoCrashes, ProcessStepsOrCrash

\* kill_and_reap touches only processes of its space.
LEMMA KillAndReapEffect ==
  ASSUME TypeOK, OwnInvariant, NEW i \in Ids, KillAndReap(i)
  PROVE  /\ \A p \in Pids :
              \/ proc'[p] = proc[p]
              \/ proc[p].id = i /\ proc'[p] = FreePid
              \/ /\ proc[p].id = i
                 /\ proc'[p].st = "zombie" /\ proc'[p].id = i /\ proc'[p].ours
         /\ handle'[i] = NoPid /\ pidFile'[i] = NoPid
         /\ \A j \in Ids \ {i} : handle'[j] = handle[j] /\ pidFile'[j] = pidFile[j]
<1>1. /\ handle'[i] = NoPid /\ pidFile'[i] = NoPid
      /\ \A j \in Ids \ {i} : handle'[j] = handle[j] /\ pidFile'[j] = pidFile[j]
  BY DEF KillAndReap, TypeOK
<1>2. CASE handle[i] # NoPid
  <2>1. proc' = [proc EXCEPT ![handle[i]] = FreePid] /\ proc[handle[i]].id = i
    BY <1>2 DEF KillAndReap, OwnInvariant
  <2>2. QED
    BY <1>1, <2>1 DEF TypeOK
<1>3. CASE handle[i] = NoPid /\ pidFile[i] # NoPid
  <2>1. pidFile[i] \in Pids /\ proc[pidFile[i]].id = i
    BY <1>3 DEF TypeOK, OwnInvariant
  <2>2. proc[pidFile[i]] \in Process /\ proc[pidFile[i]].ours
    BY <2>1, IdAssumption DEF TypeOK, OwnInvariant
  <2>3. PICK r : /\ proc' = [proc EXCEPT ![pidFile[i]] = r]
                 /\ r = proc[pidFile[i]] \/ r = Ended(proc[pidFile[i]])
    BY <1>3 DEF KillAndReap
  <2>4. \/ r = proc[pidFile[i]]
        \/ r.st = "zombie" /\ r.id = i /\ r.ours
    BY <2>1, <2>2, <2>3 DEF Ended, Process
  <2>5. QED
    BY <1>1, <2>1, <2>3, <2>4 DEF TypeOK
<1>4. CASE handle[i] = NoPid /\ pidFile[i] = NoPid
  BY <1>1, <1>4 DEF KillAndReap
<1>5. QED
  BY <1>2, <1>3, <1>4

\* A QEMU that ends while the daemon lives stays as a zombie.
LEMMA QemuExitsEffect ==
  ASSUME TypeOK, OwnInvariant, NEW p \in Pids, QemuExits(p)
  PROVE  /\ proc[p].id \in Ids
         /\ proc'[p].st = "zombie" /\ proc'[p].id = proc[p].id /\ proc'[p].ours
         /\ \A q \in Pids \ {p} : proc'[q] = proc[q]
         /\ UNCHANGED <<pidFile, handle, op, config, taps, secrets,
                        registry, nft, overlay>>
<1>1. proc[p] \in Process /\ proc[p].id # NoId /\ proc[p].ours
  BY DEF TypeOK, QemuExits, OwnInvariant
<1>2. Ended(proc[p]) = [proc[p] EXCEPT !.st = "zombie"]
  BY <1>1 DEF Ended
<1>3. proc' = [proc EXCEPT ![p] = Ended(proc[p])]
  BY DEF QemuExits
<1>4. proc'[p] = [proc[p] EXCEPT !.st = "zombie"]
  BY <1>2, <1>3 DEF TypeOK
<1>5. /\ proc'[p].st = "zombie" /\ proc'[p].id = proc[p].id
      /\ proc'[p].ours
  BY <1>1, <1>4 DEF Process
<1>6. QED
  BY <1>1, <1>3, <1>5 DEF QemuExits, TypeOK, Process, disk, run

\* Other programs use only pids that no space has on file.
LEMMA ForeignProcessEffect ==
  ASSUME TypeOK, NEW p \in Pids, ForeignProcess(p)
  PROVE  /\ proc[p].id = NoId /\ proc'[p].id = NoId /\ proc'[p].cid = NoCid
         /\ \A q \in Pids \ {p} : proc'[q] = proc[q]
         /\ UNCHANGED <<pidFile, handle, op, config, taps, secrets,
                        registry, nft, overlay>>
  BY DEF ForeignProcess, TypeOK, FreePid, Foreign, disk, run

LEMMA NextOwn ==
  ASSUME TypeOK, HandlerInvariant, ReachInvariant, OwnInvariant,
         MaxCrashes = 0, [Next]_vars
  PROVE  OwnInvariant'
<1> USE IdAssumption, HostAssumption DEF Goto, At
<1>1. CASE Spawn
  <2>1. op.name = "start" /\ op.id \in Ids /\ op.id \in Stored(config)
    BY <1>1, StartIsTyped DEF Spawn, HandlerInvariant
  <2>0. op.at = "spawn"
    BY <1>1 DEF Spawn
  <2>2. pidFile[op.id] = NoPid \/ proc[pidFile[op.id]].st # "live"
    BY <2>0, <2>1
    DEF ReachInvariant, StartInvariant, Tracked, OwnInvariant, TypeOK
  <2>3. UNCHANGED <<pidFile, handle>>
    BY <1>1 DEF Spawn
  <2>4. CASE UNCHANGED proc /\ op'.at = "failed"
    BY <2>3, <2>4 DEF OwnInvariant
  <2>5. ASSUME NEW p \in Pids, proc[p] = FreePid,
               proc' = [proc EXCEPT ![p] = Qemu(op.id)],
               op' = [op EXCEPT !.pid = p, !.at = "pidfile"]
        PROVE  OwnInvariant'
    <3>1. op'.at = "pidfile" /\ op'.pid = p /\ op'.id = op.id
      BY <2>5 DEF TypeOK, Handler
    <3>2. /\ proc'[p].id = op.id /\ proc'[p].ours
          /\ \A q \in Pids \ {p} : proc'[q] = proc[q]
      BY <2>5 DEF TypeOK, Qemu
    <3>3. proc[p].id = NoId
      BY <2>5 DEF FreePid
    <3>4. \A i \in Ids : pidFile[i] # p /\ handle[i] # p
      BY <3>3 DEF OwnInvariant
    <3>5. \A i \in Ids : /\ pidFile[i] # NoPid => pidFile[i] \in Pids \ {p}
                         /\ handle[i] # NoPid => handle[i] \in Pids \ {p}
      BY <3>4 DEF TypeOK
    <3>6. QED
      BY <2>1, <2>2, <2>3, <3>1, <3>2, <3>4, <3>5 DEF OwnInvariant
  <2>6. QED
    BY <1>1, <2>4, <2>5 DEF Spawn, AbandonStart, TypeOK, Handler
<1>2. CASE WritePidFile
  <2>1. op.id \in Ids
    BY <1>2, StartIsTyped DEF WritePidFile, HandlerInvariant
  <2>2. UNCHANGED <<proc, handle>> /\ op'.id = op.id /\ op'.pid = op.pid
    BY <1>2 DEF WritePidFile, AbandonStart, TypeOK, Handler
  <2>3. \/ pidFile' = [pidFile EXCEPT ![op.id] = op.pid] /\ op'.at = "settle"
        \/ /\ \A i \in Ids : pidFile'[i] \in {pidFile[i], NoPid}
           /\ op'.at = "failed"
    BY <1>2, <2>1 DEF WritePidFile, AbandonStart, TypeOK, Handler
  <2>4. op.pid \in Pids /\ proc[op.pid].id = op.id /\ handle[op.id] # op.pid
    BY <1>2 DEF WritePidFile, OwnInvariant
  <2>5. QED
    BY <2>1, <2>2, <2>3, <2>4 DEF OwnInvariant, TypeOK
<1>3. CASE Settle
  <2>1. op.id \in Ids
    BY <1>3, StartIsTyped DEF Settle, HandlerInvariant
  <2>2. /\ op.pid \in Pids /\ proc[op.pid].id = op.id /\ handle[op.id] # op.pid
        /\ pidFile[op.id] = op.pid
    BY <1>3 DEF Settle, OwnInvariant
  <2>3. CASE /\ proc' = [proc EXCEPT ![op.pid] = FreePid]
             /\ pidFile' = [pidFile EXCEPT ![op.id] = NoPid]
             /\ UNCHANGED handle /\ op'.at = "failed"
    <3>1. /\ proc'[op.pid].id = NoId /\ proc'[op.pid].cid = NoCid
          /\ \A q \in Pids \ {op.pid} : proc'[q] = proc[q]
      BY <2>2, <2>3 DEF TypeOK, FreePid
    <3>2. \A i \in Ids : handle[i] # op.pid /\ (i # op.id => pidFile[i] # op.pid)
      BY <2>2 DEF OwnInvariant
    <3>3. \A i \in Ids : /\ pidFile'[i] # NoPid
                              => pidFile'[i] = pidFile[i] /\ pidFile[i] \in Pids \ {op.pid}
                         /\ handle[i] # NoPid => handle[i] \in Pids \ {op.pid}
      BY <2>1, <2>3, <3>2 DEF TypeOK
    <3>4. QED
      BY <2>3, <3>1, <3>3 DEF OwnInvariant
  <2>4. CASE /\ handle' = [handle EXCEPT ![op.id] = op.pid]
             /\ UNCHANGED <<proc, pidFile>>
             /\ op'.at = "agent" /\ op'.pid = op.pid /\ op'.id = op.id
    BY <2>1, <2>2, <2>4 DEF OwnInvariant, TypeOK
  <2>5. QED
    BY <1>3, <2>3, <2>4 DEF Settle, AbandonStart, TypeOK, Handler
<1>4. ASSUME KillAndReap(op.id), op.id \in Ids,
             op'.at \notin {"pidfile", "settle", "agent"}
      PROVE  OwnInvariant'
  <2>1. /\ \A p \in Pids :
              \/ proc'[p] = proc[p]
              \/ proc[p].id = op.id /\ proc'[p] = FreePid
              \/ /\ proc[p].id = op.id
                 /\ proc'[p].st = "zombie" /\ proc'[p].id = op.id /\ proc'[p].ours
        /\ handle'[op.id] = NoPid /\ pidFile'[op.id] = NoPid
        /\ \A j \in Ids \ {op.id} : handle'[j] = handle[j] /\ pidFile'[j] = pidFile[j]
    BY <1>4, KillAndReapEffect
  <2>2. \A p \in Pids : /\ proc'[p].id # NoId => proc'[p].ours
                        /\ proc'[p].id = NoId => proc'[p].cid = NoCid
    <3>1. FreePid.id = NoId /\ FreePid.cid = NoCid
      BY DEF FreePid
    <3>2. op.id # NoId
      BY <1>4
    <3>3. QED
      BY <2>1, <3>1, <3>2 DEF OwnInvariant
  <2>3. \A j \in Ids \ {op.id} :
          /\ pidFile[j] # NoPid => pidFile[j] \in Pids /\ proc[pidFile[j]].id = j
          /\ handle[j] # NoPid => handle[j] \in Pids /\ proc[handle[j]].id = j
    BY DEF OwnInvariant, TypeOK
  <2>4. \A j \in Ids \ {op.id} :
          /\ pidFile[j] # NoPid => proc'[pidFile[j]].id = j
          /\ handle[j] # NoPid => proc'[handle[j]].id = j
    BY <2>1, <2>3
  <2>5. QED
    BY <1>4, <2>1, <2>2, <2>4 DEF OwnInvariant
<1>5. CASE StartAppViaAgent
  <2>1. op.id \in Ids
    BY <1>5, StartIsTyped DEF StartAppViaAgent, HandlerInvariant
  <2>2. CASE UNCHANGED <<proc, handle, pidFile>> /\ op'.at = "ok"
    BY <2>2 DEF OwnInvariant
  <2>3. CASE KillAndReap(op.id) /\ op'.at = "failed"
    BY <1>4, <2>1, <2>3
  <2>4. QED
    BY <1>5, <2>2, <2>3 DEF StartAppViaAgent, AbandonStart, TypeOK, Handler
<1>6. CASE StopKill
  BY <1>4, <1>6, StoredIsTyped DEF StopKill, HandlerInvariant, TypeOK, Handler
<1>7. ASSUME NEW p \in Pids, QemuExits(p) PROVE OwnInvariant'
  <2>1. /\ proc[p].id \in Ids
        /\ proc'[p].st = "zombie" /\ proc'[p].id = proc[p].id /\ proc'[p].ours
        /\ \A q \in Pids \ {p} : proc'[q] = proc[q]
        /\ UNCHANGED <<pidFile, handle, op>>
    BY <1>7, QemuExitsEffect
  <2>2. \A q \in Pids : /\ proc'[q].id = proc[q].id
                        /\ proc[q].st # "live" => proc'[q].st # "live"
                        /\ proc'[q].ours \/ proc'[q].ours = proc[q].ours
                        /\ proc[q].id \in Ids \/ proc'[q].cid = proc[q].cid
    BY <2>1
  <2>3. op.at = "pidfile" => op.id \in Ids
    BY StartIsTyped DEF HandlerInvariant
  <2>4. QED
    BY <2>1, <2>2, <2>3 DEF OwnInvariant, TypeOK
<1>8. ASSUME NEW p \in Pids, ForeignProcess(p) PROVE OwnInvariant'
  <2>1. /\ proc[p].id = NoId /\ proc'[p].id = NoId /\ proc'[p].cid = NoCid
        /\ \A q \in Pids \ {p} : proc'[q] = proc[q]
        /\ UNCHANGED <<pidFile, handle, op>>
    BY <1>8, ForeignProcessEffect
  <2>2. \A i \in Ids : /\ pidFile[i] # NoPid => pidFile[i] \in Pids \ {p}
                       /\ handle[i] # NoPid => handle[i] \in Pids \ {p}
    BY <2>1 DEF OwnInvariant, TypeOK
  <2>3. op.at \in {"pidfile", "settle"} => op.id \in Ids /\ op.pid # p
    BY <2>1, StartIsTyped DEF OwnInvariant, HandlerInvariant
  <2>4. QED
    BY <2>1, <2>2, <2>3 DEF OwnInvariant
<1>9. ASSUME UNCHANGED <<proc, pidFile, handle>>,
             op' = op \/ \A x \in {op.at, op'.at} : x \notin Spawning
      PROVE  OwnInvariant'
  BY <1>9 DEF OwnInvariant, Spawning
<1>10. QED
  BY <1>1, <1>2, <1>3, <1>5, <1>6, <1>7, <1>8, <1>9, ProcessSteps

\* Volumes are worked on while no QEMU of the space is tracked: reject_if_running
\* held at the first step, and only start writes a pid file.
VolumeInvariant ==
  op.at \in {"imgsecret", "volumes"} => \A p \in Pids : ~Tracked(op.id, p)

LEMMA NextVolume ==
  ASSUME TypeOK, HandlerInvariant, ReachInvariant, OwnInvariant, VolumeInvariant,
         MaxCrashes = 0, [Next]_vars
  PROVE  VolumeInvariant'
<1> USE DEF Goto, At, disk, images, run
<1> SUFFICES ASSUME op'.at \in {"imgsecret", "volumes"}, NEW p \in Pids
             PROVE  ~Tracked(op.id, p)'
  BY DEF VolumeInvariant, Tracked
<1>1. ASSUME NEW i \in Ids, ~Running(i) \/ i \notin Stored(config),
             UNCHANGED <<proc, pidFile>>, op'.id = i
      PROVE  ~Tracked(op.id, p)'
  BY <1>1, NotRunningNotTracked DEF ReachInvariant, Tracked
<1>2. ASSUME NEW i \in Ids, NEW e \in Encryption, Create(i, e)
      PROVE  ~Tracked(op.id, p)'
  BY <1>1, <1>2 DEF Create, Idle
<1>3. ASSUME NEW i \in Ids, NEW name \in {"reset-system", "reset-all"},
             Reset(name, i)
      PROVE  ~Tracked(op.id, p)'
  BY <1>1, <1>3 DEF Reset, Idle
<1>4. ASSUME NEW i \in Ids, UpdateImage(i) PROVE ~Tracked(op.id, p)'
  BY <1>1, <1>4 DEF UpdateImage, Enter, Idle
<1>5. ASSUME NEW i \in Ids, Start(i) \/ Stop(i) \/ Destroy(i) PROVE FALSE
  BY <1>5 DEF Start, Stop, Destroy, Enter, Idle
<1>6. CASE Request
  BY <1>2, <1>3, <1>4, <1>5, <1>6 DEF Request
<1>7. CASE WriteQemuImgSecret
  <2>1. op.at = "imgsecret" /\ op'.id = op.id /\ UNCHANGED <<proc, pidFile>>
    BY <1>7 DEF WriteQemuImgSecret, AfterFailure, TypeOK, Handler
  <2>2. QED
    BY <2>1 DEF VolumeInvariant, Tracked
<1>8. CASE CreateVolumes
  <2>1. op'.at \in {"registry", "digest", "ok", "rollback", "failed"}
    BY <1>8 DEF CreateVolumes, AfterFailure, TypeOK, Handler
  <2>2. QED
    BY <2>1
<1>9. CASE RefreshRegistry \/ ApplyNft \/ RollbackCreate \/ ReapLeftoverTap
           \/ CreateTap \/ WriteRunningSecret
  BY <1>9 DEF RefreshRegistry, ApplyNft, RollbackCreate, ReapLeftoverTap, CreateTap,
              WriteRunningSecret, AfterFailure, TypeOK, Handler
<1>10. CASE Spawn \/ WritePidFile \/ Settle \/ StartAppViaAgent
  BY <1>10 DEF Spawn, WritePidFile, Settle, StartAppViaAgent, AbandonStart, TypeOK,
               Handler
<1>11. CASE StopKill \/ StopDeleteTap \/ StopRecord \/ SetDigest \/ RemoveSpace
  BY <1>11 DEF StopKill, StopDeleteTap, StopRecord, SetDigest, RemoveSpace, TypeOK,
               Handler
<1>12. CASE Return
  BY <1>12 DEF Return, Idle
<1>13. ASSUME UNCHANGED <<op, proc, pidFile>> PROVE ~Tracked(op.id, p)'
  BY <1>13 DEF VolumeInvariant, Tracked
<1>14. op.id \in Ids \/ op = Idle
  BY DEF HandlerInvariant
<1>15. ASSUME NEW q \in Pids, QemuExits(q) PROVE ~Tracked(op.id, p)'
  <2>1. /\ proc'[q].st = "zombie" /\ UNCHANGED <<op, pidFile>>
        /\ \A r \in Pids \ {q} : proc'[r] = proc[r]
    BY <1>15, QemuExitsEffect
  <2>2. QED
    BY <2>1 DEF VolumeInvariant, Tracked
<1>16. ASSUME NEW q \in Pids, ForeignProcess(q) PROVE ~Tracked(op.id, p)'
  <2>1. /\ proc'[q].id = NoId /\ UNCHANGED <<op, pidFile>>
        /\ \A r \in Pids \ {q} : proc'[r] = proc[r]
    BY <1>16, ForeignProcessEffect
  <2>2. QED
    BY <1>14, <2>1, IdAssumption DEF VolumeInvariant, Tracked, Idle
<1>17. ASSUME NEW d \in Digests,
              PlaceTemplate(d) \/ UnlinkLatest(d) \/ LinkLatest(d) \/ PruneTemplate(d)
       PROVE  ~Tracked(op.id, p)'
  BY <1>13, <1>17 DEF PlaceTemplate, UnlinkLatest, LinkLatest, PruneTemplate
<1>18. CASE PruneScan \/ PruneCheck \/ PruneKeep \/ PruneEnds
  BY <1>13, <1>18 DEF PruneScan, PruneCheck, PruneKeep, PruneEnds
<1>19. CASE UNCHANGED vars
  BY <1>13, <1>19 DEF vars
<1>20. CASE Step
  BY <1>7, <1>8, <1>9, <1>10, <1>11, <1>12, <1>20 DEF Step
<1>21. CASE Host
  BY <1>15, <1>16, <1>17, <1>18, <1>21, NoCrashes DEF Host
<1>22. QED
  BY <1>6, <1>19, <1>20, <1>21 DEF Next

\* While every pid file can be written, a live QEMU is the one its pid file and
\* its handle name, except on the way there.
TrackInvariant ==
  \A p \in Pids :
    proc[p].st = "live" /\ proc[p].id # NoId
      => /\ pidFile[proc[p].id] = p \/ (op.at = "pidfile" /\ op.pid = p)
         /\ \/ handle[proc[p].id] = p
            \/ op.at \in {"pidfile", "settle"} /\ op.pid = p

LEMMA NextTrack ==
  ASSUME TypeOK, HandlerInvariant, ReachInvariant, OwnInvariant, TrackInvariant,
         MaxCrashes = 0, "pidfile" \notin FaultySteps, [Next]_vars
  PROVE  TrackInvariant'
<1> USE IdAssumption, HostAssumption DEF Goto, At
<1>1. CASE Spawn
  <2>1. op.id \in Ids
    BY <1>1, StartIsTyped DEF Spawn, HandlerInvariant
  <2>2. UNCHANGED <<pidFile, handle>> /\ op.at = "spawn"
    BY <1>1 DEF Spawn
  <2>3. CASE UNCHANGED proc
    BY <2>2, <2>3 DEF TrackInvariant
  <2>4. ASSUME NEW p \in Pids, proc' = [proc EXCEPT ![p] = Qemu(op.id)],
               op' = [op EXCEPT !.pid = p, !.at = "pidfile"]
        PROVE  TrackInvariant'
    <3>1. op'.at = "pidfile" /\ op'.pid = p
      BY <2>4 DEF TypeOK, Handler
    <3>2. \A q \in Pids \ {p} : proc'[q] = proc[q]
      BY <2>4 DEF TypeOK
    <3>3. QED
      BY <2>2, <3>1, <3>2 DEF TrackInvariant
  <2>5. QED
    BY <1>1, <2>3, <2>4 DEF Spawn
<1>2. CASE WritePidFile
  <2>1. op.id \in Ids /\ op.at = "pidfile"
    BY <1>2, StartIsTyped DEF WritePidFile, HandlerInvariant
  <2>2. /\ UNCHANGED <<proc, handle>> /\ op'.pid = op.pid /\ op'.at = "settle"
        /\ pidFile' = [pidFile EXCEPT ![op.id] = op.pid]
    BY <1>2 DEF WritePidFile, MayFail, TypeOK, Handler
  <2>3. op.pid \in Pids /\ proc[op.pid].id = op.id
    BY <2>1 DEF OwnInvariant
  <2>4. ASSUME NEW p \in Pids, p # op.pid, proc[p].st = "live", proc[p].id # NoId
        PROVE  /\ proc[p].id \in Ids \ {op.id}
               /\ pidFile[proc[p].id] = p /\ handle[proc[p].id] = p
    <3>1. pidFile[proc[p].id] = p /\ handle[proc[p].id] = p
      BY <2>1, <2>4 DEF TrackInvariant
    <3>2. proc[p].id # op.id
      BY <2>1, <2>4, <3>1 DEF OwnInvariant, TypeOK
    <3>3. QED
      BY <2>4, <3>1, <3>2 DEF TypeOK, Process
  <2>5. QED
    BY <2>1, <2>2, <2>3, <2>4 DEF TrackInvariant, TypeOK
<1>3. CASE Settle
  <2>1. op.id \in Ids /\ op.at = "settle"
    BY <1>3, StartIsTyped DEF Settle, HandlerInvariant
  <2>2. op.pid \in Pids /\ proc[op.pid].id = op.id /\ pidFile[op.id] = op.pid
    BY <2>1 DEF OwnInvariant
  <2>3. ASSUME NEW p \in Pids, p # op.pid, proc[p].st = "live", proc[p].id # NoId
        PROVE  /\ proc[p].id \in Ids \ {op.id}
               /\ pidFile[proc[p].id] = p /\ handle[proc[p].id] = p
    BY <2>1, <2>2, <2>3 DEF TrackInvariant, TypeOK, Process
  <2>4. CASE /\ proc' = [proc EXCEPT ![op.pid] = FreePid]
             /\ pidFile' = [pidFile EXCEPT ![op.id] = NoPid]
             /\ UNCHANGED handle
    <3>1. /\ proc'[op.pid].st = "free"
          /\ \A q \in Pids \ {op.pid} : proc'[q] = proc[q]
      BY <2>2, <2>4 DEF TypeOK, FreePid
    <3>2. \A i \in Ids \ {op.id} : pidFile'[i] = pidFile[i]
      BY <2>4 DEF TypeOK
    <3>3. QED
      BY <2>3, <2>4, <3>1, <3>2 DEF TrackInvariant
  <2>5. CASE /\ handle' = [handle EXCEPT ![op.id] = op.pid]
             /\ UNCHANGED <<proc, pidFile>>
    <3>1. handle'[op.id] = op.pid /\ \A i \in Ids \ {op.id} : handle'[i] = handle[i]
      BY <2>1, <2>5 DEF TypeOK
    <3>2. QED
      BY <2>2, <2>3, <2>5, <3>1 DEF TrackInvariant
  <2>6. QED
    BY <1>3, <2>4, <2>5 DEF Settle
<1>4. ASSUME KillAndReap(op.id), op.id \in Ids, op.at \in {"kill", "agent"}
      PROVE  TrackInvariant'
  <2>1. /\ \A p \in Pids :
              \/ proc'[p] = proc[p]
              \/ proc[p].id = op.id /\ proc'[p] = FreePid
              \/ /\ proc[p].id = op.id
                 /\ proc'[p].st = "zombie" /\ proc'[p].id = op.id /\ proc'[p].ours
        /\ \A j \in Ids \ {op.id} : handle'[j] = handle[j] /\ pidFile'[j] = pidFile[j]
    BY <1>4, KillAndReapEffect
  <2>2. ASSUME NEW p \in Pids, proc[p].id = op.id, proc[p].st = "live"
        PROVE  proc'[p].st # "live"
    <3>1. handle[op.id] = p /\ p # NoPid
      BY <1>4, <2>2 DEF TrackInvariant
    <3>2. proc' = [proc EXCEPT ![p] = FreePid]
      BY <1>4, <3>1 DEF KillAndReap
    <3>3. QED
      BY <3>2 DEF TypeOK, FreePid
  <2>3. ASSUME NEW p \in Pids, proc'[p].st = "live", proc'[p].id # NoId
        PROVE  /\ proc'[p] = proc[p]
               /\ proc[p].id \in Ids \ {op.id}
    BY <1>4, <2>1, <2>2, <2>3 DEF FreePid, TypeOK, Process
  <2>4. QED
    BY <1>4, <2>1, <2>3 DEF TrackInvariant
<1>5. CASE StartAppViaAgent
  <2>1. op.id \in Ids /\ op.at = "agent"
    BY <1>5, StartIsTyped DEF StartAppViaAgent, HandlerInvariant
  <2>2. CASE UNCHANGED <<proc, handle, pidFile>>
    BY <2>1, <2>2 DEF TrackInvariant
  <2>3. QED
    BY <1>4, <1>5, <2>1, <2>2 DEF StartAppViaAgent
<1>6. CASE StopKill
  BY <1>4, <1>6, StoredIsTyped DEF StopKill, HandlerInvariant
<1>7. ASSUME NEW p \in Pids, QemuExits(p) PROVE TrackInvariant'
  <2>1. /\ proc'[p].st = "zombie"
        /\ \A q \in Pids \ {p} : proc'[q] = proc[q]
        /\ UNCHANGED <<pidFile, handle, op>>
    BY <1>7, QemuExitsEffect
  <2>2. QED
    BY <2>1 DEF TrackInvariant
<1>8. ASSUME NEW p \in Pids, ForeignProcess(p) PROVE TrackInvariant'
  <2>1. /\ proc'[p].id = NoId
        /\ \A q \in Pids \ {p} : proc'[q] = proc[q]
        /\ UNCHANGED <<pidFile, handle, op>>
    BY <1>8, ForeignProcessEffect
  <2>2. QED
    BY <2>1 DEF TrackInvariant
<1>9. ASSUME UNCHANGED <<proc, pidFile, handle>>,
             op' = op \/ \A x \in {op.at, op'.at} : x \notin Spawning
      PROVE  TrackInvariant'
  BY <1>9 DEF TrackInvariant, Spawning
<1>10. QED
  BY <1>1, <1>2, <1>3, <1>5, <1>6, <1>7, <1>8, <1>9, ProcessSteps

\* A tracked QEMU has its tap, and so has a handler that counts on it: start
\* once it has raised it, stop until it deletes it.  stop would otherwise give
\* up before it has removed the passphrase and recorded the outcome.
TrackedHaveTaps ==
  \A i \in Ids, p \in Pids : Tracked(i, p) => config[i].cid \in taps
HandlerHasTap ==
  /\ op.at \in {"secret", "spawn", "kill", "untap"} \cup Spawning => cid \in taps
  /\ op.at \in {"untap", "record"} => pidFile[op.id] = NoPid
RaisedInvariant == TrackedHaveTaps /\ HandlerHasTap

LEMMA TapsKept ==
  ASSUME TrackedHaveTaps, taps \subseteq taps',
         \A i \in Ids, p \in Pids :
           Tracked(i, p)' => Tracked(i, p) /\ config'[i].cid = config[i].cid
  PROVE  TrackedHaveTaps'
  BY DEF TrackedHaveTaps

\* The tap of one space may go when none of its QEMUs is tracked.
LEMMA TapDropped ==
  ASSUME CidsAreUnique, RunningSpaceIsReachable, TrackedHaveTaps, UNCHANGED config,
         NEW k \in Stored(config), taps \ {config[k].cid} \subseteq taps',
         \A i \in Ids, p \in Pids : Tracked(i, p)' => Tracked(i, p) /\ i # k
  PROVE  TrackedHaveTaps'
<1> SUFFICES ASSUME NEW i \in Ids, NEW p \in Pids, Tracked(i, p)'
             PROVE  config[i].cid \in taps'
  BY DEF TrackedHaveTaps
<1>1. Tracked(i, p) /\ i # k
  OBVIOUS
<1>2. i \in Stored(config) /\ config[i].cid \in taps
  BY <1>1 DEF RunningSpaceIsReachable, TrackedHaveTaps
<1>3. config[i].cid # config[k].cid
  BY <1>1, <1>2 DEF CidsAreUnique
<1>4. QED
  BY <1>2, <1>3

LEMMA RequestRaised ==
  ASSUME TypeOK, CidsAreUnique, RunningSpaceIsReachable, OwnInvariant,
         RaisedInvariant, Request
  PROVE  RaisedInvariant'
<1> USE DEF disk, images, run
<1>1. TrackedHaveTaps
  BY DEF RaisedInvariant
<1>2. ASSUME UNCHANGED <<proc, pidFile, config, taps>> PROVE TrackedHaveTaps'
  BY <1>1, <1>2 DEF TrackedHaveTaps, Tracked
<1>3. ASSUME op'.at \in {"reap", "failed", "imgsecret", "volumes", "ok", "remove"}
      PROVE  HandlerHasTap'
  BY <1>3 DEF HandlerHasTap, Spawning
<1>4. ASSUME NEW i \in Ids, NEW e \in Encryption, Create(i, e)
      PROVE  RaisedInvariant'
  <2>1. \A p \in Pids : ~Tracked(i, p)
    BY <1>4, NotRunningNotTracked DEF Create
  <2>2. /\ UNCHANGED <<proc, pidFile, taps>>
        /\ \A j \in Ids \ {i} : config'[j] = config[j]
    BY <1>4 DEF Create, TypeOK, Stores
  <2>3. TrackedHaveTaps'
    BY <1>1, <2>1, <2>2 DEF TrackedHaveTaps, Tracked
  <2>4. op'.at \in {"imgsecret", "volumes"}
    BY <1>4 DEF Create, Idle
  <2>5. QED
    BY <1>3, <2>3, <2>4 DEF RaisedInvariant
<1>5. ASSUME NEW i \in Ids, Start(i) PROVE RaisedInvariant'
  BY <1>2, <1>3, <1>5, EnterEffect DEF Start, RaisedInvariant
<1>6. ASSUME NEW i \in Ids, Stop(i) PROVE RaisedInvariant'
  <2>1. op'.at = "kill" /\ op'.id = i /\ UNCHANGED <<proc, pidFile, config, taps>>
    BY <1>6 DEF Stop, Idle
  <2>2. pidFile[i] \in Pids /\ proc[pidFile[i]].st = "live"
    BY <1>6 DEF Stop, Running, CmdlineIdentifiesSpace, TypeOK
  <2>3. Tracked(i, pidFile[i])
    BY <2>2, HostAssumption DEF Tracked, OwnInvariant
  <2>4. config[i].cid \in taps
    BY <1>1, <2>2, <2>3 DEF TrackedHaveTaps
  <2>5. HandlerHasTap'
    BY <2>1, <2>4 DEF HandlerHasTap, cid, Spawning
  <2>6. QED
    BY <1>2, <2>1, <2>5 DEF RaisedInvariant
<1>7. ASSUME NEW i \in Ids, NEW name \in {"reset-system", "reset-all"},
             Reset(name, i)
      PROVE  RaisedInvariant'
  BY <1>2, <1>3, <1>7 DEF Reset, VolumeStep, Idle, RaisedInvariant
<1>8. ASSUME NEW i \in Ids, UpdateImage(i) PROVE RaisedInvariant'
  <2>1. op'.at \in {"ok", "imgsecret", "volumes"}
    BY <1>8 DEF UpdateImage, Enter, VolumeStep, Idle
  <2>2. QED
    BY <1>2, <1>3, <1>8, <2>1 DEF UpdateImage, RaisedInvariant
<1>9. ASSUME NEW i \in Ids, Destroy(i) PROVE RaisedInvariant'
  <2>1. i \in Stored(config) /\ \A p \in Pids : ~Tracked(i, p)
    BY <1>9, NotRunningNotTracked DEF Destroy
  <2>2. /\ UNCHANGED <<proc, pidFile, config>> /\ op'.at \in {"remove", "failed"}
        /\ taps \ {config[i].cid} \subseteq taps'
    BY <1>9, EnterEffect DEF Destroy
  <2>3. TrackedHaveTaps'
    BY <1>1, <2>1, <2>2, TapDropped DEF Tracked
  <2>4. QED
    BY <1>3, <2>2, <2>3 DEF RaisedInvariant
<1>10. QED
  BY <1>4, <1>5, <1>6, <1>7, <1>8, <1>9 DEF Request

LEMMA StepRaised ==
  ASSUME TypeOK, HandlerInvariant, CidsAreUnique, ReachInvariant, OwnInvariant,
         RaisedInvariant, Step
  PROVE  RaisedInvariant'
<1> USE DEF Goto, At, disk, images, run
<1>1. TrackedHaveTaps /\ HandlerHasTap /\ RunningSpaceIsReachable
  BY DEF RaisedInvariant, ReachInvariant
<1>2. ASSUME UNCHANGED <<proc, pidFile, taps>>,
             \A i \in Ids : config'[i].cid = config[i].cid
      PROVE  TrackedHaveTaps'
  BY <1>1, <1>2, TapsKept DEF Tracked
<1>3. ASSUME op'.at \notin {"secret", "spawn", "kill", "untap", "record"} \cup Spawning
      PROVE  HandlerHasTap'
  BY <1>3 DEF HandlerHasTap
<1>4. CASE WriteQemuImgSecret \/ RefreshRegistry \/ ApplyNft
  <2>1. op'.at \in {"volumes", "nft", "ok", "rollback", "failed"}
    BY <1>4 DEF WriteQemuImgSecret, RefreshRegistry, ApplyNft, AfterFailure, TypeOK,
                Handler
  <2>2. UNCHANGED <<proc, pidFile, taps, config>>
    BY <1>4 DEF WriteQemuImgSecret, RefreshRegistry, ApplyNft
  <2>3. QED
    BY <1>2, <1>3, <2>1, <2>2 DEF RaisedInvariant, Spawning
<1>5. CASE CreateVolumes
  <2>1. op'.at \in {"registry", "digest", "ok", "rollback", "failed"}
    BY <1>5 DEF CreateVolumes, AfterFailure, TypeOK, Handler
  <2>2. QED
    BY <1>2, <1>3, <1>5, <2>1 DEF CreateVolumes, RaisedInvariant, Spawning
<1>6. CASE RollbackCreate \/ RemoveSpace
  <2>1. op'.at \in {"registry", "failed"}
    BY <1>6 DEF RollbackCreate, RemoveSpace, TypeOK, Handler
  <2>2. op.id \in Ids /\ (op.name = "create" \/ op.at = "remove")
    BY <1>6 DEF RollbackCreate, RemoveSpace, HandlerInvariant, Idle
  <2>3. \A p \in Pids : ~Tracked(op.id, p)
    BY <2>2 DEF ReachInvariant, StartInvariant
  <2>4. /\ UNCHANGED <<proc, pidFile, taps>>
        /\ \A j \in Ids \ {op.id} : config'[j] = config[j]
    BY <1>6 DEF RollbackCreate, RemoveSpace, Removed, HalfRemoved, TypeOK, Stores
  <2>5. TrackedHaveTaps'
    BY <1>1, <2>3, <2>4 DEF TrackedHaveTaps, Tracked
  <2>6. QED
    BY <1>3, <2>1, <2>5 DEF RaisedInvariant, Spawning
<1>7. CASE ReapLeftoverTap \/ CreateTap \/ WriteRunningSecret
  <2>1. /\ op.at \in {"reap", "tap", "secret"} /\ op'.id = op.id
        /\ UNCHANGED <<proc, pidFile, config>>
    BY <1>7 DEF ReapLeftoverTap, CreateTap, WriteRunningSecret, TypeOK, Handler
  <2>2. op.id \in Stored(config) /\ \A p \in Pids : ~Tracked(op.id, p)
    BY <2>1 DEF HandlerInvariant, ReachInvariant, StartInvariant
  <2>3. taps \ {cid} \subseteq taps'
    BY <1>7 DEF ReapLeftoverTap, CreateTap, WriteRunningSecret,
                DeleteTapIgnoringErrors
  <2>4. TrackedHaveTaps'
    BY <1>1, <2>1, <2>2, <2>3, TapDropped DEF Tracked, cid
  <2>5. \/ op'.at \in {"tap", "failed"}
        \/ op'.at \in {"secret", "spawn"} /\ cid \in taps'
    BY <1>1, <1>7 DEF ReapLeftoverTap, CreateTap, WriteRunningSecret, HandlerHasTap,
                      TypeOK, Handler
  <2>6. HandlerHasTap'
    BY <2>1, <2>5 DEF HandlerHasTap, cid, Spawning
  <2>7. QED
    BY <2>4, <2>6 DEF RaisedInvariant
<1>8. CASE Spawn
  <2>1. op.at = "spawn" /\ op'.id = op.id /\ UNCHANGED <<pidFile, config>>
    BY <1>8 DEF Spawn, AbandonStart, TypeOK, Handler
  <2>2. op.id \in Stored(config) /\ \A p \in Pids : ~Tracked(op.id, p)
    BY <2>1 DEF HandlerInvariant, ReachInvariant, StartInvariant
  <2>3. ASSUME NEW i \in Ids, NEW p \in Pids, Tracked(i, p)'
        PROVE  Tracked(i, p)
    <3>1. pidFile[i] = p /\ proc[p].id = i
      BY <2>1, <2>3, HostAssumption DEF Tracked, OwnInvariant
    <3>2. proc[p] # FreePid
      BY <3>1, IdAssumption DEF FreePid
    <3>3. proc'[p] = proc[p]
      BY <1>8, <3>2 DEF Spawn, TypeOK
    <3>4. QED
      BY <2>3, <3>1, <3>3 DEF Tracked
  <2>4. \/ op'.at = "pidfile" /\ UNCHANGED taps
        \/ op'.at = "failed" /\ taps \ {cid} \subseteq taps'
    BY <1>8 DEF Spawn, AbandonStart, DeleteTapIgnoringErrors, TypeOK, Handler
  <2>5. TrackedHaveTaps'
    BY <1>1, <2>1, <2>2, <2>3, <2>4, TapDropped DEF cid
  <2>6. HandlerHasTap'
    BY <1>1, <2>1, <2>4 DEF HandlerHasTap, cid, Spawning
  <2>7. QED
    BY <2>5, <2>6 DEF RaisedInvariant
<1>9. CASE WritePidFile
  <2>1. /\ op.at = "pidfile" /\ op'.id = op.id /\ UNCHANGED <<proc, config>>
        /\ op.id \in Stored(config) /\ op.id \in Ids
    BY <1>9, StoredIsTyped
    DEF WritePidFile, AbandonStart, TypeOK, Handler, HandlerInvariant
  <2>2. CASE /\ pidFile' = [pidFile EXCEPT ![op.id] = op.pid]
             /\ op'.at = "settle" /\ UNCHANGED taps
    <3>1. cid \in taps
      BY <1>1, <2>1 DEF HandlerHasTap, Spawning
    <3>2. \A j \in Ids \ {op.id} : pidFile'[j] = pidFile[j]
      BY <2>2 DEF TypeOK
    <3>3. TrackedHaveTaps'
      BY <1>1, <2>1, <2>2, <3>1, <3>2 DEF TrackedHaveTaps, Tracked, cid
    <3>4. HandlerHasTap'
      BY <2>1, <2>2, <3>1 DEF HandlerHasTap, cid
    <3>5. QED
      BY <3>3, <3>4 DEF RaisedInvariant
  <2>3. CASE /\ \A i \in Ids : pidFile'[i] \in {pidFile[i], NoPid}
             /\ op'.at = "failed" /\ taps \ {cid} \subseteq taps'
    <3>1. \A i \in Ids, p \in Pids : Tracked(i, p)' => Tracked(i, p)
      BY <2>1, <2>3, HostAssumption DEF Tracked
    <3>2. \A p \in Pids : ~Tracked(op.id, p)
      BY <2>1, HostAssumption DEF Tracked, OwnInvariant
    <3>3. TrackedHaveTaps'
      BY <1>1, <2>1, <2>3, <3>1, <3>2, TapDropped DEF cid
    <3>4. QED
      BY <1>3, <2>3, <3>3 DEF RaisedInvariant, Spawning
  <2>4. QED
    BY <1>9, <2>1, <2>2, <2>3
    DEF WritePidFile, AbandonStart, DeleteTapIgnoringErrors, TypeOK, Handler
<1>10. ASSUME op.id \in Stored(config), op.id \in Ids, UNCHANGED config,
              taps \ {cid} \subseteq taps',
              pidFile'[op.id] = NoPid,
              \A j \in Ids \ {op.id} : pidFile'[j] = pidFile[j],
              \A p \in Pids : \/ proc'[p] = proc[p]
                              \/ proc'[p].st # "live"
       PROVE  TrackedHaveTaps'
  <2>1. \A i \in Ids, p \in Pids : Tracked(i, p)' => Tracked(i, p) /\ i # op.id
    BY <1>10, HostAssumption DEF Tracked
  <2>2. QED
    BY <1>1, <1>10, <2>1, TapDropped DEF cid
<1>11. CASE Settle
  <2>1. /\ op.at = "settle" /\ op'.id = op.id /\ UNCHANGED config
        /\ op.id \in Stored(config) /\ op.id \in Ids
    BY <1>11, StoredIsTyped DEF Settle, AbandonStart, TypeOK, Handler, HandlerInvariant
  <2>2. CASE /\ proc' = [proc EXCEPT ![op.pid] = FreePid]
             /\ pidFile' = [pidFile EXCEPT ![op.id] = NoPid]
             /\ op'.at = "failed" /\ taps \ {cid} \subseteq taps'
    <3>1. \A p \in Pids : proc'[p] = proc[p] \/ proc'[p].st # "live"
      BY <2>2 DEF TypeOK, FreePid
    <3>2. TrackedHaveTaps'
      BY <1>10, <2>1, <2>2, <3>1 DEF TypeOK
    <3>3. QED
      BY <1>3, <2>2, <3>2 DEF RaisedInvariant, Spawning
  <2>3. CASE UNCHANGED <<proc, pidFile, taps>> /\ op'.at = "agent"
    <3>1. HandlerHasTap'
      BY <1>1, <2>1, <2>3 DEF HandlerHasTap, cid, Spawning
    <3>2. QED
      BY <1>2, <2>1, <2>3, <3>1 DEF RaisedInvariant
  <2>4. QED
    BY <1>11, <2>2, <2>3 DEF Settle, AbandonStart, DeleteTapIgnoringErrors, TypeOK, Handler
<1>12. ASSUME NEW i \in Ids, KillAndReap(i)
       PROVE  /\ pidFile'[i] = NoPid
              /\ \A j \in Ids \ {i} : pidFile'[j] = pidFile[j]
              /\ \A p \in Pids : proc'[p] = proc[p] \/ proc'[p].st # "live"
  BY <1>12, KillAndReapEffect DEF FreePid
<1>13. CASE StartAppViaAgent
  <2>1. /\ op.at = "agent" /\ UNCHANGED config
        /\ op.id \in Stored(config) /\ op.id \in Ids
    BY <1>13, StoredIsTyped DEF StartAppViaAgent, HandlerInvariant
  <2>2. CASE UNCHANGED <<proc, pidFile, taps>> /\ op'.at = "ok"
    BY <1>2, <1>3, <2>1, <2>2 DEF RaisedInvariant, Spawning
  <2>3. CASE KillAndReap(op.id) /\ op'.at = "failed" /\ taps \ {cid} \subseteq taps'
    <3>1. TrackedHaveTaps'
      BY <1>10, <1>12, <2>1, <2>3
    <3>2. QED
      BY <1>3, <2>3, <3>1 DEF RaisedInvariant, Spawning
  <2>4. QED
    BY <1>13, <2>2, <2>3
    DEF StartAppViaAgent, AbandonStart, DeleteTapIgnoringErrors, TypeOK, Handler
<1>14. CASE StopKill
  <2>1. /\ op.at = "kill" /\ UNCHANGED <<config, taps>> /\ KillAndReap(op.id)
        /\ op.id \in Stored(config) /\ op.id \in Ids
        /\ op'.at = "untap" /\ op'.id = op.id
    BY <1>14, StoredIsTyped DEF StopKill, HandlerInvariant, TypeOK, Handler
  <2>2. TrackedHaveTaps'
    BY <1>10, <1>12, <2>1
  <2>3. HandlerHasTap'
    BY <1>1, <1>12, <2>1 DEF HandlerHasTap, cid, Spawning
  <2>4. QED
    BY <2>2, <2>3 DEF RaisedInvariant
<1>15. CASE StopDeleteTap
  <2>1. /\ op.at = "untap" /\ UNCHANGED <<proc, pidFile, config>>
        /\ op.id \in Stored(config) /\ op.id \in Ids
        /\ op'.at \in {"record", "failed"} /\ op'.id = op.id
        /\ taps \ {cid} \subseteq taps'
    BY <1>15, StoredIsTyped DEF StopDeleteTap, HandlerInvariant, TypeOK, Handler
  <2>2. pidFile[op.id] = NoPid
    BY <1>1, <2>1 DEF HandlerHasTap
  <2>3. TrackedHaveTaps'
    BY <1>10, <2>1, <2>2
  <2>4. HandlerHasTap'
    BY <2>1, <2>2 DEF HandlerHasTap, Spawning
  <2>5. QED
    BY <2>3, <2>4 DEF RaisedInvariant
<1>16. CASE StopRecord \/ SetDigest
  <2>1. op'.at \in {"ok", "failed"} /\ UNCHANGED <<proc, pidFile, taps>>
    BY <1>16 DEF StopRecord, SetDigest, TypeOK, Handler
  <2>2. \A i \in Ids : config'[i].cid = config[i].cid
    BY <1>16 DEF StopRecord, SetDigest, TypeOK, Stores, SpaceConfig, NoSpace
  <2>3. QED
    BY <1>2, <1>3, <2>1, <2>2 DEF RaisedInvariant, Spawning
<1>17. CASE Return
  BY <1>2, <1>3, <1>17 DEF Return, Idle, RaisedInvariant, Spawning
<1>18. QED
  BY <1>4, <1>5, <1>6, <1>7, <1>8, <1>9, <1>11, <1>13, <1>14, <1>15, <1>16, <1>17
  DEF Step

LEMMA NextRaised ==
  ASSUME TypeOK, HandlerInvariant, CidsAreUnique, ReachInvariant, OwnInvariant,
         RaisedInvariant, MaxCrashes = 0, [Next]_vars
  PROVE  RaisedInvariant'
<1> USE DEF disk, images, run
<1>1. ASSUME \A i \in Ids, p \in Pids : Tracked(i, p)' => Tracked(i, p),
             UNCHANGED <<pidFile, config, taps, op>>
      PROVE  RaisedInvariant'
  BY <1>1 DEF RaisedInvariant, TrackedHaveTaps, HandlerHasTap, cid
<1>2. ASSUME UNCHANGED <<proc, pidFile, config, taps, op>> PROVE RaisedInvariant'
  BY <1>1, <1>2 DEF Tracked
<1>3. ASSUME NEW p \in Pids, QemuExits(p) PROVE RaisedInvariant'
  BY <1>1, <1>3, QemuExitsEffect DEF Tracked
<1>4. ASSUME NEW p \in Pids, ForeignProcess(p) PROVE RaisedInvariant'
  BY <1>1, <1>4, ForeignProcessEffect, IdAssumption DEF Tracked
<1>5. CASE Request
  BY <1>5, RequestRaised DEF ReachInvariant
<1>6. CASE Step
  BY <1>6, StepRaised
<1>7. CASE Host
  BY <1>2, <1>3, <1>4, <1>7, NoCrashes
  DEF Host, PlaceTemplate, UnlinkLatest, LinkLatest, PruneScan, PruneCheck,
      PruneKeep, PruneTemplate, PruneEnds
<1>8. CASE UNCHANGED vars
  BY <1>2, <1>8 DEF vars
<1>9. QED
  BY <1>5, <1>6, <1>7, <1>8 DEF Next

-----------------------------------------------------------------------------
(* The passphrases.                                                        *)

\* A passphrase lies in /run while there is a pid file, or between the two steps
\* of start or stop that write or remove them.
SecretInvariant ==
  \A i \in secrets :
    \/ pidFile[i] # NoPid
    \/ op.id = i /\ op.at \in {"spawn", "pidfile", "untap", "record"}

\* The steps outside start and stop touch neither pid files nor passphrases.
LEMMA SecretSteps ==
  ASSUME TypeOK, MaxCrashes = 0, [Next]_vars
  PROVE  \/ WriteRunningSecret \/ Spawn \/ WritePidFile \/ Settle \/ StartAppViaAgent
         \/ StopKill \/ StopDeleteTap \/ StopRecord
         \/ /\ UNCHANGED <<pidFile, secrets>>
            /\ op' = op \/ op.at \notin {"spawn", "pidfile", "untap", "record"}
<1> USE DEF At, disk, images, run, Idle
<1>1. Request => /\ UNCHANGED <<pidFile, secrets>>
                 /\ op = Idle
  BY DEF Request, Create, Start, Stop, Reset, UpdateImage, Destroy, Enter
<1>2. Step => \/ WriteRunningSecret \/ Spawn \/ WritePidFile \/ Settle
              \/ StartAppViaAgent \/ StopKill \/ StopDeleteTap \/ StopRecord
              \/ /\ UNCHANGED <<pidFile, secrets>>
                 /\ op.at \notin {"spawn", "pidfile", "untap", "record"}
  BY DEF Step, WriteQemuImgSecret, CreateVolumes, RefreshRegistry, ApplyNft,
         RollbackCreate, ReapLeftoverTap, CreateTap, SetDigest, RemoveSpace, Return
<1>3. Host => UNCHANGED <<pidFile, secrets, op>>
  BY NoCrashes DEF Host, QemuExits, ForeignProcess, PlaceTemplate, UnlinkLatest,
                   LinkLatest, PruneScan, PruneCheck, PruneKeep, PruneTemplate, PruneEnds
<1>4. UNCHANGED vars => UNCHANGED <<pidFile, secrets, op>>
  BY DEF vars
<1>5. QED
  BY <1>1, <1>2, <1>3, <1>4 DEF Next

LEMMA NextSecret ==
  ASSUME TypeOK, HandlerInvariant, OwnInvariant, RaisedInvariant, SecretInvariant,
         MaxCrashes = 0, {"secret", "untap", "forget"} \cap FaultySteps = {}, [Next]_vars
  PROVE  SecretInvariant'
<1> USE HostAssumption DEF Goto, At, disk, images, run
<1>1. ~MayFail("secret") /\ ~MayFail("untap")
  BY DEF MayFail
<1>13. ASSUME NEW i, RemoveRunningSecret(i) PROVE secrets' = secrets \ {i}
  BY <1>13 DEF RemoveRunningSecret, MayFail
<1>2. ASSUME op.id \in Ids, secrets' = secrets \ {op.id},
             \A j \in Ids \ {op.id} : pidFile'[j] = pidFile[j]
      PROVE  SecretInvariant'
  BY <1>2 DEF SecretInvariant, TypeOK
<1>3. CASE WriteRunningSecret
  <2>1. /\ op.at = "secret" /\ secrets' = secrets \cup {op.id} /\ UNCHANGED pidFile
        /\ op'.at = "spawn" /\ op'.id = op.id
    BY <1>1, <1>3 DEF WriteRunningSecret, TypeOK, Handler
  <2>2. QED
    BY <2>1 DEF SecretInvariant
<1>4. CASE Spawn
  <2>1. op.id \in Ids /\ op.at = "spawn" /\ op'.id = op.id /\ UNCHANGED pidFile
    <3>1. op.at = "spawn" /\ UNCHANGED pidFile
      BY <1>4 DEF Spawn
    <3>2. op.id \in Ids
      BY <3>1, StartIsTyped DEF HandlerInvariant
    <3>3. \/ \E p \in Pids : op' = [op EXCEPT !.pid = p, !.at = "pidfile"]
          \/ op' = [op EXCEPT !.at = "failed"]
      BY <1>4 DEF Spawn, AbandonStart
    <3>5. op \in Handler
      BY DEF TypeOK
    <3>6. op' = [op EXCEPT !.at = "failed"] => op'.id = op.id
      BY <3>5 DEF Handler
    <3>7. ASSUME NEW p \in Pids, op' = [op EXCEPT !.pid = p, !.at = "pidfile"]
          PROVE  op'.id = op.id
      BY <3>5, <3>7 DEF Handler
    <3>4. op'.id = op.id
      BY <3>3, <3>6, <3>7
    <3> QED BY <3>1, <3>2, <3>4
  <2>2. \/ op'.at = "pidfile" /\ UNCHANGED secrets
        \/ secrets' = secrets \ {op.id}
    BY <1>4, <1>13 DEF Spawn, AbandonStart, TypeOK, Handler
  <2>3. QED
    BY <1>2, <2>1, <2>2 DEF SecretInvariant
<1>5. CASE WritePidFile
  <2>1. op.id \in Ids /\ op.at = "pidfile" /\ op.pid \in Pids
    BY <1>5, StartIsTyped DEF WritePidFile, HandlerInvariant, OwnInvariant
  <2>2. /\ \A j \in Ids \ {op.id} : pidFile'[j] = pidFile[j]
        /\ \/ pidFile'[op.id] = op.pid /\ UNCHANGED secrets
           \/ secrets' = secrets \ {op.id}
    BY <1>5, <1>13, <2>1 DEF WritePidFile, AbandonStart, TypeOK
  <2>3. QED
    BY <1>2, <2>1, <2>2 DEF SecretInvariant, TypeOK
<1>6. CASE Settle
  <2>1. op.id \in Ids /\ op.at = "settle"
    BY <1>6, StartIsTyped DEF Settle, HandlerInvariant
  <2>2. /\ \A j \in Ids \ {op.id} : pidFile'[j] = pidFile[j]
        /\ \/ UNCHANGED <<pidFile, secrets>>
           \/ secrets' = secrets \ {op.id}
    BY <1>6, <1>13 DEF Settle, AbandonStart, TypeOK
  <2>3. QED
    BY <1>2, <2>1, <2>2 DEF SecretInvariant
<1>7. CASE StartAppViaAgent
  <2>1. op.id \in Ids /\ op.at = "agent"
    BY <1>7, StartIsTyped DEF StartAppViaAgent, HandlerInvariant
  <2>2. /\ \A j \in Ids \ {op.id} : pidFile'[j] = pidFile[j]
        /\ \/ UNCHANGED <<pidFile, secrets>>
           \/ secrets' = secrets \ {op.id}
    BY <1>7, <1>13 DEF StartAppViaAgent, KillAndReap, AbandonStart, TypeOK
  <2>3. QED
    BY <1>2, <2>1, <2>2 DEF SecretInvariant
<1>8. CASE StopKill
  <2>1. /\ op.id \in Ids /\ op.at = "kill" /\ op'.at = "untap" /\ op'.id = op.id
        /\ UNCHANGED secrets
    BY <1>8, StoredIsTyped DEF StopKill, HandlerInvariant, TypeOK, Handler
  <2>2. \A j \in Ids \ {op.id} : pidFile'[j] = pidFile[j]
    BY <1>8 DEF StopKill, KillAndReap, TypeOK
  <2>3. QED
    BY <2>1, <2>2 DEF SecretInvariant, TypeOK
<1>9. CASE StopDeleteTap
  <2>1. op.at = "untap" /\ cid \in taps
    BY <1>9 DEF StopDeleteTap, RaisedInvariant, HandlerHasTap
  <2>2. op'.at = "record" /\ op'.id = op.id /\ UNCHANGED <<pidFile, secrets>>
    BY <1>1, <1>9, <2>1 DEF StopDeleteTap, TypeOK, Handler
  <2>3. QED
    BY <2>2 DEF SecretInvariant
<1>10. CASE StopRecord
  BY <1>2, <1>10, <1>13, StoredIsTyped DEF StopRecord, HandlerInvariant
<1>11. ASSUME UNCHANGED <<pidFile, secrets>>,
              op' = op \/ op.at \notin {"spawn", "pidfile", "untap", "record"}
       PROVE  SecretInvariant'
  BY <1>11 DEF SecretInvariant
<1>12. QED
  BY <1>3, <1>4, <1>5, <1>6, <1>7, <1>8, <1>9, <1>10, <1>11, SecretSteps

-----------------------------------------------------------------------------
(* The registry and the bridge rules.                                      *)

\* create before its two files are written, with the rollback ahead if one
\* cannot be.
Creating(i) ==
  /\ op.name = "create" /\ op.id = i
  /\ op.at \in {"imgsecret", "volumes", "registry", "nft", "rollback"}

\* The registry is a rendering of this or an earlier store, so a CID in it has
\* one id, and every stored space is in both files unless it is being created.
RegistryInvariant ==
  /\ \A i, j \in Ids : registry[i] # NoCid /\ registry[i] = registry[j] => i = j
  /\ \A i \in Stored(config) :
       \/ registry[i] = config[i].cid /\ config[i].cid \in nft
       \/ Creating(i) /\ (op.at = "nft" => registry[i] = config[i].cid)

\* While the volumes are made: where the handler goes next, and the overlay.
LEMMA VolumesEffect ==
  ASSUME TypeOK, CreateVolumes
  PROVE  /\ op.at = "volumes"
         /\ op'.name = op.name /\ op'.id = op.id /\ op'.digest = op.digest
         /\ \/ /\ overlay' = [overlay EXCEPT ![op.id] = op.digest]
               /\ op.name = "create" => op'.at = "registry"
               /\ op.name = "update-image" => op'.at = "digest"
               /\ op.name \notin {"create", "update-image"} => op'.at = "ok"
            \/ /\ UNCHANGED overlay \/ MayFail("volumes")
               /\ op.name = "create" => op'.at = "rollback"
               /\ op.name # "create" => op'.at = "failed"
<1> USE DEF Goto, At
<1>1. op.at = "volumes"
  BY DEF CreateVolumes
<1>2. op'.name = op.name /\ op'.id = op.id /\ op'.digest = op.digest
  BY DEF CreateVolumes, TypeOK, Handler
<1>3. ASSUME Goto(CASE op.name = "create"       -> "registry"
                    [] op.name = "update-image" -> "digest"
                    [] OTHER                    -> "ok")
      PROVE  /\ op.name = "create" => op'.at = "registry"
             /\ op.name = "update-image" => op'.at = "digest"
             /\ op.name \notin {"create", "update-image"} => op'.at = "ok"
  <2>1. CASE op.name = "create"
    BY <1>3, <2>1 DEF TypeOK, Handler
  <2>2. CASE op.name = "update-image"
    BY <1>3, <2>2 DEF TypeOK, Handler
  <2>3. CASE op.name \notin {"create", "update-image"}
    BY <1>3, <2>3 DEF TypeOK, Handler
  <2>4. QED
    BY <2>1, <2>2, <2>3
<1>4. ASSUME Goto(AfterFailure)
      PROVE  /\ op.name = "create" => op'.at = "rollback"
             /\ op.name # "create" => op'.at = "failed"
  BY <1>4 DEF AfterFailure, TypeOK, Handler
<1>5. QED
  BY <1>1, <1>2, <1>3, <1>4 DEF CreateVolumes

LEMMA NextRegistry ==
  ASSUME TypeOK, HandlerInvariant, CidsAreUnique, RegistryInvariant,
         MaxCrashes = 0, "rollback" \notin FaultySteps, [Next]_vars
  PROVE  RegistryInvariant'
<1> USE DEF Goto, At, disk, images, run
<1>1. ASSUME UNCHANGED <<registry, nft>>,
             \A i \in Stored(config') : i \in Stored(config) /\ config'[i].cid = config[i].cid,
             \A i \in Stored(config') : Creating(i) => Creating(i)' /\ op'.at # "nft"
      PROVE  RegistryInvariant'
  BY <1>1 DEF RegistryInvariant
<1>2. ASSUME UNCHANGED <<registry, nft, config>>, \A i \in Ids : ~Creating(i)
      PROVE  RegistryInvariant'
  BY <1>1, <1>2 DEF Stored
<1>3. ASSUME NEW i \in Ids, NEW e \in Encryption, Create(i, e)
      PROVE  RegistryInvariant'
  <2>1. /\ UNCHANGED <<registry, nft>> /\ op = Idle
        /\ \A j \in Ids \ {i} : config'[j] = config[j]
    BY <1>3 DEF Create, TypeOK, Stores
  <2>2. op'.name = "create" /\ op'.id = i /\ op'.at \in {"imgsecret", "volumes"}
    BY <1>3 DEF Create, Idle
  <2>3. \A j \in Ids : ~Creating(j)
    BY <2>1 DEF Creating, Idle
  <2>4. \A j \in Stored(config') \ {i} : j \in Stored(config) /\ config'[j] = config[j]
    BY <2>1 DEF Stored
  <2>5. Creating(i)'
    BY <2>2 DEF Creating
  <2>6. \A j \in Stored(config') \ {i} :
          registry[j] = config'[j].cid /\ config'[j].cid \in nft
    BY <2>3, <2>4 DEF RegistryInvariant, Stored
  <2>7. Creating(i)' /\ op'.at # "nft"
    BY <2>2, <2>5
  <2>8. QED
    BY <2>1, <2>6, <2>7 DEF RegistryInvariant
<1>4. CASE Request
  <2>1. ASSUME op = Idle, UNCHANGED <<registry, nft, config>>
        PROVE  RegistryInvariant'
    BY <1>2, <2>1 DEF Creating, Idle
  <2>2. ASSUME NEW i \in Ids,
               \/ Start(i) \/ Stop(i) \/ Destroy(i) \/ UpdateImage(i)
               \/ \E name \in {"reset-system", "reset-all"} : Reset(name, i)
        PROVE  RegistryInvariant'
    BY <2>1, <2>2 DEF Start, Stop, Destroy, UpdateImage, Reset, Enter
  <2>3. QED
    BY <1>3, <1>4, <2>2 DEF Request
<1>5. CASE WriteQemuImgSecret
  <2>1. /\ op.at = "imgsecret" /\ op'.name = op.name /\ op'.id = op.id
        /\ op.name = "create" => op'.at \in {"volumes", "rollback"}
        /\ UNCHANGED <<registry, nft, config>>
    BY <1>5 DEF WriteQemuImgSecret, AfterFailure, TypeOK, Handler
  <2>2. QED
    BY <1>1, <2>1 DEF Creating, Stored
<1>6. CASE CreateVolumes
  <2>1. /\ op'.name = op.name /\ op'.id = op.id
        /\ op.name = "create" => op'.at \in {"registry", "rollback"}
    BY <1>6, VolumesEffect
  <2>2. UNCHANGED <<registry, nft, config>>
    BY <1>6 DEF CreateVolumes
  <2>3. QED
    BY <1>1, <2>1, <2>2 DEF Creating, Stored
<1>7. CASE RefreshRegistry
  <2>1. /\ op.at = "registry" /\ op'.name = op.name /\ op'.id = op.id
        /\ UNCHANGED <<nft, config>>
    BY <1>7 DEF RefreshRegistry, AfterFailure, TypeOK, Handler
  <2>2. CASE UNCHANGED registry /\ op'.at = AfterFailure
    BY <1>1, <2>1, <2>2 DEF Creating, Stored, AfterFailure
  <2>3. CASE registry' = RenderRegistry(config) /\ op'.at = "nft"
    <3>1. \A i \in Ids : registry'[i] = config[i].cid
      BY <2>3 DEF RenderRegistry
    <3>2. \A i, j \in Ids : registry'[i] # NoCid /\ registry'[i] = registry'[j] => i = j
      BY <3>1 DEF CidsAreUnique, Stored
    <3>3. \A i \in Stored(config) : Creating(i) => Creating(i)'
      BY <2>1, <2>3 DEF Creating
    <3>4. QED
      BY <2>1, <3>1, <3>2, <3>3 DEF RegistryInvariant, Stored
  <2>4. QED
    BY <1>7, <2>2, <2>3 DEF RefreshRegistry, TypeOK, Handler
<1>8. CASE ApplyNft
  <2>1. /\ op.at = "nft" /\ op'.name = op.name /\ op'.id = op.id
        /\ UNCHANGED <<registry, config>>
    BY <1>8 DEF ApplyNft, AfterFailure, TypeOK, Handler
  <2>2. CASE UNCHANGED nft /\ op'.at = AfterFailure
    BY <1>1, <2>1, <2>2 DEF Creating, Stored, AfterFailure
  <2>3. CASE nft' = RenderNft(config)
    <3>1. \A i \in Stored(config) : config[i].cid \in nft'
      BY <2>3 DEF RenderNft, CidsOf
    <3>2. \A i \in Stored(config) : registry[i] = config[i].cid
      BY <2>1 DEF RegistryInvariant
    <3>3. QED
      BY <2>1, <3>1, <3>2 DEF RegistryInvariant, Stored
  <2>4. QED
    BY <1>8, <2>2, <2>3 DEF ApplyNft, TypeOK, Handler
<1>9. CASE RollbackCreate \/ RemoveSpace
  <2>1. /\ op.id \in Ids /\ UNCHANGED <<registry, nft>>
        /\ op.at = "rollback" \/ (op.at = "remove" /\ op.name = "destroy")
    BY <1>9 DEF RollbackCreate, RemoveSpace, HandlerInvariant, Idle
  <2>2. /\ config'[op.id] \in {config[op.id], NoSpace}
        /\ \A j \in Ids \ {op.id} : config'[j] = config[j]
        /\ op.at = "rollback" => config'[op.id] = NoSpace
    BY <1>9, <2>1
    DEF RollbackCreate, RemoveSpace, Removed, HalfRemoved, MayFail, TypeOK, Stores
  <2>3. \A i \in Stored(config') : i \in Stored(config) /\ config'[i].cid = config[i].cid
    BY <2>1, <2>2 DEF Stored, NoSpace
  <2>4. \A i \in Stored(config') : ~Creating(i)
    BY <2>1, <2>2 DEF Stored, NoSpace, Creating
  <2>5. QED
    BY <1>1, <2>1, <2>3, <2>4
<1>10. ASSUME op.at \in {"reap", "tap", "secret", "spawn", "pidfile", "settle", "agent",
                         "kill", "untap", "ok", "failed"},
              UNCHANGED <<registry, nft, config>>
       PROVE  RegistryInvariant'
  BY <1>2, <1>10 DEF Creating
<1>11. CASE ReapLeftoverTap \/ CreateTap \/ WriteRunningSecret \/ Spawn
            \/ WritePidFile \/ Settle \/ StartAppViaAgent \/ StopKill \/ StopDeleteTap
            \/ Return
  BY <1>10, <1>11
  DEF ReapLeftoverTap, CreateTap, WriteRunningSecret, Spawn, WritePidFile, Settle,
      StartAppViaAgent, StopKill, StopDeleteTap, Return
<1>12. CASE StopRecord \/ SetDigest
  <2>1. op.at \in {"record", "digest"} /\ UNCHANGED <<registry, nft>>
    BY <1>12 DEF StopRecord, SetDigest
  <2>2. \A i \in Ids : config'[i].cid = config[i].cid
    BY <1>12 DEF StopRecord, SetDigest, TypeOK, Stores, SpaceConfig, NoSpace
  <2>3. QED
    BY <1>1, <2>1, <2>2 DEF Creating, Stored
<1>13. ASSUME UNCHANGED <<registry, nft, config, op>> PROVE RegistryInvariant'
  BY <1>13 DEF RegistryInvariant, Creating, Stored
<1>14. CASE Step
  BY <1>5, <1>6, <1>7, <1>8, <1>9, <1>11, <1>12, <1>14 DEF Step
<1>15. CASE Host
  BY <1>13, <1>15, NoCrashes
  DEF Host, QemuExits, ForeignProcess, PlaceTemplate, UnlinkLatest, LinkLatest,
      PruneScan, PruneCheck, PruneKeep, PruneTemplate, PruneEnds
<1>16. CASE UNCHANGED vars
  BY <1>13, <1>16 DEF vars
<1>17. QED
  BY <1>4, <1>14, <1>15, <1>16 DEF Next

-----------------------------------------------------------------------------
(* Overlays and digests.                                                   *)

\* An overlay lies on the digest in its config, unless create has not made it
\* yet or update-image has not recorded it yet; the digest a handler took at
\* its first step is still the one in the config when it makes the overlay.
OverlayInvariant ==
  /\ op.at \in {"imgsecret", "volumes"} /\ op.name # "update-image"
       => op.digest = config[op.id].digest
  /\ op.at = "digest" => overlay[op.id] = op.digest
  /\ \A i \in Stored(config) :
       \/ overlay[i] = config[i].digest
       \/ /\ op.id = i
          /\ \/ op.name = "create" /\ op.at \in {"imgsecret", "volumes", "rollback"}
             \/ op.at = "digest"

LEMMA NextOverlay ==
  ASSUME TypeOK, HandlerInvariant, OverlayInvariant, MaxCrashes = 0,
         {"volumes", "rollback", "remove", "digest"} \cap FaultySteps = {},
         [Next]_vars
  PROVE  OverlayInvariant'
<1> USE DEF Goto, At, disk, images, run
<1>1. /\ ~MayFail("volumes") /\ ~MayFail("rollback")
      /\ ~MayFail("remove") /\ ~MayFail("digest")
  BY DEF MayFail
<1> DEFINE Open == /\ op.at \in {"imgsecret", "volumes", "rollback", "digest"}
<1>2. ASSUME UNCHANGED <<overlay, config>>, ~Open,
             op'.at \notin {"imgsecret", "volumes", "digest"}
      PROVE  OverlayInvariant'
  BY <1>2 DEF OverlayInvariant, Stored
<1>3. ASSUME NEW i \in Ids, NEW e \in Encryption, Create(i, e)
      PROVE  OverlayInvariant'
  <2>1. /\ UNCHANGED overlay /\ op = Idle
        /\ config' = [config EXCEPT ![i] = NewSpace(config, taps, TemplateDigest, e)]
    BY <1>3 DEF Create
  <2>2. /\ op'.name = "create" /\ op'.id = i /\ op'.digest = TemplateDigest
        /\ op'.at \in {"imgsecret", "volumes"}
    BY <1>3 DEF Create, Idle
  <2>3. /\ config'[i].digest = TemplateDigest
        /\ \A j \in Ids \ {i} : config'[j] = config[j]
    BY <2>1 DEF TypeOK, Stores, NewSpace
  <2>4. \A j \in Stored(config') \ {i} : j \in Stored(config) /\ overlay[j] = config[j].digest
    BY <2>1, <2>3 DEF Stored, OverlayInvariant, Idle
  <2>5. \A j \in Stored(config') \ {i} : config'[j] = config[j]
    BY <2>3 DEF Stored
  <2>6. op'.digest = config'[op'.id].digest
    BY <2>2, <2>3
  <2>7. ASSUME NEW j \in Stored(config')
        PROVE  \/ overlay'[j] = config'[j].digest
               \/ op'.id = j /\ op'.name = "create" /\ op'.at \in {"imgsecret", "volumes"}
    BY <2>1, <2>2, <2>4, <2>5
  <2>8. QED
    BY <2>2, <2>6, <2>7 DEF OverlayInvariant
<1>4. ASSUME NEW i \in Ids, Start(i) \/ Stop(i) \/ Destroy(i) PROVE OverlayInvariant'
  <2>1. /\ op.at = "idle" /\ UNCHANGED <<overlay, config>>
        /\ op'.at \in {"reap", "failed", "kill", "remove"}
    <3>1. CASE Start(i)
      BY <3>1, EnterEffect DEF Start
    <3>2. CASE Stop(i)
      BY <3>2 DEF Stop, Idle
    <3>3. CASE Destroy(i)
      BY <3>3, EnterEffect DEF Destroy
    <3>4. QED
      BY <1>4, <3>1, <3>2, <3>3
  <2>2. QED
    BY <1>2, <2>1
<1>5. ASSUME NEW i \in Ids, NEW name \in {"reset-system", "reset-all"},
             Reset(name, i)
      PROVE  OverlayInvariant'
  <2>1. op = Idle /\ UNCHANGED <<overlay, config>>
    BY <1>5 DEF Reset
  <2>2. /\ op'.name = name /\ op'.id = i /\ op'.digest = config[i].digest
        /\ op'.at \in {"imgsecret", "volumes"}
    BY <1>5 DEF Reset, Idle, VolumeStep
  <2>3. QED
    BY <2>1, <2>2 DEF OverlayInvariant, Stored, Idle
<1>6. ASSUME NEW i \in Ids, UpdateImage(i) PROVE OverlayInvariant'
  <2>1. op = Idle /\ UNCHANGED <<overlay, config>>
    BY <1>6 DEF UpdateImage
  <2>2. op'.name = "update-image" /\ op'.at \in {"ok", "imgsecret", "volumes"}
    BY <1>6 DEF UpdateImage, Enter, Idle, VolumeStep
  <2>3. QED
    BY <2>1, <2>2 DEF OverlayInvariant, Stored, Idle
<1>7. CASE Request
  BY <1>3, <1>4, <1>5, <1>6, <1>7 DEF Request
<1>8. CASE WriteQemuImgSecret
  <2>1. /\ op.at = "imgsecret" /\ UNCHANGED <<overlay, config>>
        /\ op'.name = op.name /\ op'.id = op.id /\ op'.digest = op.digest
        /\ op'.at \in {"volumes", AfterFailure}
    BY <1>8 DEF WriteQemuImgSecret, TypeOK, Handler
  <2>2. QED
    BY <2>1 DEF OverlayInvariant, AfterFailure, Stored
<1>9. CASE CreateVolumes
  <2>1. op.id \in Ids /\ op.at = "volumes" /\ UNCHANGED config
    BY <1>9 DEF CreateVolumes, HandlerInvariant, Idle
  <2>2. op'.name = op.name /\ op'.id = op.id /\ op'.digest = op.digest
    BY <1>9, VolumesEffect
  <2>3. CASE /\ overlay' = [overlay EXCEPT ![op.id] = op.digest]
             /\ op.name = "create" => op'.at = "registry"
             /\ op.name = "update-image" => op'.at = "digest"
             /\ op.name \notin {"create", "update-image"} => op'.at = "ok"
    <3>1. /\ overlay'[op.id] = op.digest
          /\ \A j \in Ids \ {op.id} : overlay'[j] = overlay[j]
      BY <2>1, <2>3 DEF TypeOK
    <3>2. op.name # "update-image" => overlay'[op.id] = config[op.id].digest
      BY <2>1, <3>1 DEF OverlayInvariant
    <3>3. \A j \in Stored(config) \ {op.id} : overlay'[j] = config[j].digest
      BY <2>1, <3>1 DEF OverlayInvariant, Stored
    <3>4. op'.at \in {"registry", "digest", "ok"}
      BY <2>3
    <3>5. QED
      BY <2>1, <2>2, <2>3, <3>1, <3>2, <3>3, <3>4 DEF OverlayInvariant, Stored
  <2>4. CASE /\ UNCHANGED overlay
             /\ op.name = "create" => op'.at = "rollback"
             /\ op.name # "create" => op'.at = "failed"
    BY <2>1, <2>2, <2>4 DEF OverlayInvariant, Stored
  <2>5. QED
    BY <1>1, <1>9, <2>3, <2>4, VolumesEffect
<1>10. CASE RefreshRegistry \/ ApplyNft
  <2>1. /\ op.at \in {"registry", "nft"} /\ UNCHANGED <<overlay, config>>
        /\ op'.at \in {"nft", "ok", "rollback", "failed"}
    BY <1>10 DEF RefreshRegistry, ApplyNft, AfterFailure, TypeOK, Handler
  <2>2. QED
    BY <1>2, <2>1
<1>11. CASE RollbackCreate \/ RemoveSpace
  <2>1. /\ op.id \in Ids /\ op.at \in {"rollback", "remove"}
        /\ op'.at \in {"registry", "failed"} /\ Removed
    BY <1>1, <1>11 DEF RollbackCreate, RemoveSpace, HandlerInvariant, Idle, TypeOK, Handler
  <2>2. /\ config'[op.id] = NoSpace
        /\ \A j \in Ids \ {op.id} : config'[j] = config[j] /\ overlay'[j] = overlay[j]
    BY <2>1 DEF Removed, TypeOK, Stores
  <2>3. \A j \in Stored(config') : j \in Stored(config) /\ j # op.id
    BY <2>2 DEF Stored, NoSpace
  <2>4. \A j \in Stored(config') : overlay'[j] = config'[j].digest
    BY <2>1, <2>2, <2>3 DEF OverlayInvariant, Stored
  <2>5. QED
    BY <2>1, <2>4 DEF OverlayInvariant
<1>12. CASE ReapLeftoverTap \/ CreateTap \/ WriteRunningSecret \/ StopKill
            \/ StopDeleteTap \/ Return
  <2>1. /\ op.at \in {"reap", "tap", "secret", "kill", "untap", "ok", "failed"}
        /\ UNCHANGED <<overlay, config>>
        /\ op'.at \in {"tap", "secret", "spawn", "untap", "record", "failed", "idle"}
    BY <1>12 DEF ReapLeftoverTap, CreateTap, WriteRunningSecret, StopKill,
                 StopDeleteTap, Return, Idle, TypeOK, Handler
  <2>2. QED
    BY <1>2, <2>1
<1>13. CASE Spawn \/ WritePidFile \/ Settle \/ StartAppViaAgent
  <2>1. /\ op.at \in {"spawn", "pidfile", "settle", "agent"}
        /\ UNCHANGED <<overlay, config>>
        /\ op'.at \in {"pidfile", "settle", "agent", "ok", "failed"}
    BY <1>13 DEF Spawn, WritePidFile, Settle, StartAppViaAgent, AbandonStart, TypeOK,
                 Handler
  <2>2. QED
    BY <1>2, <2>1
<1>14. CASE StopRecord
  <2>1. op.at = "record" /\ op'.at \in {"ok", "failed"} /\ UNCHANGED overlay
    BY <1>14 DEF StopRecord, TypeOK, Handler
  <2>2. \A i \in Ids : /\ config'[i].cid = config[i].cid
                       /\ config'[i].digest = config[i].digest
    BY <1>14 DEF StopRecord, TypeOK, Stores, SpaceConfig, NoSpace
  <2>3. QED
    BY <2>1, <2>2 DEF OverlayInvariant, Stored
<1>15. CASE SetDigest
  <2>1. op.at = "digest" /\ op'.at = "ok" /\ UNCHANGED overlay /\ op.id \in Ids
    BY <1>1, <1>15, StoredIsTyped DEF SetDigest, HandlerInvariant, TypeOK, Handler
  <2>2. config' = [config EXCEPT ![op.id].digest = op.digest]
    BY <1>1, <1>15 DEF SetDigest
  <2>3. /\ \A i \in Ids \ {op.id} : config'[i] = config[i]
        /\ config'[op.id].digest = op.digest
    BY <2>1, <2>2 DEF TypeOK, Stores, SpaceConfig, NoSpace
  <2>4. overlay[op.id] = op.digest
    BY <2>1 DEF OverlayInvariant
  <2>5. QED
    BY <2>1, <2>3, <2>4 DEF OverlayInvariant, Stored
<1>16. ASSUME UNCHANGED <<overlay, config, op>> PROVE OverlayInvariant'
  BY <1>16 DEF OverlayInvariant, Stored
<1>17. CASE Step
  BY <1>8, <1>9, <1>10, <1>11, <1>12, <1>13, <1>14, <1>15, <1>17 DEF Step
<1>18. CASE Host
  BY <1>16, <1>18, NoCrashes
  DEF Host, QemuExits, ForeignProcess, PlaceTemplate, UnlinkLatest, LinkLatest,
      PruneScan, PruneCheck, PruneKeep, PruneTemplate, PruneEnds
<1>19. CASE UNCHANGED vars
  BY <1>16, <1>19 DEF vars
<1>20. QED
  BY <1>7, <1>17, <1>18, <1>19 DEF Next

-----------------------------------------------------------------------------
(* The theorems about a daemon that does not die.                          *)

Living ==
  /\ Inductive
  /\ OwnInvariant
  /\ VolumeInvariant
  /\ RaisedInvariant

LEMMA InitLiving == Init => Living
<1> SUFFICES ASSUME Init PROVE Living
  OBVIOUS
<1>1. Inductive
  BY InitInductive
<1>2. op.at = "idle"
  BY DEF Init, Idle
<1>3. OwnInvariant
  BY <1>2 DEF Init, OwnInvariant, FreePid
<1>4. VolumeInvariant
  BY <1>2 DEF VolumeInvariant
<1>5. RaisedInvariant
  BY <1>2, HostAssumption
  DEF Init, RaisedInvariant, TrackedHaveTaps, HandlerHasTap, Tracked, Spawning
<1>6. QED
  BY <1>1, <1>3, <1>4, <1>5 DEF Living

LEMMA NextLiving ==
  ASSUME MaxCrashes = 0, Living, [Next]_vars
  PROVE  Living'
<1>1. TypeOK /\ HandlerInvariant /\ CidInvariant /\ ReachInvariant /\ CidsAreUnique
  BY DEF Living, Inductive, CidInvariant, ReachInvariant
<1>2. Inductive'
  BY <1>1, NextTypeOK, NextHandler, NextCid, NextReach
  DEF Inductive, CidInvariant, ReachInvariant
<1>3. OwnInvariant'
  BY <1>1, NextOwn DEF Living
<1>4. VolumeInvariant'
  BY <1>1, NextVolume DEF Living
<1>5. RaisedInvariant'
  BY <1>1, NextRaised DEF Living
<1>6. QED
  BY <1>2, <1>3, <1>4, <1>5 DEF Living

LEMMA AlwaysLiving ==
  ASSUME MaxCrashes = 0
  PROVE  Spec => []Living
<1>1. Living /\ [Next]_vars => Living'
  BY NextLiving
<1>2. QED
  BY <1>1, InitLiving, PTL DEF Spec

\* Living with TrackInvariant, while every pid file can be written.
LEMMA AlwaysTracked ==
  ASSUME MaxCrashes = 0, "pidfile" \notin FaultySteps
  PROVE  Spec => [](Living /\ TrackInvariant)
<1>1. Init => TrackInvariant
  BY DEF Init, TrackInvariant, FreePid
<1>2. Living /\ TrackInvariant /\ [Next]_vars => TrackInvariant'
  BY NextTrack DEF Living, Inductive, ReachInvariant
<1>3. QED
  BY <1>1, <1>2, AlwaysLiving, PTL DEF Spec

\* Whatever else fails, a live QEMU is the one its pid file names, and the handle
\* that stop would kill is its own.
THEOREM EveryQemuIsTrackedTheorem ==
  ASSUME MaxCrashes = 0, "pidfile" \notin FaultySteps
  PROVE  Spec => []EveryQemuIsTracked
<1>1. ASSUME Living, TrackInvariant PROVE EveryQemuIsTracked
  BY <1>1 DEF EveryQemuIsTracked, TrackInvariant, Tracked
<1>2. QED
  BY <1>1, AlwaysTracked, PTL

\* reject_if_running looks once, at the first line of the handler; no QEMU of the
\* space appears before the last volume is made or removed.
THEOREM NoVolumeWorkTheorem ==
  ASSUME MaxCrashes = 0, "pidfile" \notin FaultySteps
  PROVE  Spec => []NoVolumeWorkUnderLiveQemu
<1>1. ASSUME Living, TrackInvariant PROVE NoVolumeWorkUnderLiveQemu
  <2> SUFFICES ASSUME op.at \in {"imgsecret", "volumes", "rollback", "remove"},
                      NEW p \in Pids, proc[p].st = "live", proc[p].id = op.id
               PROVE  FALSE
    BY DEF NoVolumeWorkUnderLiveQemu
  <2>1. op.id \in Ids /\ op.id # NoId
    BY <1>1, IdAssumption DEF Living, Inductive, HandlerInvariant, Idle
  <2>2. Tracked(op.id, p)
    BY <1>1, <2>1 DEF TrackInvariant, Tracked
  <2>3. ~Tracked(op.id, p)
    BY <1>1 DEF Living, Inductive, HandlerInvariant, StartInvariant, VolumeInvariant
  <2>4. QED
    BY <2>2, <2>3
<1>2. QED
  BY <1>1, AlwaysTracked, PTL

\* Once start or stop has returned, a passphrase is left in /run only for a QEMU
\* that the pid file of the space still leads to: every failure after
\* write_running_secret removes it, stop gets as far as removing it because the
\* tap of a running space is there, and no pid on file is given away before the
\* daemon has waited for it.
THEOREM SecretTheorem ==
  ASSUME MaxCrashes = 0, {"secret", "untap", "forget"} \cap FaultySteps = {}
  PROVE  Spec => []SecretHasItsQemu
<1>1. Init => SecretInvariant
  BY DEF Init, SecretInvariant
<1>2. Living /\ SecretInvariant /\ [Next]_vars => SecretInvariant'
  BY NextSecret DEF Living, Inductive
<1>3. ASSUME Living, SecretInvariant PROVE SecretHasItsQemu
  <2> SUFFICES ASSUME NEW i \in secrets,
                      ~(op.id = i /\ op.name \in {"start", "stop"})
               PROVE  \E p \in Pids : pidFile[i] = p /\ proc[p].id = i
    BY DEF SecretHasItsQemu
  <2>1. i \in Ids /\ pidFile[i] # NoPid
    BY <1>3 DEF Living, Inductive, TypeOK, HandlerInvariant, SecretInvariant
  <2>2. pidFile[i] \in Pids /\ proc[pidFile[i]].id = i
    BY <1>3, <2>1 DEF Living, Inductive, TypeOK, OwnInvariant
  <2>3. QED
    BY <2>2
<1>4. QED
  BY <1>1, <1>2, <1>3, AlwaysLiving, PTL DEF Spec

LEMMA AlwaysRegistered ==
  ASSUME MaxCrashes = 0, "rollback" \notin FaultySteps
  PROVE  Spec => []RegistryInvariant
<1>1. Init => RegistryInvariant
  BY DEF Init, RegistryInvariant, Stored, NoSpace
<1>2. Living /\ RegistryInvariant /\ [Next]_vars => RegistryInvariant'
  BY NextRegistry DEF Living, Inductive
<1>3. QED
  BY <1>1, <1>2, AlwaysLiving, PTL DEF Spec

\* Whenever the lock is free, registry and bridge rules know every stored space:
\* a refresh may fail, but then create takes the space back.
THEOREM RegistryTheorem ==
  ASSUME MaxCrashes = 0, "rollback" \notin FaultySteps
  PROVE  Spec => []RegistryFollowsStore
<1>1. RegistryInvariant => RegistryFollowsStore
  <2>1. op = Idle => \A i \in Ids : ~Creating(i)
    BY DEF Creating, Idle
  <2>2. QED
    BY <2>1 DEF RegistryInvariant, RegistryFollowsStore, Stored
<1>2. QED
  BY <1>1, AlwaysRegistered, PTL

\* What a live QEMU's space has on file is its own, so no other id has its CID.
LEMMA LabelsAreOwn ==
  ASSUME Living, TrackInvariant, RegistryInvariant
  PROVE  NoForeignLabel
<1> SUFFICES ASSUME NEW p \in Pids, NEW j \in Ids, proc[p].st = "live",
                    registry[j] # NoCid, registry[j] = proc[p].cid
             PROVE  j = proc[p].id
  BY DEF NoForeignLabel
<1> DEFINE i == proc[p].id
<1>1. i \in Ids
  BY DEF Living, Inductive, TypeOK, Process, OwnInvariant
<1>2. CASE Tracked(i, p)
  <2>1. i \in Stored(config) /\ proc[p].cid = config[i].cid
    BY <1>1, <1>2 DEF Living, Inductive, RunningSpaceIsReachable
  <2>2. ~Creating(i)
    BY <1>2 DEF Living, Inductive, StartInvariant, Creating
  <2>3. registry[i] = config[i].cid
    BY <2>1, <2>2 DEF RegistryInvariant
  <2>4. QED
    BY <1>1, <2>1, <2>3 DEF RegistryInvariant
<1>3. CASE op.at = "pidfile" /\ op.pid = p
  <2>1. proc[p].id = op.id
    BY <1>3 DEF Living, OwnInvariant
  <2>2. i \in Stored(config) /\ proc[p].cid = config[i].cid
    BY <1>3, <2>1 DEF Living, Inductive, HandlerInvariant, StartInvariant, cid
  <2>3. ~Creating(i)
    BY <1>3 DEF Creating
  <2>4. registry[i] = config[i].cid
    BY <2>2, <2>3 DEF RegistryInvariant
  <2>5. QED
    BY <1>1, <2>2, <2>4 DEF RegistryInvariant
<1>4. QED
  BY <1>1, <1>2, <1>3, IdAssumption DEF TrackInvariant, Tracked

\* The CID of a live QEMU stands in the registry under no other id, although a
\* failed refresh may leave entries of destroyed spaces there and their CIDs are
\* handed out again.
THEOREM NoForeignLabelTheorem ==
  ASSUME MaxCrashes = 0, {"rollback", "pidfile"} \cap FaultySteps = {}
  PROVE  Spec => []NoForeignLabel
<1>1. Living /\ TrackInvariant /\ RegistryInvariant => NoForeignLabel
  BY LabelsAreOwn
<1>2. "rollback" \notin FaultySteps /\ "pidfile" \notin FaultySteps
  OBVIOUS
<1>3. Spec => [](Living /\ TrackInvariant)
  BY <1>2, AlwaysTracked
<1>4. Spec => []RegistryInvariant
  BY <1>2, AlwaysRegistered
<1>5. QED
  BY <1>1, <1>3, <1>4, PTL

\* update-image that reports success has left the overlay on the digest in the
\* config, also when it found nothing to do and however builds and the pruner
\* changed latest and the templates meanwhile.
THEOREM UpdateTheorem ==
  ASSUME MaxCrashes = 0,
         {"volumes", "rollback", "remove", "digest"} \cap FaultySteps = {}
  PROVE  Spec => []UpdateLeavesOverlayOnDigest
<1>1. Init => OverlayInvariant
  BY DEF Init, OverlayInvariant, Stored, NoSpace, Idle
<1>2. Living /\ OverlayInvariant /\ [Next]_vars => OverlayInvariant'
  BY NextOverlay DEF Living, Inductive
<1>3. Living /\ OverlayInvariant => UpdateLeavesOverlayOnDigest
  BY DEF Living, Inductive, HandlerInvariant, OverlayInvariant, UpdateLeavesOverlayOnDigest
<1>4. QED
  BY <1>1, <1>2, <1>3, AlwaysLiving, PTL DEF Spec
=============================================================================
