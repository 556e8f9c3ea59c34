------------------------------- MODULE Spaces -------------------------------
(***************************************************************************)
(* The lifecycle of a space as miyorid runs it: the handlers create, start,*)
(* stop, reset-system, reset-all, update-image and destroy of              *)
(* components/daemon/src/ops.rs with what they change on the host (the     *)
(* store, the registry and the bridge rules, taps, QEMU processes, the     *)
(* pid, nonce and secret files of /run/miyorios), and what the host does   *)
(* meanwhile: a QEMU dies, a pid is reused, an image is built or pruned,   *)
(* the daemon is killed, the machine reboots.                              *)
(*                                                                         *)
(* Every handler holds Ctx.lock from its first line to its return, so at   *)
(* most one is under way: op is that handler and op.at its next step.  A   *)
(* step is one system call or command that other parts of the host can see,*)
(* and each one may fail as the code lets it: FaultySteps names the steps  *)
(* that may.  A handler that only refuses a request changes nothing and is *)
(* not a step.                                                             *)
(***************************************************************************)
EXTENDS Store

CONSTANTS
  StandTaps,   \* CIDs of taps net-fixture.sh raised for the stand's own spaces
  Pids, NoPid,
  Nonces, NoNonce,
  Encryption,  \* may create be given a passphrase: a subset of BOOLEAN
  Tools,       \* of {"build", "prune", "foreign"}: who else acts on the host
  FaultySteps, \* the steps that may fail
  MaxCrashes   \* bound on the deaths of the daemon and reboots of the host

Steps == {"volumes", "registry", "nft", "rollback", "nonce", "reap", "tap",
          "secret", "spawn", "pidfile", "untap", "record", "forget",
          "imgsecret", "digest", "remove", "relink"}

ASSUME HostAssumption ==
  /\ StandTaps \subseteq Cids
  /\ NoPid \notin Pids
  /\ NoNonce \notin Nonces
  /\ Encryption \subseteq BOOLEAN
  /\ Tools \subseteq {"build", "prune", "foreign"}
  /\ FaultySteps \subseteq Steps
  /\ MaxCrashes \in Nat

VARIABLES
  \* on disk
  config,     \* <state>/spaces/<id>/config.toml
  overlay,    \* template behind system-overlay.qcow2, NoDigest if unusable
  templates,  \* complete template directories
  latest,     \* the symbolic link templates/<profile>/latest
  registry,   \* /etc/miyorios/spaces.toml: the CID of each id in it
  \* in /run/miyorios
  pidFile,    \* <id>/qemu.pid
  nonceFile,  \* <id>/nonce
  secrets,    \* ids with a passphrase in secrets/<id>/pass
  imgSecret,  \* is there a passphrase in .qemu-img-secrets
  \* in the kernel
  taps,       \* CIDs with a tap-space-<cid> interface
  nft,        \* CIDs admitted by table bridge miyori
  proc,       \* the process table
  \* in the daemon
  handle,     \* Ctx.children
  op,         \* the handler that holds Ctx.lock
  builds,     \* how far the build of each digest has got
  pruner,     \* tools/prune-templates.sh, if it is running
  crashes

disk == <<config, overlay, registry>>
images == <<templates, latest, builds, pruner>>
run == <<pidFile, nonceFile, secrets, imgSecret>>
vars == <<config, overlay, templates, latest, registry, pidFile, nonceFile,
          secrets, imgSecret, taps, nft, proc, handle, op, builds,
          pruner, crashes>>

-----------------------------------------------------------------------------
\* A process: ours while miyorid is its parent; a dead child of a living
\* parent stays a zombie and keeps its pid until somebody waits for it.
Process ==
  [st : {"free", "live", "zombie"}, id : Ids \cup {NoId},
   cid : Cids \cup {NoCid}, nonce : Nonces \cup {NoNonce}, ours : BOOLEAN]

FreePid == [st |-> "free", id |-> NoId, cid |-> NoCid, nonce |-> NoNonce,
            ours |-> FALSE]
Foreign == [FreePid EXCEPT !.st = "live"]

\* What is left of a process that has ended.
Ended(r) == IF r.ours THEN [r EXCEPT !.st = "zombie"] ELSE FreePid

Operations == {"none", "create", "start", "stop", "reset-system", "reset-all",
               "update-image", "destroy"}
Places == Steps \cup {"idle", "settle", "agent", "kill", "ok", "failed"}

Handler ==
  [name : Operations, id : Ids \cup {NoId}, at : Places,
   pid : Pids \cup {NoPid}, digest : Digests \cup {NoDigest},
   graceful : BOOLEAN]

Idle == [name |-> "none", id |-> NoId, at |-> "idle", pid |-> NoPid,
         digest |-> NoDigest, graceful |-> FALSE]

Enter(name, i, at) ==
  /\ op = Idle
  /\ op' = [Idle EXCEPT !.name = name, !.id = i, !.at = at]

Pruner ==
  [at : {"idle", "scanned", "checked", "walking"}, used : SUBSET Digests,
   keep : Digests \cup {NoDigest}, walk : SUBSET Digests]
NoPruner == [at |-> "idle", used |-> {}, keep |-> NoDigest, walk |-> {}]

At(place) == op.at = place
Goto(place) == op' = [op EXCEPT !.at = place]
MayFail(step) == step \in FaultySteps

cid == config[op.id].cid    \* of the space the handler works on

-----------------------------------------------------------------------------
(* What the daemon can see of the host.                                    *)

\* cmdline_identifies_space: "guest-cid=<c>" is looked for as a substring of
\* the command line, so a QEMU with guest-cid=31 also answers for CID 3.
CmdlineIdentifiesSpace(r, c) ==
  /\ r.st = "live"
  /\ r.cid # NoCid
  /\ c \in {r.cid, r.cid \div 10, r.cid \div 100}

\* state_of: the pid file names a process that looks like the space.
Running(i) ==
  /\ pidFile[i] # NoPid
  /\ CmdlineIdentifiesSpace(proc[pidFile[i]], config[i].cid)

\* The kernel lets one guest own a CID.
CidInUse(c) == \E p \in Pids : proc[p].st = "live" /\ proc[p].cid = c

\* resolve_template_digest: latest, or the only template there is.
TemplateDigest ==
  IF latest # NoDigest THEN latest
  ELSE IF \E d \in Digests : templates = {d}
       THEN CHOOSE d \in Digests : templates = {d}
       ELSE NoDigest

\* `let _ = net::delete_tap(..)`: the result is ignored.
DeleteTapIgnoringErrors(c) ==
  \/ taps' = taps \ {c}
  \/ MayFail("untap") /\ taps' = taps

\* remove_running_secret ignores the result of remove_dir_all too.
RemoveRunningSecret(i) ==
  \/ secrets' = secrets \ {i}
  \/ MayFail("forget") /\ UNCHANGED secrets

\* kill_and_reap: with a handle, kill and wait; without one, SIGKILL to
\* whatever process has the pid of the pid file.  The file goes either way.
KillAndReap(i) ==
  /\ proc' =
       IF handle[i] # NoPid THEN [proc EXCEPT ![handle[i]] = FreePid]
       ELSE IF pidFile[i] # NoPid
            THEN [proc EXCEPT ![pidFile[i]] =
                    IF @.st = "live" THEN Ended(@) ELSE @]
            ELSE proc
  /\ handle' = [handle EXCEPT ![i] = NoPid]
  /\ pidFile' = [pidFile EXCEPT ![i] = NoPid]

-----------------------------------------------------------------------------
(* create, and the volume steps that reset-* and update-image share.       *)

Create(i, encrypted) ==
  /\ i \notin Stored(config)
  /\ TemplateDigest # NoDigest
  /\ FreeCids(config, taps) # {}
  /\ config' = [config EXCEPT
                  ![i] = NewSpace(config, taps, TemplateDigest, encrypted)]
  /\ op = Idle
  /\ op' = [Idle EXCEPT !.name = "create", !.id = i, !.digest = TemplateDigest,
                        !.at = IF encrypted THEN "imgsecret" ELSE "volumes"]
  /\ UNCHANGED <<overlay, registry, images, run, taps, nft, proc,
                 handle, crashes>>

\* Fault model: a failed create is not rolled back.
AfterFailureNoRollback == "failed"

\* Where a failed volume step leads: create rolls back, the others give up.
AfterFailure == IF op.name = "create" THEN "rollback" ELSE "failed"

WriteQemuImgSecret ==
  /\ At("imgsecret")
  /\ \/ Goto("volumes") /\ imgSecret' = TRUE
     \/ /\ MayFail("imgsecret")
        /\ Goto(AfterFailure)
        /\ imgSecret' \in {imgSecret, TRUE}
  /\ UNCHANGED <<disk, images, pidFile, nonceFile, secrets, taps, nft, proc,
                 handle, crashes>>

\* create_volumes or qemu_img_overlay, then cleanup_qemu_img_secret.  An
\* overlay is created on top of an existing template or not at all (qemu-img
\* opens the backing file first); any later failure leaves the old overlay, a
\* useless one or the new one.  (create and reset-all also write an empty data
\* volume, which nothing here looks at.)
CreateVolumes ==
  /\ At("volumes")
  /\ \/ /\ op.digest \in templates
        /\ overlay' = [overlay EXCEPT ![op.id] = op.digest]
        /\ Goto(CASE op.name = "create"       -> "registry"
                  [] op.name = "update-image" -> "digest"
                  [] OTHER                    -> "ok")
     \/ /\ \/ op.digest \notin templates /\ UNCHANGED overlay
           \/ /\ op.digest \in templates /\ MayFail("volumes")
              /\ \E o \in {overlay[op.id], NoDigest, op.digest} :
                   overlay' = [overlay EXCEPT ![op.id] = o]
        /\ Goto(AfterFailure)
  /\ imgSecret' = FALSE
  /\ UNCHANGED <<config, registry, images, pidFile, nonceFile, secrets, taps,
                 nft, proc, handle, crashes>>

\* Fault model: entries are added to the registry and never removed.
RefreshRegistryAppending ==
  /\ At("registry")
  /\ registry' = [i \in Ids |-> IF config[i].cid # NoCid THEN config[i].cid
                                ELSE registry[i]]
  /\ Goto("nft")
  /\ UNCHANGED <<config, overlay, images, run, taps, nft, proc,
                 handle, crashes>>

\* net::refresh, first half: the registry is replaced atomically.
RefreshRegistry ==
  /\ At("registry")
  /\ \/ registry' = RenderRegistry(config) /\ Goto("nft")
     \/ MayFail("registry") /\ UNCHANGED registry /\ Goto(AfterFailure)
  /\ UNCHANGED <<config, overlay, images, run, taps, nft, proc,
                 handle, crashes>>

\* net::refresh, second half: `nft -f -` is one transaction.
ApplyNft ==
  /\ At("nft")
  /\ \/ nft' = RenderNft(config) /\ Goto("ok")
     \/ MayFail("nft") /\ UNCHANGED nft /\ Goto(AfterFailure)
  /\ UNCHANGED <<disk, images, run, taps, proc, handle, crashes>>

\* remove_dir_all of the space's directory.
Removed ==
  /\ config' = [config EXCEPT ![op.id] = NoSpace]
  /\ overlay' = [overlay EXCEPT ![op.id] = NoDigest]

\* remove_dir_all that stops half-way: any of the files may be gone.
HalfRemoved ==
  /\ \E c \in {config[op.id], NoSpace} : config' = [config EXCEPT ![op.id] = c]
  /\ \E o \in {overlay[op.id], NoDigest} :
       overlay' = [overlay EXCEPT ![op.id] = o]

\* The rollback of create: remove_space with its result ignored, no refresh.
RollbackCreate ==
  /\ At("rollback")
  /\ Removed \/ (MayFail("rollback") /\ HalfRemoved)
  /\ Goto("failed")
  /\ UNCHANGED <<registry, images, run, taps, nft, proc, handle, crashes>>

-----------------------------------------------------------------------------
(* start.                                                                  *)

FreshNonces ==
  {n \in Nonces : /\ \A i \in Ids : nonceFile[i] # n
                  /\ \A p \in Pids : proc[p].nonce # n}

\* Fault model: start does not ask whether the space is running.
StartUnchecked(i) ==
  /\ i \in Stored(config)
  /\ config[i].digest \in templates
  /\ \E n \in FreshNonces :
       Enter("start", i, "reap") /\ nonceFile' = [nonceFile EXCEPT ![i] = n]
  /\ UNCHANGED <<disk, images, pidFile, secrets, imgSecret, taps, nft, proc,
                 handle, crashes>>

\* The checks of start up to the nonce file.
Start(i) ==
  /\ i \in Stored(config)
  /\ ~Running(i)
  /\ config[i].digest \in templates
  /\ \E n \in FreshNonces :
       \/ Enter("start", i, "reap") /\ nonceFile' = [nonceFile EXCEPT ![i] = n]
       \/ /\ MayFail("nonce")
          /\ Enter("start", i, "failed")
          /\ \E m \in {nonceFile[i], NoNonce, n} :
               nonceFile' = [nonceFile EXCEPT ![i] = m]
  /\ UNCHANGED <<disk, images, pidFile, secrets, imgSecret, taps, nft, proc,
                 handle, crashes>>

ReapLeftoverTap ==
  /\ At("reap")
  /\ \/ taps' = taps \ {cid} /\ Goto("tap")
     \/ MayFail("reap") /\ cid \in taps /\ UNCHANGED taps /\ Goto("failed")
  /\ UNCHANGED <<disk, images, run, nft, proc, handle, crashes>>

\* Four commands; a failed one leaves the tap of the first behind.
CreateTap ==
  /\ At("tap")
  /\ \/ /\ taps' = taps \cup {cid}
        /\ Goto(IF config[op.id].encrypted THEN "secret" ELSE "spawn")
     \/ MayFail("tap") /\ taps' \in {taps, taps \cup {cid}} /\ Goto("failed")
  /\ UNCHANGED <<disk, images, run, nft, proc, handle, crashes>>

\* write_running_secret: nine calls that may fail, some after the passphrase
\* is in the file; start then deletes the tap and returns.
WriteRunningSecret ==
  /\ At("secret")
  /\ \/ secrets' = secrets \cup {op.id} /\ UNCHANGED taps /\ Goto("spawn")
     \/ /\ MayFail("secret")
        /\ secrets' \in {secrets, secrets \ {op.id}, secrets \cup {op.id}}
        /\ DeleteTapIgnoringErrors(cid)
        /\ Goto("failed")
  /\ UNCHANGED <<disk, images, pidFile, nonceFile, imgSecret, nft, proc,
                 handle, crashes>>

\* The QEMU that start asks for: stillborn when its CID is taken or its disk
\* cannot be opened.
Qemu(i) ==
  [st |-> IF CidInUse(config[i].cid) \/ overlay[i] \notin templates
          THEN "zombie" ELSE "live",
   id |-> i, cid |-> config[i].cid, nonce |-> nonceFile[i], ours |-> TRUE]

\* The cleanup of every start that fails after the secret was written.
AbandonStart ==
  /\ DeleteTapIgnoringErrors(cid)
  /\ RemoveRunningSecret(op.id)
  /\ Goto("failed")

\* qemu::spawn up to Command::spawn.
Spawn ==
  /\ At("spawn")
  /\ \/ \E p \in Pids :
          /\ proc[p] = FreePid
          /\ proc' = [proc EXCEPT ![p] = Qemu(op.id)]
          /\ op' = [op EXCEPT !.pid = p, !.at = "pidfile"]
          /\ UNCHANGED <<taps, secrets>>
     \/ /\ MayFail("spawn") \/ \A p \in Pids : proc[p] # FreePid
        /\ AbandonStart
        /\ UNCHANGED proc
  /\ UNCHANGED <<disk, images, pidFile, nonceFile, imgSecret, nft, handle,
                 crashes>>

\* The rest of qemu::spawn.  If the pid file cannot be written the Child is
\* dropped, which neither kills it nor waits for it.
WritePidFile ==
  /\ At("pidfile")
  /\ \/ /\ pidFile' = [pidFile EXCEPT ![op.id] = op.pid]
        /\ Goto("settle")
        /\ UNCHANGED <<taps, secrets>>
     \/ /\ MayFail("pidfile")
        /\ \E p \in {pidFile[op.id], NoPid} :
             pidFile' = [pidFile EXCEPT ![op.id] = p]
        /\ AbandonStart
  /\ UNCHANGED <<disk, images, nonceFile, imgSecret, nft, proc, handle,
                 crashes>>

\* After SPAWN_SETTLE: a dead child is reaped and everything undone, a live
\* one is kept in children (a handle already there is dropped, not waited for).
Settle ==
  /\ At("settle")
  /\ \/ /\ proc[op.pid].st = "zombie"
        /\ proc' = [proc EXCEPT ![op.pid] = FreePid]
        /\ pidFile' = [pidFile EXCEPT ![op.id] = NoPid]
        /\ AbandonStart
        /\ UNCHANGED handle
     \/ /\ proc[op.pid].st = "live"
        /\ handle' = [handle EXCEPT ![op.id] = op.pid]
        /\ Goto("agent")
        /\ UNCHANGED <<proc, pidFile, taps, secrets>>
  /\ UNCHANGED <<disk, images, nonceFile, imgSecret, nft, crashes>>

\* Fault model: an agent that does not answer fails the start although QEMU is
\* alive, and the cleanup forgets to kill it.
StartAppNotKilled ==
  /\ At("agent")
  /\ pidFile' = [pidFile EXCEPT ![op.id] = NoPid]
  /\ AbandonStart
  /\ UNCHANGED <<disk, images, nonceFile, imgSecret, nft, proc, handle, crashes>>

\* start_app_via_agent and the verdict on it: start succeeds unless the app
\* was not started and QEMU is dead.
StartAppViaAgent ==
  /\ At("agent")
  /\ \/ /\ Goto("ok")
        /\ UNCHANGED <<proc, handle, pidFile, taps, secrets>>
     \/ /\ proc[op.pid].st = "zombie"
        /\ KillAndReap(op.id)
        /\ AbandonStart
  /\ UNCHANGED <<disk, images, nonceFile, imgSecret, nft, crashes>>

-----------------------------------------------------------------------------
(* stop.                                                                   *)

\* Does the guest that owns the space's CID hold the nonce on file.
AgentAnswers(i) ==
  \E p \in Pids : /\ proc[p].st = "live"
                  /\ proc[p].cid = config[i].cid
                  /\ proc[p].nonce = nonceFile[i]

\* Fault model: stop does not ask whether the pid file still leads to a QEMU of
\* the space.
StopUnchecked(i) ==
  /\ i \in Stored(config)
  /\ Enter("stop", i, "kill")
  /\ UNCHANGED <<disk, images, run, taps, nft, proc, handle, crashes>>

\* The check of stop, then shutdown_via_agent.  The stop is graceful only if
\* the agent confirms the unmount in time; it may also refuse, answer late, or
\* not be there (Service has what the agent does).
Stop(i) ==
  /\ i \in Stored(config)
  /\ Running(i)
  /\ op = Idle
  /\ \E graceful \in BOOLEAN :
       /\ graceful => AgentAnswers(i)
       /\ op' = [Idle EXCEPT !.name = "stop", !.id = i, !.at = "kill",
                             !.graceful = graceful]
  /\ UNCHANGED <<disk, images, run, taps, nft, proc, handle, crashes>>

StopKill ==
  /\ At("kill")
  /\ KillAndReap(op.id)
  /\ Goto("untap")
  /\ UNCHANGED <<disk, images, nonceFile, secrets, imgSecret, taps, nft,
                 crashes>>

StopDeleteTap ==
  /\ At("untap")
  /\ \/ cid \in taps /\ taps' = taps \ {cid} /\ Goto("record")
     \/ /\ cid \notin taps \/ MayFail("untap")
        /\ UNCHANGED taps
        /\ Goto("failed")
  /\ UNCHANGED <<disk, images, run, nft, proc, handle, crashes>>

\* Fault model: stop does not remove the passphrase.
StopRecordOnly ==
  /\ At("record")
  /\ config' = [config EXCEPT ![op.id].clean =
                  IF op.graceful THEN "clean" ELSE "dirty"]
  /\ Goto("ok")
  /\ UNCHANGED <<overlay, registry, images, run, taps, nft, proc,
                 handle, crashes>>

\* remove_running_secret, then set_clean_shutdown.
StopRecord ==
  /\ At("record")
  /\ RemoveRunningSecret(op.id)
  /\ \/ /\ config' = [config EXCEPT ![op.id].clean =
                        IF op.graceful THEN "clean" ELSE "dirty"]
        /\ Goto("ok")
     \/ MayFail("record") /\ UNCHANGED config /\ Goto("failed")
  /\ UNCHANGED <<overlay, registry, images, pidFile, nonceFile,
                 imgSecret, taps, nft, proc, handle, crashes>>

-----------------------------------------------------------------------------
(* reset-system, reset-all, update-image, destroy.                         *)

VolumeStep(i) == IF config[i].encrypted THEN "imgsecret" ELSE "volumes"

\* Fault model: reset without reject_if_running.
ResetUnchecked(name, i) ==
  /\ i \in Stored(config)
  /\ op = Idle
  /\ op' = [Idle EXCEPT !.name = name, !.id = i, !.digest = config[i].digest,
                        !.at = VolumeStep(i)]
  /\ UNCHANGED <<disk, images, run, taps, nft, proc, handle, crashes>>

\* reset_system and reset_all up to the volumes.
Reset(name, i) ==
  /\ i \in Stored(config)
  /\ ~Running(i)
  /\ op = Idle
  /\ op' = [Idle EXCEPT !.name = name, !.id = i, !.digest = config[i].digest,
                        !.at = VolumeStep(i)]
  /\ UNCHANGED <<disk, images, run, taps, nft, proc, handle, crashes>>

\* update_image up to the overlay: where it goes is decided here, once.
UpdateImage(i) ==
  /\ i \in Stored(config)
  /\ ~Running(i)
  /\ latest # NoDigest
  /\ op = Idle
  /\ \/ latest = config[i].digest /\ Enter("update-image", i, "ok")
     \/ /\ latest # config[i].digest
        /\ latest \in templates
        /\ op' = [Idle EXCEPT !.name = "update-image", !.id = i,
                              !.digest = latest, !.at = VolumeStep(i)]
  /\ UNCHANGED <<disk, images, run, taps, nft, proc, handle, crashes>>

\* Fault model: the digest recorded is what latest points to by then.
SetDigestToLatest ==
  /\ At("digest")
  /\ config' = [config EXCEPT ![op.id].digest = latest]
  /\ Goto("ok")
  /\ UNCHANGED <<overlay, registry, images, run, taps, nft, proc,
                 handle, crashes>>

SetDigest ==
  /\ At("digest")
  /\ \/ config' = [config EXCEPT ![op.id].digest = op.digest] /\ Goto("ok")
     \/ MayFail("digest") /\ UNCHANGED config /\ Goto("failed")
  /\ UNCHANGED <<overlay, registry, images, run, taps, nft, proc,
                 handle, crashes>>

\* Fault model: destroy leaves the tap to stop.
DestroyKeepingTap(i) ==
  /\ i \in Stored(config)
  /\ ~Running(i)
  /\ Enter("destroy", i, "remove")
  /\ UNCHANGED <<disk, images, run, taps, nft, proc, handle, crashes>>

\* destroy up to the tap, which goes first so that the CID is not burned.
Destroy(i) ==
  /\ i \in Stored(config)
  /\ ~Running(i)
  /\ \/ Enter("destroy", i, "remove") /\ taps' = taps \ {config[i].cid}
     \/ /\ MayFail("untap") /\ config[i].cid \in taps
        /\ Enter("destroy", i, "failed")
        /\ UNCHANGED taps
  /\ UNCHANGED <<disk, images, run, nft, proc, handle, crashes>>

\* store.remove_space; net::refresh follows.
RemoveSpace ==
  /\ At("remove")
  /\ \/ Removed /\ Goto("registry")
     \/ MayFail("remove") /\ HalfRemoved /\ Goto("failed")
  /\ UNCHANGED <<registry, images, run, taps, nft, proc, handle, crashes>>

\* The handler returns and Ctx.lock is released.
Return ==
  /\ op.at \in {"ok", "failed"}
  /\ op' = Idle
  /\ UNCHANGED <<disk, images, run, taps, nft, proc, handle, crashes>>

-----------------------------------------------------------------------------
(* The rest of the host.                                                   *)

\* A QEMU ends by itself: the guest powers off, an operator kills it, LUKS
\* refuses the passphrase.
QemuExits(p) ==
  /\ proc[p].st = "live" /\ proc[p].id # NoId
  /\ proc' = [proc EXCEPT ![p] = Ended(@)]
  /\ UNCHANGED <<disk, images, run, taps, nft, handle, op, crashes>>

\* Another program gets a pid that is free, or gives it back.
ForeignProcess(p) ==
  /\ "foreign" \in Tools
  /\ \/ proc[p] = FreePid /\ proc' = [proc EXCEPT ![p] = Foreign]
     \/ proc[p] = Foreign /\ proc' = [proc EXCEPT ![p] = FreePid]
  /\ UNCHANGED <<disk, images, run, taps, nft, handle, op, crashes>>

\* build holds no lock.  finalize_template: the template appears, or it is
\* there already.
PlaceTemplate(d) ==
  /\ "build" \in Tools
  /\ builds[d] = "none"
  /\ templates' = templates \cup {d}
  /\ builds' = [builds EXCEPT ![d] = "placed"]
  /\ UNCHANGED <<disk, latest, run, taps, nft, proc, handle, op, pruner, crashes>>

\* relink_latest, first half: the old link goes.
UnlinkLatest(d) ==
  /\ builds[d] = "placed"
  /\ latest' = NoDigest
  /\ builds' = [builds EXCEPT ![d] = "unlinked"]
  /\ UNCHANGED <<disk, templates, run, taps, nft, proc, handle, op, pruner,
                 crashes>>

\* Second half: symlink fails if another build has made the link meanwhile;
\* build reports success either way.
LinkLatest(d) ==
  /\ builds[d] = "unlinked"
  /\ \/ latest = NoDigest /\ latest' = d
     \/ /\ latest # NoDigest \/ MayFail("relink")
        /\ UNCHANGED latest
  /\ builds' = [builds EXCEPT ![d] = "none"]
  /\ UNCHANGED <<disk, templates, run, taps, nft, proc, handle, op, pruner,
                 crashes>>

\* tools/prune-templates.sh holds no lock either.  It reads the digests of all
\* config.toml files, gives up if it found none although there are spaces,
\* reads latest and the names of the templates, and deletes the templates that
\* neither list holds, one after the other.
PruneScan ==
  /\ "prune" \in Tools
  /\ pruner.at = "idle"
  /\ pruner' = [NoPruner EXCEPT !.at = "scanned",
                  !.used = {config[i].digest : i \in Stored(config)}]
  /\ UNCHANGED <<disk, templates, latest, builds, run, taps, nft, proc, handle,
                 op, crashes>>

PruneCheck ==
  /\ pruner.at = "scanned"
  /\ pruner.used # {} \/ Stored(config) = {}
  /\ pruner' = [pruner EXCEPT !.at = "checked"]
  /\ UNCHANGED <<disk, templates, latest, builds, run, taps, nft, proc, handle,
                 op, crashes>>

PruneKeep ==
  /\ pruner.at = "checked"
  /\ pruner' = [pruner EXCEPT !.at = "walking", !.keep = latest,
                              !.walk = templates]
  /\ UNCHANGED <<disk, templates, latest, builds, run, taps, nft, proc, handle,
                 op, crashes>>

PruneTemplate(d) ==
  /\ pruner.at = "walking"
  /\ d \in pruner.walk \ (pruner.used \cup {pruner.keep})
  /\ templates' = templates \ {d}
  /\ pruner' = [pruner EXCEPT !.walk = @ \ {d}]
  /\ UNCHANGED <<disk, latest, builds, run, taps, nft, proc, handle, op, crashes>>

\* The script is through, has given up, or was interrupted.
PruneEnds ==
  /\ pruner.at # "idle"
  /\ pruner' = NoPruner
  /\ UNCHANGED <<disk, templates, latest, builds, run, taps, nft, proc, handle,
                 op, crashes>>

\* The daemon dies in the middle of whatever it was doing.  Its children live
\* on under init, which reaps the dead ones.
Crash ==
  /\ crashes < MaxCrashes
  /\ crashes' = crashes + 1
  /\ op' = Idle
  /\ handle' = [i \in Ids |-> NoPid]
  /\ proc' = [p \in Pids |-> IF proc[p].st = "zombie" THEN FreePid
                             ELSE [proc[p] EXCEPT !.ours = FALSE]]
  /\ builds' = [d \in Digests |-> "none"]
  /\ UNCHANGED <<disk, templates, latest, pruner, run, taps, nft>>

\* A reboot clears /run, the taps and the processes; the fixture's unit loads
\* bridge rules rendered from the store.
Reboot ==
  /\ crashes < MaxCrashes
  /\ crashes' = crashes + 1
  /\ op' = Idle
  /\ handle' = [i \in Ids |-> NoPid]
  /\ proc' = [p \in Pids |-> FreePid]
  /\ pidFile' = [i \in Ids |-> NoPid]
  /\ nonceFile' = [i \in Ids |-> NoNonce]
  /\ secrets' = {}
  /\ imgSecret' = FALSE
  /\ taps' = StandTaps
  /\ nft' = RenderNft(config)
  /\ builds' = [d \in Digests |-> "none"]
  /\ pruner' = NoPruner
  /\ UNCHANGED <<disk, templates, latest>>

-----------------------------------------------------------------------------
\* A host with images built and no space yet.
Init ==
  /\ config = [i \in Ids |-> NoSpace]
  /\ overlay = [i \in Ids |-> NoDigest]
  /\ templates = Digests
  /\ latest \in Digests
  /\ registry = [i \in Ids |-> NoCid]
  /\ pidFile = [i \in Ids |-> NoPid]
  /\ nonceFile = [i \in Ids |-> NoNonce]
  /\ secrets = {}
  /\ imgSecret = FALSE
  /\ taps = StandTaps
  /\ nft = {}
  /\ proc = [p \in Pids |-> FreePid]
  /\ handle = [i \in Ids |-> NoPid]
  /\ op = Idle
  /\ builds = [d \in Digests |-> "none"]
  /\ pruner = NoPruner
  /\ crashes = 0

\* A request that takes Ctx.lock (dispatch).
Request ==
  \E i \in Ids :
    \/ \E encrypted \in Encryption : Create(i, encrypted)
    \/ Start(i)
    \/ Stop(i)
    \/ \E name \in {"reset-system", "reset-all"} : Reset(name, i)
    \/ UpdateImage(i)
    \/ Destroy(i)

\* The next step of the handler that holds the lock.
Step ==
  \/ WriteQemuImgSecret \/ CreateVolumes \/ RefreshRegistry \/ ApplyNft
  \/ RollbackCreate
  \/ ReapLeftoverTap \/ CreateTap \/ WriteRunningSecret \/ Spawn
  \/ WritePidFile \/ Settle \/ StartAppViaAgent
  \/ StopKill \/ StopDeleteTap \/ StopRecord
  \/ SetDigest \/ RemoveSpace
  \/ Return

Host ==
  \/ \E p \in Pids : QemuExits(p) \/ ForeignProcess(p)
  \/ \E d \in Digests : PlaceTemplate(d) \/ UnlinkLatest(d) \/ LinkLatest(d)
  \/ PruneScan \/ PruneCheck \/ PruneKeep \/ PruneEnds
  \/ \E d \in Digests : PruneTemplate(d)
  \/ Crash
  \/ Reboot

Next == Request \/ Step \/ Host

Spec == Init /\ [][Next]_vars
-----------------------------------------------------------------------------
(* Properties.                                                             *)

TypeOK ==
  /\ config \in Stores
  /\ overlay \in [Ids -> Digests \cup {NoDigest}]
  /\ templates \subseteq Digests
  /\ latest \in Digests \cup {NoDigest}
  /\ registry \in [Ids -> Cids \cup {NoCid}]
  /\ pidFile \in [Ids -> Pids \cup {NoPid}]
  /\ nonceFile \in [Ids -> Nonces \cup {NoNonce}]
  /\ secrets \subseteq Ids
  /\ imgSecret \in BOOLEAN
  /\ taps \subseteq Cids
  /\ nft \subseteq Cids
  /\ proc \in [Pids -> Process]
  /\ handle \in [Ids -> Pids \cup {NoPid}]
  /\ op \in Handler
  /\ builds \in [Digests -> {"none", "placed", "unlinked"}]
  /\ pruner \in Pruner
  /\ crashes \in 0..MaxCrashes

\* Two spaces never share a CID, and none has the network machine's or one
\* whose tap belongs to the stand (store.rs allocate_cid; ops.rs:33).
CidsAreUnique ==
  \A i \in Stored(config) :
    /\ config[i].cid \notin {NetCid} \cup StandTaps
    /\ \A j \in Stored(config) : config[i].cid = config[j].cid => i = j

\* A tap the daemon raised never outlives its space: allocate_cid would skip
\* its CID for ever (ops.rs:1140, destroy).
NoBurnedCid == taps \subseteq StandTaps \cup CidsOf(config)

\* A QEMU that the pid file of its own space leads to.
Tracked(i, p) ==
  pidFile[i] = p /\ proc[p].st = "live" /\ proc[p].id = i

\* A running space can be told to stop: its config holds the CID its QEMU
\* listens on, its nonce file the nonce the agent was booted with, and
\* state_of sees it (start, stop, destroy; across crashes of the daemon).
RunningSpaceIsReachable ==
  \A i \in Ids, p \in Pids :
    Tracked(i, p) => /\ i \in Stored(config)
                     /\ proc[p].cid = config[i].cid
                     /\ proc[p].nonce = nonceFile[i]
                     /\ Running(i)

\* Every QEMU is found through its pid file once start has written it, and
\* the handle the daemon would kill is that same process (qemu.rs spawn,
\* ops.rs kill_and_reap).
EveryQemuIsTracked ==
  \A p \in Pids :
    /\ proc[p].st = "live" /\ proc[p].id # NoId
    /\ ~(op.at = "pidfile" /\ op.pid = p)
    => /\ Tracked(proc[p].id, p)
       /\ \/ handle[proc[p].id] \in {p, NoPid}
          \/ op.at = "settle" /\ op.pid = p

\* No handler replaces or removes a volume under a live QEMU (ops.rs:968).
NoVolumeWorkUnderLiveQemu ==
  op.at \in {"imgsecret", "volumes", "rollback", "remove"}
    => \A p \in Pids : ~(proc[p].st = "live" /\ proc[p].id = op.id)

\* The QEMU that stop or a failed start ends is one that listens on the CID of
\* the space, also when the daemon has lost its handles and kills by a pid file
\* that has grown old while pids were reused (ops.rs:1204 kill_and_reap).
KillsOnlyItsOwn ==
  [][\A p \in Pids :
       /\ op.at \in {"kill", "agent"} /\ op # op' /\ op' # Idle
       /\ proc'[p] # proc[p] /\ proc[p].cid # NoCid
       => proc[p].cid = cid]_vars

\* The window of a live QEMU never carries the label of another space: no
\* other id has its CID in the registry the broker reads (main.rs:93).
NoForeignLabel ==
  \A p \in Pids, j \in Ids :
    proc[p].st = "live" /\ registry[j] # NoCid /\ registry[j] = proc[p].cid
      => j = proc[p].id

\* Whenever the lock is free, the registry and the bridge rules know every
\* stored space under its CID (net.rs:78).
RegistryFollowsStore ==
  op = Idle => \A i \in Stored(config) : /\ registry[i] = config[i].cid
                                         /\ config[i].cid \in nft

\* A passphrase lies in /run only while start or stop works on its space, or as
\* long as the pid file leads to the QEMU that was given it, alive or ended by
\* itself: stop refuses the latter, so its passphrase stays until the next start
\* that gets far enough, even when the space is destroyed (ops.rs:868, 1525).
SecretHasItsQemu ==
  \A i \in secrets :
    \/ op.id = i /\ op.name \in {"start", "stop"}
    \/ \E p \in Pids : pidFile[i] = p /\ proc[p].id = i

\* After a successful update-image the overlay lies on the digest in the
\* config (ops.rs:1094).
UpdateLeavesOverlayOnDigest ==
  op.name = "update-image" /\ op.at = "ok" => overlay[op.id] = config[op.id].digest

\* The template under a space's overlay is never deleted
\* (tools/prune-templates.sh:4).
OverlayHasItsTemplate ==
  \A i \in Stored(config) : overlay[i] # NoDigest => overlay[i] \in templates

\* A process that looks like the space is the space's (qemu.rs:202).
RunningMeansItsOwnQemu ==
  \A i \in Stored(config) : Running(i) => proc[pidFile[i]].id = i

-----------------------------------------------------------------------------
(* What makes the properties above inductive: what a handler may rely on at *)
(* each of its steps although it checked it only at its first.              *)

\* A handler works on a known id, is where its own code leads, and, unless it
\* creates or destroys the space, on a space that is still in the store.
HandlerInvariant ==
  /\ op = Idle \/ op.id \in Ids
  /\ op.at \in {"reap", "tap", "secret", "spawn", "pidfile", "settle", "agent"}
       => op.name = "start"
  /\ op.at \in {"kill", "untap", "record"} => op.name = "stop"
  /\ op.at = "rollback" => op.name = "create"
  /\ op.at = "remove" => op.name = "destroy"
  /\ op.at = "digest" => op.name = "update-image" /\ op.digest \in Digests
  /\ op.name \in {"start", "stop", "reset-system", "reset-all", "update-image"}
       => op.id \in Stored(config)

\* The taps of the stand stay, and the handler that may drop a space from the
\* store does so when its tap is gone.
TapInvariant ==
  /\ StandTaps \subseteq taps
  /\ op.name = "create" \/ op.at = "remove" => cid \notin taps

\* No QEMU of the space is tracked while its config may go or its nonce is new;
\* one that start has just spawned has the CID and the nonce on file.
StartInvariant ==
  /\ op.name = "create" \/ op.at \in {"remove", "reap", "tap", "secret", "spawn"}
       => \A p \in Pids : ~Tracked(op.id, p)
  /\ op.at = "pidfile"
       => /\ op.pid \in Pids
          /\ proc[op.pid].st = "live" /\ proc[op.pid].id = op.id
               => proc[op.pid].cid = cid /\ proc[op.pid].nonce = nonceFile[op.id]

Inductive ==
  /\ TypeOK
  /\ HandlerInvariant
  /\ CidsAreUnique
  /\ NoBurnedCid
  /\ TapInvariant
  /\ RunningSpaceIsReachable
  /\ StartInvariant
=============================================================================
