-------------------------------- MODULE Store --------------------------------
(***************************************************************************)
(* The daemon's store of spaces (components/daemon/src/store.rs) and the   *)
(* two files rendered from it (render.rs): the registry that maps a CID to *)
(* the trust label of its space, and the bridge rules that let a CID's tap *)
(* send frames.  A space is a virtual machine; its vsock CID is at once    *)
(* its address, the name of its tap and the key of its label.              *)
(*                                                                         *)
(* Everything here is a constant operator on a store, a function from the  *)
(* ids a client may name to the contents of <state>/spaces/<id>/config.toml*)
(***************************************************************************)
EXTENDS Naturals

CONSTANTS
  Ids,        \* ids a client may ask for; "miyori-net" is refused by create
  NoId,       \* the id of no space
  Cids,       \* the range allocate_cid walks: 3..MAX_CID in the code
  NetCid,     \* NET_CID, the CID of the network machine
  Digests,    \* digests of the templates of one profile
  NoDigest    \* no such symbolic link, no such volume

ASSUME IdAssumption     == NoId \notin Ids
ASSUME CidAssumption    == Cids \subseteq Nat \ {0} /\ NetCid \in Nat
ASSUME DigestAssumption == NoDigest \notin Digests

NoCid == 0

\* Option<bool> of clean_shutdown: None until the first stop.
CleanShutdown == {"never", "clean", "dirty"}

SpaceConfig ==
  [cid : Cids, digest : Digests, encrypted : BOOLEAN, clean : CleanShutdown]

\* What load() finds for an id whose directory holds no config.toml.
NoSpace ==
  [cid |-> NoCid, digest |-> NoDigest, encrypted |-> FALSE, clean |-> "never"]

Stores == [Ids -> SpaceConfig \cup {NoSpace}]

Stored(store) == {i \in Ids : store[i].cid # NoCid}

CidsOf(store) == {store[i].cid : i \in Stored(store)}

-----------------------------------------------------------------------------
\* Fault model: only the taps are consulted, as if the store were of no account.
FreeCidsIgnoringStore(store, taps) == Cids \ ({NetCid} \cup taps)

\* The CIDs allocate_cid does not skip: not the network machine's, not a
\* stored space's, not one whose tap interface exists on the host.
FreeCids(store, taps) == Cids \ ({NetCid} \cup CidsOf(store) \cup taps)

LowestOf(S) == CHOOSE c \in S : \A d \in S : c <= d

AllocateCid(store, taps) == LowestOf(FreeCids(store, taps))

\* The entry create_space pushes and writes.
NewSpace(store, taps, digest, encrypted) ==
  [cid |-> AllocateCid(store, taps), digest |-> digest,
   encrypted |-> encrypted, clean |-> "never"]

-----------------------------------------------------------------------------
\* render_registry: the CID under which the broker finds each id.
RenderRegistry(store) == [i \in Ids |-> store[i].cid]

\* render_nft: the CIDs whose tap may send from its own address.
RenderNft(store) == CidsOf(store)

=============================================================================
