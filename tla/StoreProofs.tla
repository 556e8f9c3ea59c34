----------------------------- MODULE StoreProofs -----------------------------
(***************************************************************************)
(* Lemmas about the operators of Store, for the proofs about the modules   *)
(* that use it.                                                            *)
(***************************************************************************)
EXTENDS Store, WellFoundedInduction, TLAPS

\* A non-empty set of CIDs has a lowest member: the loop of allocate_cid ends
\* on a candidate it did not skip.
LEMMA LowestIsMember ==
  ASSUME NEW S \in SUBSET Nat, S # {}
  PROVE  LowestOf(S) \in S
<1> DEFINE R == {ss \in Nat \X Nat : ss[1] < ss[2]}
<1>1. IsWellFoundedOn(R, Nat)
  BY NatLessThanWellFounded DEF OpToRel
<1> HIDE DEF R
<1>2. PICK x \in S : \A y \in S : ~(<<y, x>> \in R)
  BY <1>1, WFMin
<1>3. ASSUME NEW y \in S PROVE x <= y
  <2>1. x \in Nat /\ y \in Nat
    OBVIOUS
  <2>2. y < x => <<y, x>> \in R
    BY <2>1 DEF R
  <2>3. QED
    BY <1>2, <2>1, <2>2
<1>4. \E z \in S : \A y \in S : z <= y
  BY <1>3
<1>5. QED
  BY <1>4 DEF LowestOf

\* allocate_cid returns a CID that is free.
LEMMA AllocatedCidIsFree ==
  ASSUME NEW store, NEW T, FreeCids(store, T) # {}
  PROVE  AllocateCid(store, T) \in FreeCids(store, T)
<1>1. FreeCids(store, T) \in SUBSET Nat
  BY CidAssumption DEF FreeCids
<1>2. QED
  BY <1>1, LowestIsMember DEF AllocateCid

\* A new entry of the store is well formed, and its CID is free.
LEMMA NewSpaceIsFree ==
  ASSUME NEW store, NEW T, NEW d \in Digests, NEW e \in BOOLEAN,
         FreeCids(store, T) # {}
  PROVE  /\ NewSpace(store, T, d, e) \in SpaceConfig
         /\ NewSpace(store, T, d, e).cid \in FreeCids(store, T)
         /\ NewSpace(store, T, d, e).cid # NoCid
<1>1. AllocateCid(store, T) \in FreeCids(store, T)
  BY AllocatedCidIsFree
<1>2. AllocateCid(store, T) \in Cids /\ AllocateCid(store, T) # NoCid
  BY <1>1, CidAssumption DEF FreeCids, NoCid
<1>3. QED
  BY <1>1, <1>2 DEF NewSpace, SpaceConfig, CleanShutdown
=============================================================================
