----------------------------- MODULE CacheEntries -----------------------------
(***************************************************************************)
(* The contents of a cache state (CacheEntry, CacheState in                *)
(* crates/delta-core/src/cache/state.rs) and the transitions the cache     *)
(* makes between them (cache/mod.rs).                                      *)
(*                                                                         *)
(* A blob is addressed by the digest of its bytes.  One version is one     *)
(* artifact here, so a version stands for its digest, its size and its tar *)
(* facts; the key an entry's signature verifies under is kept apart,       *)
(* because the same bytes can be signed again by another key.              *)
(***************************************************************************)
EXTENDS Naturals

CONSTANTS
  Versions,         \* a set of naturals: newer is larger
  Keys,             \* update signing keys
  NoEntry           \* ACTIVE or PENDING is None

ASSUME EntryAssumption ==
  /\ Versions \subseteq Nat /\ Versions # {}
  /\ NoEntry \notin [version : Versions, key : Keys]

Entry == [version : Versions, key : Keys]
Slot == Entry \cup {NoEntry}

\* Of the namespace only the key fingerprint can differ between two builds of
\* one application on one machine.
CacheState == [ns : Keys, active : Slot, pending : Slot]

\* CacheState::empty(namespace)
Blank(key) == [ns |-> key, active |-> NoEntry, pending |-> NoEntry]

\* What staging an entry, promoting PENDING and discarding PENDING leave.
StagedIn(state, e) == [state EXCEPT !.pending = e]
Promoted(state) == [state EXCEPT !.active = state.pending, !.pending = NoEntry]
Discarded(state) == [state EXCEPT !.pending = NoEntry]

\* The versions whose blobs a state refers to.
Named(state) == {e.version : e \in {state.active, state.pending} \ {NoEntry}}
=============================================================================
