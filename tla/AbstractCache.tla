----------------------------- MODULE AbstractCache -----------------------------
(***************************************************************************)
(* What the artifact cache promises of its current state, with the store,  *)
(* the generations and the races left out: one register, changed by whole  *)
(* transitions of the state that is in it, never of an older one.          *)
(*                                                                         *)
(*   "EMPTY -> PENDING(v'), ACTIVE(v) -> ACTIVE(v) + PENDING(v'),           *)
(*    next launch, running == v' -> ACTIVE(v')" (cache/mod.rs)              *)
(***************************************************************************)
EXTENDS CacheEntries

CONSTANTS
  Unusable,         \* a current state this build cannot read
  NoFile            \* an empty directory

VARIABLES
  cache,            \* the current state
  ran               \* the versions that were ever launched

TypeOK ==
  /\ cache \in CacheState \cup {Unusable, NoFile}
  /\ ran \subseteq Versions

Init ==
  /\ cache \in {Unusable, NoFile} \cup {Blank(key) : key \in Keys}
  /\ ran = {}

Readable == cache \notin {Unusable, NoFile}

\* A version is launched and reports itself.
Observe(v) == ran' = ran \cup {v} /\ UNCHANGED cache

\* Staging replaces PENDING and never touches ACTIVE.
StagePending(e) ==
  /\ Readable
  /\ cache' = StagedIn(cache, e)
  /\ UNCHANGED ran

\* Only a version that was seen running is promoted, and it is the PENDING
\* entry of the state it is promoted in.
PromotePending ==
  /\ Readable
  /\ cache.pending # NoEntry /\ cache.pending.version \in ran
  /\ cache' = Promoted(cache)
  /\ UNCHANGED ran

\* Discarding never touches ACTIVE.
DiscardPending ==
  /\ Readable
  /\ cache.pending # NoEntry
  /\ cache' = Discarded(cache)
  /\ UNCHANGED ran

\* The cache may always be emptied: that costs a full download.
Reset == (\E key \in Keys : cache' = Blank(key)) /\ UNCHANGED ran

Next ==
  \/ \E v \in Versions : Observe(v)
  \/ \E e \in Entry : StagePending(e)
  \/ PromotePending \/ DiscardPending \/ Reset

Spec == Init /\ [][Next]_<<cache, ran>>
=============================================================================
