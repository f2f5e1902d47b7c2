---------------------------- MODULE SoloCacheProofs ----------------------------
(***************************************************************************)
(* With one instance at a time the cache never loses what it lives on: the  *)
(* current state only ever names blobs that are there, for any versions,    *)
(* keys and bounds, wherever the instance stops and whatever fails.         *)
(*                                                                         *)
(* Alone, an instance holds and publishes the head of the store             *)
(* (HeadInv), so the current state changes exactly when it says so; what it *)
(* has still to delete is not named by that state (SpareInv), and what it   *)
(* stages stays stored until it is committed, because the namespace it      *)
(* reconciled at launch cannot have become a foreign one (OwnSpace).        *)
(***************************************************************************)
EXTENDS ArtifactCacheProofs

Alone == \E p : Procs = {p}

\* Where the instance looks for the head, or would publish, is the head.
HeadInv(p) ==
  /\ held[p] # Nothing => AtHead(held[p].gen)
  /\ at[p] = "load_read" => AtHead(seen[p])
  /\ at[p] = "init_publish" => \A h \in Present : h < seen[p]

\* A state is live if what it names is stored, spared if nothing it names is still
\* to be deleted, and the instance's own if it is of the namespace it runs in.
Live(state) == \A v \in Named(state) : blobs[v] # "none"
Spared(p, state) == \A v \in Named(state) : v \notin todo[p] /\ v # victim[p]
Own(p, state) == state.ns = Ns(p)

\* The states that matter to an instance: the current one and the one it holds.
Known(p, state) ==
  (Current \in States /\ state = Current) \/ (held[p] # Nothing /\ state = held[p].state)

LiveInv(p) ==
  /\ \A state : Known(p, state) => Live(state)
  /\ op[p] = "stage" => blobs[entry[p].version] # "none"

SpareInv(p) ==
  /\ pc[p] = "wipe" => op[p] # "stage" /\ \A state : Known(p, state) => Named(state) = {}
  /\ pc[p] = "collect" => op[p] = "reconcile" /\ \A state : Known(p, state) => Spared(p, state)
  /\ pc[p] # "collect" => victim[p] = None

\* From where on the current state is of the instance's own namespace.
Reconciled(p) ==
  \/ pc[p] \in {"wipe", "fresh", "collect", "prune", "idle", "install", "get"}
  \/ op[p] \in {"stage", "active"}

OwnSpace(p) == Reconciled(p) => \A state : Known(p, state) => Own(p, state)

\* No compare-and-set is lost, and what is under way has a name.
PlaceInv(p) ==
  /\ pc[p] # "reread"
  /\ pc[p] \in {"current", "wipe", "fresh"} => op[p] # "none"

AloneInv(p) == HeadInv(p) /\ LiveInv(p) /\ SpareInv(p) /\ OwnSpace(p) /\ PlaceInv(p)
SoloInv == CacheInv /\ \A p \in Procs : AloneInv(p)

-----------------------------------------------------------------------------
(* The store of one process. *)

\* A publication above everything present is the current state.
LEMMA PublishedIsCurrent ==
  ASSUME files \in [Gens -> Contents \cup {NoFile}], NEW g \in Gens, NEW c \in States,
         \A h \in Present : h < g, files' = [files EXCEPT ![g] = c]
  PROVE  Current' = c /\ AtHead(g)'
<1>1. Present' = Present \cup {g}
  BY ContentAssumption DEF Present
<1>2. AtHead(g)' /\ g \in Present'
  BY <1>1, GensAreOrdered DEF AtHead
<1> QED
  BY <1>2, HeadIs

\* Damage makes the current state unusable, or is somewhere below it.
LEMMA DamagedCurrent ==
  ASSUME files \in [Gens -> Contents \cup {NoFile}], NEW g \in Gens, Damage(g)
  PROVE  (Current' = Current \/ Current' = Unusable) /\ Present' = Present
<1>1. files[g] \in States /\ files' = [files EXCEPT ![g] = Unusable]
  BY DEF Damage
<1>2. Present' = Present
  BY <1>1, ContentAssumption DEF Present
<1>3. PICK m \in Present : AtHead(m)
  <2>1. g \in Present
    BY <1>1, ContentAssumption DEF Present
  <2> QED
    BY <2>1, NothingIsCurrent
<1>4. AtHead(m)' /\ m \in Present'
  BY <1>2, <1>3 DEF AtHead
<1>5. files'[m] \in {files[m], Unusable}
  BY <1>1, <1>3, GensAreOrdered
<1> QED
  BY <1>2, <1>3, <1>4, <1>5, HeadIs

\* What becomes known in a step of the store: nothing new, a state that was
\* current, or the one published.
Learns(p, c) == Current' = c /\ held'[p] # Nothing /\ held'[p].state = c
Keeps(p) ==
  /\ Current' \in {Current, Unusable}
  /\ held'[p] # Nothing => held'[p] = held[p] \/ (Current \in States /\ held'[p].state = Current)

LEMMA HeadStays ==
  /\ Present' \subseteq Present => \A gen : AtHead(gen) => AtHead(gen)'
  /\ files' = files => Present' = Present /\ Current' = Current
  BY DEF AtHead, Present, Current

LEMMA SoloPlain ==
  ASSUME CacheInv, NEW p \in Procs, HeadInv(p), Plain(p)
  PROVE  HeadInv(p)' /\ Keeps(p)
<1> USE DEF HeadInv, Goto
<1>0. /\ files \in [Gens -> Contents \cup {NoFile}]
      /\ at \in [Procs -> Places] /\ seen \in [Procs -> Nat]
      /\ held \in [Procs -> Versioned \cup {Nothing}]
  BY DEF CacheInv, StoreInv, StoreTypeOK
<1>1. ASSUME files' = files
      PROVE  Present' = Present /\ Current' = Current /\ \A gen : AtHead(gen) => AtHead(gen)'
  BY <1>1, HeadStays
<1>2. CASE InitialiseCall(p) \/ StoreReturn(p)
  BY <1>0, <1>1, <1>2 DEF InitialiseCall, StoreReturn, Keeps
<1>3. CASE LoadList(p)
  <2>1. CASE Present = {}
    BY <1>0, <1>1, <1>3, <2>1 DEF LoadList, Keeps, AtHead
  <2>2. CASE Present # {}
    <3>1. AtHead(Max(Present))
      BY <2>2, MaxOfGens, GensAreOrdered DEF AtHead
    <3>2. files' = files /\ held' = held /\ at'[p] = "load_read" /\ seen'[p] = Max(Present)
      BY <1>0, <1>3, <2>2 DEF LoadList
    <3> QED
      BY <1>1, <3>1, <3>2 DEF Keeps, AtHead
  <2> QED
    BY <2>1, <2>2
<1>4. CASE LoadRead(p)
  <2>1. files' = files
    BY <1>4 DEF LoadRead
  <2>2. CASE files[seen[p]] \in States
    <3>1. seen[p] \in Present /\ AtHead(seen[p])
      BY <1>4, <2>2, ContentAssumption
        DEF LoadRead, CacheInv, StoreInv, ProcInv, CallInv, Present
    <3>2. Current = files[seen[p]]
      BY <3>1, HeadIs
    <3>3. /\ held'[p] = [gen |-> seen[p], state |-> files[seen[p]]]
          /\ at'[p] = "ready"
      BY <1>0, <1>4, <2>2 DEF LoadRead
    <3> QED
      BY <1>1, <2>1, <2>2, <3>1, <3>2, <3>3 DEF Keeps, AtHead
  <2>3. CASE files[seen[p]] \notin States
    BY <1>0, <1>1, <1>4, <2>1, <2>3 DEF LoadRead, Keeps, AtHead
  <2> QED
    BY <2>2, <2>3
<1>5. CASE InitList(p)
  <2>1. files' = files /\ held' = held /\ at'[p] = "init_publish" /\ seen'[p] = Top
    BY <1>0, <1>5 DEF InitList
  <2> QED
    BY <1>1, <2>1, TopBounds DEF Keeps, AtHead
<1>6. CASE PruneRemove(p)
  <2>1. PICK g \in doomed[p] :
          \/ files' = [files EXCEPT ![g] = NoFile]
          \/ files' = files
    BY <1>6 DEF PruneRemove
  <2>2. g \in Gens /\ Below(g)
    BY <2>1 DEF CacheInv, StoreInv, StoreTypeOK, ProcInv, DoomedInv
  <2>3. Present' \subseteq Present /\ Current' = Current
    <3>1. Current' = Current
      BY <1>0, <2>1, <2>2, CurrentMoves DEF Removed
    <3> QED
      BY <1>0, <2>1, <3>1 DEF Present
  <2>4. held' = held /\ at'[p] = "pruning" /\ \A gen : AtHead(gen) => AtHead(gen)'
    BY <1>6, <2>3, HeadStays DEF PruneRemove
  <2> QED
    BY <2>3, <2>4 DEF Keeps, AtHead
<1>7. CASE \/ ReadError(p) \/ InitConflict(p) \/ CasConflict(p) \/ StoreError(p)
           \/ PruneCall(p) \/ PruneList(p) \/ Proceed(p)
  <2>1. files' = files /\ held' = held /\ at'[p] \notin {"load_read", "init_publish"}
    BY <1>0, <1>7 DEF ReadError, InitConflict, CasConflict, StoreError, PruneCall, PruneList,
      Proceed
  <2> QED
    BY <1>1, <2>1 DEF Keeps, AtHead
<1> QED
  BY <1>2, <1>3, <1>4, <1>5, <1>6, <1>7 DEF Plain

LEMMA SoloPublishes ==
  ASSUME CacheInv, NEW p \in Procs, HeadInv(p), NEW c \in States,
         InitPublish(p, c) \/ CasWin(p, c)
  PROVE  HeadInv(p)' /\ Learns(p, c)
<1>0. /\ files \in [Gens -> Contents \cup {NoFile}]
      /\ at \in [Procs -> Places]
      /\ held \in [Procs -> Versioned \cup {Nothing}]
      /\ Nothing \notin Versioned
  BY NothingAssumption, GenAssumption
    DEF CacheInv, StoreInv, StoreTypeOK, Versioned, Gens
<1>1. ASSUME NEW g \in Gens, \A h \in Present : h < g, at'[p] \in {"ready", "won"},
             files' = [files EXCEPT ![g] = c],
             held' = [held EXCEPT ![p] = [gen |-> g, state |-> c]]
      PROVE  HeadInv(p)' /\ Learns(p, c)
  <2>1. Current' = c /\ AtHead(g)'
    BY <1>0, <1>1, PublishedIsCurrent
  <2>2. held'[p] = [gen |-> g, state |-> c] /\ held'[p] # Nothing
    BY <1>0, <1>1 DEF Versioned
  <2> QED
    BY <1>1, <2>1, <2>2 DEF HeadInv, Learns, AtHead
<1>2. CASE InitPublish(p, c)
  BY <1>0, <1>1, <1>2 DEF InitPublish, Free, HeadInv, Goto
<1>3. CASE CasWin(p, c)
  <2>1. held[p] # Nothing /\ held[p].gen \in Int /\ \A h \in Present : h \in Int
    BY <1>3, HeldStates, GensAreOrdered DEF CasWin
  <2>2. \A h \in Present : h < held[p].gen + 1
    BY <2>1 DEF HeadInv, AtHead
  <2>3. held[p].gen + 1 \in Gens
    BY <1>3 DEF CasWin, Free
  <2> QED
    BY <1>0, <1>1, <1>3, <2>2, <2>3 DEF CasWin, Goto
<1> QED
  BY <1>2, <1>3

-----------------------------------------------------------------------------
(* What is known of the states. *)

LEMMA NamedNext ==
  /\ \A key \in Keys : Named(Blank(key)) = {} /\ Blank(key).ns = key
  /\ \A state \in CacheState, e \in Slot :
       Named(StagedIn(state, e)) \subseteq Named(state) \cup {e.version}
         /\ StagedIn(state, e).ns = state.ns
  /\ \A state \in CacheState :
       /\ Named(Promoted(state)) \subseteq Named(state) /\ Promoted(state).ns = state.ns
       /\ Named(Discarded(state)) \subseteq Named(state) /\ Discarded(state).ns = state.ns
<1>1. ASSUME NEW key \in Keys
      PROVE  Named(Blank(key)) = {} /\ Blank(key).ns = key
  BY DEF Named, Blank
<1>2. ASSUME NEW state \in CacheState, NEW e \in Slot
      PROVE  /\ StagedIn(state, e).active = state.active /\ StagedIn(state, e).pending = e
             /\ StagedIn(state, e).ns = state.ns
  BY Zenon DEF StagedIn, CacheState
<1>3. ASSUME NEW state \in CacheState
      PROVE  /\ Promoted(state).active = state.pending /\ Promoted(state).pending = NoEntry
             /\ Promoted(state).ns = state.ns
             /\ Discarded(state).active = state.active /\ Discarded(state).pending = NoEntry
             /\ Discarded(state).ns = state.ns
  BY Zenon DEF Promoted, Discarded, CacheState
<1>4. \A state, v : v \in Named(state) <=>
        \/ state.active # NoEntry /\ v = state.active.version
        \/ state.pending # NoEntry /\ v = state.pending.version
  BY DEF Named
<1> QED
  BY <1>1, <1>2, <1>3, <1>4

LEMMA KnownStates ==
  ASSUME CacheInv, NEW p \in Procs, NEW state, Known(p, state)
  PROVE  state \in CacheState /\ Named(state) \subseteq Versions /\ None \notin Named(state)
<1>1. state \in CacheState
  BY HeldStates, StatesAreCacheStates DEF Known
<1>2. state.active \in Slot /\ state.pending \in Slot
  BY <1>1 DEF CacheState
<1> QED
  BY <1>1, <1>2, Slots, VersionAssumption DEF Named

\* Alone, a process that holds a state knows no other.
LEMMA KnownIsHeld ==
  ASSUME CacheInv, NEW p \in Procs, HeadInv(p), held[p] # Nothing
  PROVE  /\ \A state : Known(p, state) => state = held[p].state
         /\ Known(p, held[p].state)
         /\ held[p].gen + 1 \notin Present
<1>1. /\ AtHead(held[p].gen) /\ Held(held[p].gen, held[p].state)
      /\ held[p].gen \in Int /\ \A h \in Present : h \in Int
  BY HeldStates, GensAreOrdered
    DEF HeadInv, CacheInv, StoreInv, ProcInv, HeldInv
<1>2. PICK h \in Present : h >= held[p].gen
  BY <1>1 DEF Held
<1>3. h = held[p].gen
  BY <1>1, <1>2 DEF AtHead
<1>4. Current \in {held[p].state, Unusable}
  <2>1. Current = files[held[p].gen]
    BY <1>1, <1>2, <1>3, HeadIs
  <2> QED
    BY <1>1, <2>1 DEF Held, AtHead
<1>5. held[p].gen + 1 \notin Present
  BY <1>1 DEF AtHead
<1> QED
  BY <1>4, <1>5, ContentAssumption DEF Known

LEMMA KnownNext ==
  ASSUME NEW p \in Procs
  PROVE  /\ Keeps(p) => \A state : Known(p, state)' => Known(p, state)
         /\ \A c : Learns(p, c) => \A state : Known(p, state)' => state = c
  BY ContentAssumption DEF Keeps, Learns, Known

-----------------------------------------------------------------------------
(* The cache of one process. *)

\* The steps of an operation that publish nothing.
LEMMA SoloWork ==
  ASSUME SoloInv, NEW p \in Procs, Keeps(p),
         \/ Reread(p) \/ ResetLose(p) \/ Wipe(p) \/ WipeDone(p) \/ NothingStaged(p)
         \/ Conflict(p) \/ Exhausted(p) \/ StoreFails(p) \/ Fail(p)
         \/ CollectCheck(p) \/ CollectUnlink(p) \/ CollectDone(p) \/ Prune(p) \/ PruneDone(p)
         \/ StagePrune(p) \/ Install(p) \/ ActiveEntry(p) \/ Get(p)
  PROVE  LiveInv(p)' /\ SpareInv(p)' /\ OwnSpace(p)' /\ PlaceInv(p)'
<1> USE DEF LiveInv, SpareInv, OwnSpace, PlaceInv, Reconciled, Live, Spared, Own, Ns,
            life, sweep, cacheVars, Step, CacheTypeOK
<1>0. /\ CacheInv /\ CacheTypeOK /\ HeadInv(p) /\ EntryInv(p)
      /\ LiveInv(p) /\ SpareInv(p) /\ OwnSpace(p) /\ PlaceInv(p)
  BY DEF SoloInv, AloneInv, CacheInv, OwnInv
<1>1. \A state : Known(p, state)' => Known(p, state)
  BY KnownNext
<1>2. at[p] = "ready" =>
        /\ held[p] # Nothing /\ Known(p, held[p].state)
        /\ \A state : Known(p, state) => state = held[p].state
        /\ held[p].gen + 1 \notin Present
  BY <1>0, HeldStates, KnownIsHeld
<1>3. CASE Reread(p) \/ StoreFails(p) \/ Prune(p)
  BY <1>0, <1>1, <1>3 DEF Reread, StoreFails, Prune
<1>4. CASE ResetLose(p) \/ Conflict(p) \/ Exhausted(p)
  BY <1>2, <1>4 DEF ResetLose, Foreign, Conflict, Exhausted, Settled, CasConflict
<1>5. CASE Wipe(p)
  BY <1>0, <1>1, <1>5 DEF Wipe
<1>6. CASE WipeDone(p)
  BY <1>0, <1>1, <1>6 DEF WipeDone
<1>7. CASE NothingStaged(p)
  <2>1. \A state : Known(p, state) => None \notin Named(state) /\ Own(p, state)
    BY <1>0, <1>2, <1>7, KnownStates DEF NothingStaged, Settled, Foreign
  <2>2. /\ pc'[p] = "collect" /\ op' = op /\ blobs' = blobs /\ entry' = entry
        /\ running' = running /\ victim' = victim /\ victim[p] = None
        /\ todo'[p] = Versions \ Named(held[p].state)
    BY <1>0, <1>7 DEF NothingStaged, Settled, Collect
  <2> QED
    BY <1>0, <1>1, <1>2, <1>7, <2>1, <2>2 DEF NothingStaged, Settled
<1>8. CASE Fail(p) \/ PruneDone(p)
  <2>1. op[p] \in {"reconcile", "stage", "active"} \/ pc[p] = "prune"
    BY <1>0, <1>8 DEF Fail, PruneDone, Ops
  <2>2. /\ op'[p] = "none" /\ pc'[p] \in {"uncached", "install", "idle"}
        /\ blobs' = blobs /\ entry' = entry /\ running' = running /\ victim' = victim
    BY <1>0, <1>8 DEF Fail, PruneDone, End, AfterFailure
  <2>3. pc'[p] = "uncached" \/ Reconciled(p)
    BY <1>0, <1>8, <2>1 DEF Fail, PruneDone, End, AfterFailure
  <2>4. victim[p] = None
    BY <1>0, <1>8 DEF Fail, PruneDone
  <2> QED
    BY <1>0, <1>1, <2>2, <2>3, <2>4
<1>9. CASE CollectCheck(p)
  <2>1. \A state : Known(p, state) => None \notin Named(state)
    BY <1>0, KnownStates
  <2> QED
    BY <1>0, <1>1, <1>9, <2>1 DEF CollectCheck
<1>10. CASE CollectUnlink(p)
  <2>1. \A state : Known(p, state) => None \notin Named(state)
    BY <1>0, KnownStates
  <2> QED
    BY <1>0, <1>1, <1>10, <2>1 DEF CollectUnlink
<1>11. CASE CollectDone(p)
  BY <1>0, <1>1, <1>11 DEF CollectDone
<1>12. CASE StagePrune(p) \/ ActiveEntry(p) \/ Get(p)
  BY <1>0, <1>1, <1>12 DEF StagePrune, ActiveEntry, Get, Settled
<1>13. CASE Install(p)
  BY <1>0, <1>1, <1>13 DEF Install, EntryInv
<1> QED
  BY <1>3, <1>4, <1>5, <1>6, <1>7, <1>8, <1>9, <1>10, <1>11, <1>12, <1>13

\* The steps of an operation that publish.
LEMMA SoloCommits ==
  ASSUME SoloInv, NEW p \in Procs, NEW c, Learns(p, c),
         \/ ResetWin(p) /\ c = Blank(Ns(p))
         \/ Promote(p) /\ c = Promoted(held[p].state)
         \/ Discard(p) /\ c = Discarded(held[p].state)
         \/ StageCommit(p) /\ c = StagedIn(held[p].state, entry[p])
  PROVE  LiveInv(p)' /\ SpareInv(p)' /\ OwnSpace(p)' /\ PlaceInv(p)'
<1> USE DEF LiveInv, SpareInv, OwnSpace, PlaceInv, Reconciled, Live, Spared, Own, Ns,
            life, sweep, cacheVars, Step, CacheTypeOK
<1>0. /\ CacheInv /\ CacheTypeOK /\ HeadInv(p) /\ EntryInv(p)
      /\ LiveInv(p) /\ SpareInv(p) /\ OwnSpace(p) /\ PlaceInv(p)
  BY DEF SoloInv, AloneInv, CacheInv, OwnInv
<1>1. \A state : Known(p, state)' => state = c
  BY KnownNext
<1>2. /\ held[p].state \in CacheState /\ None \notin Named(held[p].state)
      /\ Known(p, held[p].state)
  <2>1. at[p] = "ready"
    BY DEF ResetWin, Promote, Discard, StageCommit, Foreign, Settled
  <2> QED
    BY <1>0, <2>1, HeldStates, KnownIsHeld, KnownStates
<1>3. CASE ResetWin(p) /\ c = Blank(Ns(p))
  <2>1. op[p] \notin {"stage", "active"}
    BY <1>0, <1>2, <1>3 DEF ResetWin, Foreign
  <2>2. Named(c) = {} /\ c.ns = Ns(p)
    BY <1>0, <1>3, OwnKey, NamedNext DEF ResetWin, Foreign
  <2> QED
    BY <1>0, <1>1, <1>3, <2>1, <2>2 DEF ResetWin, Foreign
<1>4. ASSUME op[p] = "reconcile", Settled(p), Collect(p, c),
             Named(c) \subseteq Named(held[p].state), c.ns = held[p].state.ns,
             UNCHANGED <<life, op, entry, rounds, blobs, victim, served>>
      PROVE  LiveInv(p)' /\ SpareInv(p)' /\ OwnSpace(p)' /\ PlaceInv(p)'
  <2>1. Own(p, held[p].state) /\ victim[p] = None
    BY <1>0, <1>2, <1>4 DEF Settled, Foreign
  <2> QED
    BY <1>0, <1>1, <1>2, <1>4, <2>1 DEF Collect
<1>5. CASE Promote(p) /\ c = Promoted(held[p].state)
  BY <1>2, <1>4, <1>5, NamedNext DEF Promote
<1>6. CASE Discard(p) /\ c = Discarded(held[p].state)
  BY <1>2, <1>4, <1>6, NamedNext DEF Discard
<1>7. CASE StageCommit(p) /\ c = StagedIn(held[p].state, entry[p])
  <2>1. entry[p] \in Slot
    BY <1>0
  <2>2. Named(c) \subseteq Named(held[p].state) \cup {entry[p].version}
          /\ c.ns = held[p].state.ns
    BY <1>2, <1>7, <2>1, NamedNext
  <2> QED
    BY <1>0, <1>1, <1>2, <1>7, <2>2 DEF StageCommit, Settled
<1> QED
  BY <1>3, <1>5, <1>6, <1>7

\* Everything else the instance does.
LEMMA SoloBegins ==
  ASSUME SoloInv, NEW p \in Procs, Keeps(p),
         \/ Launch(p) \/ Active(p) \/ Stop(p)
         \/ \E v \in Versions : Stage(p, v) \/ InstallUncached(p, v)
  PROVE  LiveInv(p)' /\ SpareInv(p)' /\ OwnSpace(p)' /\ PlaceInv(p)'
<1> USE DEF LiveInv, SpareInv, OwnSpace, PlaceInv, Reconciled, Live, Spared, Own, Ns,
            life, sweep, cacheVars, Step, CacheTypeOK
<1>0. /\ CacheTypeOK /\ EntryInv(p)
      /\ LiveInv(p) /\ SpareInv(p) /\ OwnSpace(p) /\ PlaceInv(p)
  BY DEF SoloInv, AloneInv, CacheInv, OwnInv
<1>1. \A state : Known(p, state)' => Known(p, state)
  BY KnownNext
<1>2. CASE Launch(p) \/ Active(p)
  BY <1>0, <1>1, <1>2 DEF Launch, Active, Begin
<1>3. CASE Stop(p)
  BY <1>0, <1>1, <1>3 DEF Stop
<1>4. CASE \E v \in Versions : Stage(p, v)
  <2>1. PICK v \in Versions : Stage(p, v)
    BY <1>4
  <2>2. entry'[p].version = v /\ blobs'[v] # "none"
        /\ \A w : blobs[w] # "none" /\ w \in Versions => blobs'[w] # "none"
    BY <1>0, <2>1 DEF Stage, Begin
  <2>3. \A state : Known(p, state) => Named(state) \subseteq Versions
    BY KnownStates DEF SoloInv
  <2> QED
    BY <1>0, <1>1, <2>1, <2>2, <2>3 DEF Stage, Begin
<1>5. CASE \E v \in Versions : InstallUncached(p, v)
  BY <1>0, <1>1, <1>5 DEF InstallUncached
<1> QED
  BY <1>2, <1>3, <1>4, <1>5

\* What happens to the files and to the installation.
LEMMA SoloWeathers ==
  ASSUME SoloInv, NEW p \in Procs, Keeps(p),
         \/ \E v \in Versions : OtherInstall(v) \/ Age(v) \/ Rot(v)
         \/ \E g \in Gens : StateDamage(g)
         \/ UNCHANGED vars
         \/ Initialise(p) /\ UNCHANGED cacheVars
  PROVE  LiveInv(p)' /\ SpareInv(p)' /\ OwnSpace(p)' /\ PlaceInv(p)'
<1>0. /\ CacheTypeOK /\ LiveInv(p) /\ SpareInv(p) /\ OwnSpace(p) /\ PlaceInv(p)
      /\ op[p] = "stage" => entry[p].version \in Versions
      /\ \A state : Known(p, state) => Named(state) \subseteq Versions
  BY KnownStates DEF SoloInv, AloneInv, CacheInv, OwnInv, EntryInv, Entry
<1>1. \A state : Known(p, state)' => Known(p, state)
  BY KnownNext
<1>2. /\ pc' = pc /\ op' = op /\ entry' = entry /\ running' = running
      /\ todo' = todo /\ victim' = victim
      /\ \A w \in Versions : blobs[w] # "none" => blobs'[w] # "none"
  BY <1>0 DEF OtherInstall, Age, Rot, StateDamage, vars, cacheVars, life, sweep, CacheTypeOK
<1> QED
  BY <1>0, <1>1, <1>2 DEF LiveInv, SpareInv, OwnSpace, PlaceInv, Reconciled, Live, Spared,
    Own, Ns

-----------------------------------------------------------------------------
(* The invariant is inductive. *)

LEMMA SoloStart ==
  ASSUME CacheInit
  PROVE  SoloInv
<1> SUFFICES ASSUME NEW p \in Procs
             PROVE  AloneInv(p)
  BY CacheInvStart DEF SoloInv
<1>1. HeadInv(p) /\ PlaceInv(p) /\ SpareInv(p) /\ OwnSpace(p) /\ op[p] = "none" /\ held[p] = Nothing
  BY DEF CacheInit, StoreInit, HeadInv, PlaceInv, SpareInv, OwnSpace, Reconciled
<1>2. ASSUME NEW state, Known(p, state)
      PROVE  Live(state)
  <2>1. Current \in States /\ state = Current
    BY <1>1, <1>2 DEF Known
  <2>2. Current \in {Unusable, NoFile} \cup {Blank(key) : key \in Keys}
    BY RegisterStart DEF Register!Init, Register!Blank, Blank
  <2>3. PICK key \in Keys : state = Blank(key)
    BY <2>1, <2>2, ContentAssumption
  <2> QED
    BY <2>3, NamedNext DEF Live
<1> QED
  BY <1>1, <1>2 DEF AloneInv, LiveInv

LEMMA SoloStep ==
  ASSUME Alone, SoloInv, [CacheNext]_vars
  PROVE  SoloInv'
<1> SUFFICES ASSUME NEW p \in Procs
             PROVE  AloneInv(p)'
  BY CacheInvStep DEF SoloInv
<1> DEFINE Rest == LiveInv(p)' /\ SpareInv(p)' /\ OwnSpace(p)' /\ PlaceInv(p)'
<1>0. CacheInv /\ HeadInv(p) /\ files \in [Gens -> Contents \cup {NoFile}]
  BY DEF SoloInv, AloneInv, CacheInv, StoreInv, StoreTypeOK
<1>1. ASSUME UNCHANGED storeVars
      PROVE  HeadInv(p)' /\ Keeps(p)
  <2>1. files' = files /\ at' = at /\ seen' = seen /\ held' = held
    BY <1>1 DEF storeVars
  <2>2. Present' = Present /\ Current' = Current
    BY <2>1, HeadStays
  <2> QED
    BY <1>0, <2>1, <2>2 DEF HeadInv, Keeps, AtHead
<1>2. ASSUME Plain(p)
      PROVE  HeadInv(p)' /\ Keeps(p)
  BY <1>0, <1>2, SoloPlain
<1>3. ASSUME NEW c \in States, InitPublish(p, c) \/ CasWin(p, c)
      PROVE  HeadInv(p)' /\ Learns(p, c)
  BY <1>0, <1>3, SoloPublishes
<1>4. ASSUME Initialise(p)
      PROVE  HeadInv(p)' /\ Rest
  <2>1. CASE InitPublish(p, Blank(Ns(p)))
    <3>1. Blank(Ns(p)) \in States /\ Named(Blank(Ns(p))) = {} /\ Blank(Ns(p)).ns = Ns(p)
      BY <1>0, <1>4, OwnKey, BlankStates, NamedNext, StatesAreCacheStates DEF Initialise
    <3>2. HeadInv(p)' /\ Learns(p, Blank(Ns(p)))
      BY <1>3, <2>1, <3>1
    <3>3. \A state : Known(p, state)' => state = Blank(Ns(p))
      BY <3>2, KnownNext
    <3>4. /\ pc' = pc /\ op' = op /\ entry' = entry /\ running' = running
          /\ victim' = victim /\ blobs' = blobs
          /\ pc[p] \in {"current", "reread"}
      BY <1>4 DEF Initialise, cacheVars, life, sweep
    <3>5. LiveInv(p) /\ SpareInv(p) /\ PlaceInv(p)
      BY DEF SoloInv, AloneInv
    <3>6. LiveInv(p)'
      BY <3>1, <3>3, <3>4, <3>5 DEF LiveInv, Live
    <3>7. SpareInv(p)' /\ PlaceInv(p)'
      BY <3>4, <3>5 DEF SpareInv, PlaceInv
    <3>8. OwnSpace(p)'
      BY <3>1, <3>3, <3>4 DEF OwnSpace, Own, Ns
    <3> QED
      BY <3>2, <3>6, <3>7, <3>8
  <2>2. CASE ~InitPublish(p, Blank(Ns(p)))
    <3>1. Plain(p) /\ UNCHANGED cacheVars
      BY <1>4, <2>2 DEF Initialise, Plain
    <3> QED
      BY <1>2, <1>4, <3>1, SoloWeathers
  <2> QED
    BY <2>1, <2>2
<1>5. ASSUME NEW c, Transition(p, c), CasWin(p, c),
             \/ ResetWin(p) /\ c = Blank(Ns(p))
             \/ Promote(p) /\ c = Promoted(held[p].state)
             \/ Discard(p) /\ c = Discarded(held[p].state)
             \/ StageCommit(p) /\ c = StagedIn(held[p].state, entry[p])
      PROVE  HeadInv(p)' /\ Rest
  <2>1. c \in States
    BY <1>0, <1>5, TransitionStates, StatesAreCacheStates DEF CasWin
  <2> QED
    BY <1>3, <1>5, <2>1, SoloCommits
<1>6. ASSUME \/ Reread(p) \/ ResetLose(p) \/ Wipe(p) \/ WipeDone(p) \/ NothingStaged(p)
             \/ Conflict(p) \/ Exhausted(p) \/ StoreFails(p) \/ Fail(p)
             \/ CollectCheck(p) \/ CollectUnlink(p) \/ CollectDone(p) \/ Prune(p)
             \/ PruneDone(p) \/ StagePrune(p) \/ Install(p) \/ ActiveEntry(p) \/ Get(p)
      PROVE  HeadInv(p)' /\ Rest
  <2>1. Plain(p) \/ UNCHANGED storeVars
    BY <1>6 DEF Reread, ResetLose, Wipe, WipeDone, NothingStaged, Conflict, Exhausted,
      StoreFails, Fail, CollectCheck, CollectUnlink, CollectDone, Prune, PruneDone,
      StagePrune, Install, ActiveEntry, Get, End, Plain, storeVars
  <2> QED
    BY <1>1, <1>2, <1>6, <2>1, SoloWork
<1>7. ASSUME \/ Launch(p) \/ Active(p) \/ Stop(p)
             \/ \E v \in Versions : Stage(p, v) \/ InstallUncached(p, v)
      PROVE  HeadInv(p)' /\ Rest
  <2>1. Plain(p) \/ UNCHANGED storeVars
    BY <1>7 DEF Launch, Active, Stop, Stage, InstallUncached, Begin, Plain
  <2> QED
    BY <1>1, <1>2, <1>7, <2>1, SoloBegins
<1>8. ASSUME \/ \E v \in Versions : OtherInstall(v) \/ Age(v) \/ Rot(v)
             \/ UNCHANGED vars
      PROVE  HeadInv(p)' /\ Rest
  <2>1. UNCHANGED storeVars
    BY <1>8 DEF OtherInstall, Age, Rot, vars
  <2> QED
    BY <1>1, <1>8, <2>1, SoloWeathers
<1>9. ASSUME NEW g \in Gens, StateDamage(g)
      PROVE  HeadInv(p)' /\ Rest
  <2>1. Damage(g)
    BY <1>9 DEF StateDamage
  <2>2. (Current' = Current \/ Current' = Unusable) /\ Present' = Present
    BY <1>0, <2>1, DamagedCurrent
  <2>3. HeadInv(p)' /\ Keeps(p)
    BY <1>0, <2>1, <2>2 DEF Damage, HeadInv, AtHead, Keeps
  <2> QED
    BY <1>9, <2>3, SoloWeathers
<1>10. ASSUME Work(p)
       PROVE  HeadInv(p)' /\ Rest
  <2>1. CASE ResetWin(p) \/ Promote(p) \/ Discard(p) \/ StageCommit(p)
    <3>1. pc[p] # "down" /\ Ns(p) \in Keys /\ running[p] \in ran
      BY <1>0, <2>1, OwnKey DEF ResetWin, Foreign, Promote, Discard, StageCommit, Settled
    <3>2. op[p] = "stage" => entry[p] \in Entry
      BY <1>0 DEF CacheInv, OwnInv, EntryInv
    <3> QED
      BY <1>5, <2>1, <3>1, <3>2
        DEF ResetWin, Promote, Discard, StageCommit, Transition, Promotes, Discards
  <2> QED
    BY <1>4, <1>6, <1>10, <2>1 DEF Work
<1>11. HeadInv(p)' /\ Rest
  <2>1. \A q \in Procs : q = p
    BY DEF Alone
  <2> QED
    BY <1>7, <1>8, <1>9, <1>10, <2>1 DEF CacheNext
<1> QED
  BY <1>11 DEF AloneInv

\* One instance at a time, however often it is stopped in the middle, whatever is
\* damaged and whatever fails, never leaves the current state naming an artifact
\* that is not in the blob directory (mod.rs, collect after the compare-and-set and
\* stage_pending after the put; blob.rs, retain).
THEOREM OneInstanceKeepsItsBlobs ==
  ASSUME Alone
  PROVE  CacheSpec => []LiveBlobsStored
<1>1. CacheInit => SoloInv
  BY SoloStart
<1>2. SoloInv /\ [CacheNext]_vars => SoloInv'
  BY SoloStep
<1>3. SoloInv => LiveBlobsStored
  BY DEF Alone, SoloInv, AloneInv, LiveInv, Live, Known, LiveBlobsStored
<1> QED
  BY <1>1, <1>2, <1>3, PTL DEF CacheSpec
=============================================================================
