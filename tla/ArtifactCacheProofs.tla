-------------------------- MODULE ArtifactCacheProofs --------------------------
(***************************************************************************)
(* Proofs about ArtifactCache, for any instances, versions, keys, bounds    *)
(* and faults.                                                              *)
(*                                                                         *)
(* Every step of the cache is one step of the state store or none           *)
(* (StepOfStore), so the store's theorems hold of it; what it publishes is  *)
(* an empty state or a transition of the very state it holds (Transitions). *)
(* CacheInv adds what the places of an operation know: whose versions were  *)
(* seen running, and what an instance read before it serves it.             *)
(***************************************************************************)
EXTENDS ArtifactCache, StateStoreProofs

\* ACTIVE is an artifact of a version that was launched.
ActiveRan(state) == state.active # NoEntry => state.active.version \in ran

FilesRan == \A g \in Gens : files[g] \in States => ActiveRan(files[g])
HeldRan(p) == held[p] # Nothing => ActiveRan(held[p].state)

\* An instance that is up runs a version that was launched, and one that is not
\* serves nothing.
LifeInv(p) ==
  /\ pc[p] # "down" => running[p] \in ran
  /\ pc[p] = "down" => served[p] = NoEntry

\* What the operations know of the entry they are about.
EntryInv(p) ==
  /\ op[p] = "stage" => entry[p] \in Entry
  /\ pc[p] = "get" => op[p] = "active" /\ entry[p] \in Entry /\ entry[p].version \in ran
  /\ pc[p] = "install" => op[p] # "stage" /\ entry[p] \in Entry

ServedInv(p) == served[p] # NoEntry => served[p].version \in ran /\ served[p].key = Ns(p)

OwnInv(p) == LifeInv(p) /\ EntryInv(p) /\ ServedInv(p)

CacheInv ==
  /\ StoreInv /\ CacheTypeOK
  /\ FilesRan /\ \A p \in Procs : HeldRan(p) /\ OwnInv(p)

-----------------------------------------------------------------------------
(* Entries and states. *)

LEMMA BlankStates ==
  ASSUME NEW key \in Keys
  PROVE  Blank(key) \in CacheState /\ Blank(key).active = NoEntry
  BY DEF Blank, CacheState, Slot

LEMMA Stagings ==
  ASSUME NEW state \in CacheState, NEW e \in Slot
  PROVE  StagedIn(state, e) \in CacheState /\ StagedIn(state, e).active = state.active
  BY Zenon DEF StagedIn, CacheState

LEMMA Promotions ==
  ASSUME NEW state \in CacheState
  PROVE  Promoted(state) \in CacheState /\ Promoted(state).active = state.pending
<1>1. NoEntry \in Slot /\ state.pending \in Slot
  BY DEF CacheState, Slot
<1> QED
  BY <1>1, Zenon DEF Promoted, CacheState

LEMMA Discardings ==
  ASSUME NEW state \in CacheState
  PROVE  Discarded(state) \in CacheState /\ Discarded(state).active = state.active
<1>1. NoEntry \in Slot
  BY DEF Slot
<1> QED
  BY <1>1, Zenon DEF Discarded, CacheState

LEMMA Slots ==
  /\ NoEntry \in Slot /\ NoEntry \notin Entry
  /\ \A e \in Slot : e # NoEntry => e \in Entry /\ e.version \in Versions /\ e.key \in Keys
  BY EntryAssumption DEF Slot, Entry

-----------------------------------------------------------------------------
(* The cache drives the store. *)

\* The steps that publish nothing.
Plain(p) ==
  \/ InitialiseCall(p) \/ LoadList(p) \/ LoadRead(p) \/ ReadError(p)
  \/ InitList(p) \/ InitConflict(p) \/ CasConflict(p) \/ StoreError(p)
  \/ PruneCall(p) \/ PruneList(p) \/ PruneRemove(p) \/ Proceed(p) \/ StoreReturn(p)

\* What an instance may compute from the state it holds.
Promotes(p, state) ==
  /\ Pending(p) # NoEntry /\ Pending(p).version \in ran
  /\ state = Promoted(held[p].state)
Discards(p, state) == Pending(p) # NoEntry /\ state = Discarded(held[p].state)
Transition(p, state) ==
  \/ \E key \in Keys : state = Blank(key)
  \/ \E e \in Entry : state = StagedIn(held[p].state, e)
  \/ Promotes(p, state) \/ Discards(p, state)

StoreMove(p) ==
  \/ Plain(p)
  \/ \E key \in Keys : InitPublish(p, Blank(key))
  \/ \E state : Transition(p, state) /\ CasWin(p, state)

\* A step of the cache, as the store and the history of launches see it.
StepOfStore ==
  \/ UNCHANGED <<storeVars, ran>>
  \/ ran' = ran /\ \E p \in Procs : StoreMove(p)
  \/ ran' = ran \cup {installed} /\ \E p \in Procs : InitialiseCall(p)
  \/ ran' = ran /\ \E g \in Gens : Damage(g)

LEMMA OwnKey ==
  ASSUME CacheInv, NEW p \in Procs, pc[p] # "down"
  PROVE  running[p] \in ran /\ running[p] \in Versions /\ Ns(p) \in Keys
  BY VersionAssumption DEF CacheInv, CacheTypeOK, OwnInv, LifeInv, Ns

LEMMA WorkMovesStore ==
  ASSUME CacheInv, NEW p \in Procs, Work(p)
  PROVE  UNCHANGED <<storeVars, ran>> \/ (ran' = ran /\ StoreMove(p))
<1> USE DEF life, sweep, cacheVars
<1>0. pc[p] # "down" => running[p] \in ran /\ Ns(p) \in Keys
  BY OwnKey
<1>1. CASE Initialise(p)
  <2>1. pc[p] # "down" /\ ran' = ran
    BY <1>1 DEF Initialise
  <2> QED
    BY <1>0, <1>1, <2>1 DEF Initialise, StoreMove, Plain
<1>2. CASE Reread(p) \/ ResetLose(p) \/ WipeDone(p) \/ NothingStaged(p) \/ Conflict(p)
           \/ Exhausted(p) \/ StoreFails(p) \/ Fail(p) \/ Prune(p) \/ PruneDone(p)
           \/ StagePrune(p) \/ ActiveEntry(p)
  BY <1>2 DEF Reread, ResetLose, WipeDone, NothingStaged, Conflict, Exhausted, StoreFails,
    Fail, Prune, PruneDone, StagePrune, ActiveEntry, End, StoreMove, Plain
<1>3. CASE Wipe(p) \/ CollectCheck(p) \/ CollectUnlink(p) \/ Install(p) \/ Get(p)
  BY <1>3 DEF Wipe, CollectCheck, CollectUnlink, Install, Get, storeVars
<1>4. CASE CollectDone(p)
  BY <1>4 DEF CollectDone, StoreMove, Plain, storeVars
<1>5. CASE ResetWin(p)
  <2>1. pc[p] # "down" /\ ran' = ran /\ CasWin(p, Blank(Ns(p)))
    BY <1>5 DEF ResetWin, Foreign
  <2> QED
    BY <1>0, <2>1 DEF StoreMove, Transition
<1>6. CASE Promote(p)
  <2>1. /\ Pending(p) # NoEntry /\ Pending(p).version = running[p] /\ pc[p] # "down"
        /\ ran' = ran /\ CasWin(p, Promoted(held[p].state))
    BY <1>6 DEF Promote, Settled
  <2> QED
    BY <1>0, <2>1 DEF StoreMove, Transition, Promotes
<1>7. CASE Discard(p)
  <2>1. Pending(p) # NoEntry /\ ran' = ran /\ CasWin(p, Discarded(held[p].state))
    BY <1>7 DEF Discard
  <2> QED
    BY <2>1 DEF StoreMove, Transition, Discards
<1>8. CASE StageCommit(p)
  <2>1. op[p] = "stage" /\ ran' = ran /\ CasWin(p, StagedIn(held[p].state, entry[p]))
    BY <1>8 DEF StageCommit
  <2>2. entry[p] \in Entry
    BY <2>1 DEF CacheInv, OwnInv, EntryInv
  <2> QED
    BY <2>1, <2>2 DEF StoreMove, Transition
<1> QED
  BY <1>1, <1>2, <1>3, <1>4, <1>5, <1>6, <1>7, <1>8 DEF Work

LEMMA CacheMovesStore ==
  CacheInv /\ [CacheNext]_vars => StepOfStore
<1> SUFFICES ASSUME CacheInv, [CacheNext]_vars
             PROVE  StepOfStore
  OBVIOUS
<1> USE DEF life, sweep, cacheVars, StepOfStore
<1>1. ASSUME NEW p \in Procs, Work(p)
      PROVE  StepOfStore
  BY <1>1, WorkMovesStore
<1>2. ASSUME NEW p \in Procs, Launch(p)
      PROVE  StepOfStore
  BY <1>2 DEF Launch, Begin
<1>3. ASSUME NEW p \in Procs, Active(p) \/ \E v \in Versions : Stage(p, v)
      PROVE  StepOfStore
  BY <1>3 DEF Active, Stage, Begin, StoreMove, Plain
<1>4. ASSUME NEW p \in Procs, NEW v \in Versions, InstallUncached(p, v)
      PROVE  StepOfStore
  BY <1>4 DEF InstallUncached
<1>5. ASSUME NEW p \in Procs, Stop(p)
      PROVE  StepOfStore
  BY <1>5 DEF Stop, StoreMove, Plain
<1>6. ASSUME NEW v \in Versions, OtherInstall(v) \/ Age(v) \/ Rot(v)
      PROVE  StepOfStore
  BY <1>6 DEF OtherInstall, Age, Rot
<1>7. ASSUME NEW g \in Gens, StateDamage(g)
      PROVE  StepOfStore
  BY <1>7 DEF StateDamage
<1>8. CASE UNCHANGED vars
  BY <1>8 DEF vars
<1> QED
  BY <1>1, <1>2, <1>3, <1>4, <1>5, <1>6, <1>7, <1>8 DEF CacheNext

\* A process about to publish holds a state of the cache.
LEMMA HeldStates ==
  ASSUME CacheInv, NEW p \in Procs
  PROVE  /\ held[p] # Nothing => held[p].gen \in Gens /\ held[p].state \in CacheState
         /\ at[p] = "ready" => held[p] # Nothing
  BY StatesAreCacheStates
    DEF CacheInv, StoreInv, StoreTypeOK, Versioned, ProcInv, CallInv

LEMMA TransitionStates ==
  ASSUME CacheInv, NEW p \in Procs, NEW state, at[p] = "ready", Transition(p, state)
  PROVE  state \in CacheState /\ ActiveRan(state)
<1>1. held[p].state \in CacheState /\ ActiveRan(held[p].state)
  BY HeldStates DEF CacheInv, HeldRan
<1>2. ASSUME NEW key \in Keys, state = Blank(key)
      PROVE  state \in CacheState /\ ActiveRan(state)
  BY <1>2, BlankStates DEF ActiveRan
<1>3. ASSUME NEW e \in Entry, state = StagedIn(held[p].state, e)
      PROVE  state \in CacheState /\ ActiveRan(state)
  <2>1. e \in Slot
    BY DEF Slot
  <2> QED
    BY <1>1, <1>3, <2>1, Stagings DEF ActiveRan
<1>4. CASE Promotes(p, state)
  BY <1>1, <1>4, Promotions DEF Promotes, Pending, ActiveRan
<1>5. CASE Discards(p, state)
  BY <1>1, <1>5, Discardings DEF Discards, ActiveRan
<1> QED
  BY <1>2, <1>3, <1>4, <1>5 DEF Transition

LEMMA CacheStepsStore ==
  CacheInv /\ StepOfStore => [StoreNext]_storeVars
<1> SUFFICES ASSUME CacheInv, StepOfStore
             PROVE  [StoreNext]_storeVars
  OBVIOUS
<1>1. ASSUME NEW p \in Procs, Plain(p)
      PROVE  StoreNext
  BY <1>1 DEF Plain, StoreNext, StoreStep
<1>2. ASSUME NEW p \in Procs, NEW key \in Keys, InitPublish(p, Blank(key))
      PROVE  StoreNext
  <2>1. Blank(key) \in Blanks
    BY StatesAreCacheStates
  <2> QED
    BY <1>2, <2>1 DEF StoreNext, StoreStep
<1>3. ASSUME NEW p \in Procs, NEW state, Transition(p, state), CasWin(p, state)
      PROVE  StoreNext
  <2>1. state \in States
    BY <1>3, TransitionStates, StatesAreCacheStates DEF CasWin
  <2> QED
    BY <1>3, <2>1 DEF StoreNext
<1>4. ASSUME NEW g \in Gens, Damage(g)
      PROVE  StoreNext
  BY <1>4 DEF StoreNext
<1>5. ASSUME NEW p \in Procs, InitialiseCall(p)
      PROVE  StoreNext
  BY <1>5 DEF StoreNext
<1> QED
  BY <1>1, <1>2, <1>3, <1>4, <1>5 DEF StepOfStore, StoreMove

\* So what the store's proofs establish of each step holds of the cache's.
LEMMA CacheKeepsStore ==
  CacheInv /\ [CacheNext]_vars => [StoreNext]_storeVars /\ StoreInv'
  BY CacheMovesStore, CacheStepsStore, StoreInvStep DEF CacheInv

-----------------------------------------------------------------------------
(* Only what ran is ACTIVE. *)

\* Every state a step leaves in the directory or in a process's hands was there
\* before it, or is one the cache may publish.
LEMMA ActiveStaysRan ==
  CacheInv /\ StepOfStore => FilesRan' /\ \A q \in Procs : HeldRan(q)'
<1> SUFFICES ASSUME CacheInv, StepOfStore
             PROVE  FilesRan' /\ \A q \in Procs : HeldRan(q)'
  OBVIOUS
<1> DEFINE Ran(state) == state.active # NoEntry => state.active.version \in ran'
           Good == /\ \A g \in Gens : files'[g] \in States => Ran(files'[g])
                   /\ \A q \in Procs : held'[q] # Nothing => Ran(held'[q].state)
<1>1. \A state : ActiveRan(state) => Ran(state)
  BY DEF StepOfStore, ActiveRan
<1>2. /\ files \in [Gens -> Contents \cup {NoFile}]
      /\ held \in [Procs -> Versioned \cup {Nothing}]
  BY DEF CacheInv, StoreInv, StoreTypeOK
<1>3. /\ \A g \in Gens : files[g] \in States => Ran(files[g])
      /\ \A q \in Procs : held[q] # Nothing => Ran(held[q].state)
  BY <1>1 DEF CacheInv, FilesRan, HeldRan
<1>4. Unusable \notin States /\ NoFile \notin States
  BY ContentAssumption
<1> HIDE DEF Ran
<1>5. ASSUME UNCHANGED <<files, held>>
      PROVE  Good
  BY <1>3, <1>5
<1>6. ASSUME NEW p \in Procs, InitialiseCall(p) \/ StoreReturn(p)
      PROVE  Good
  BY <1>2, <1>3, <1>6 DEF InitialiseCall, StoreReturn
<1>7. ASSUME NEW p \in Procs, LoadRead(p)
      PROVE  Good
  <2>1. seen[p] \in Gens
    BY <1>7 DEF LoadRead, CacheInv, StoreInv, ProcInv, CallInv
  <2>2. CASE files[seen[p]] \in States
    <3>1. /\ files' = files
          /\ held' = [held EXCEPT ![p] = [gen |-> seen[p], state |-> files[seen[p]]]]
      BY <1>7, <2>2 DEF LoadRead
    <3> QED
      BY <1>2, <1>3, <2>1, <2>2, <3>1
  <2>3. CASE files[seen[p]] \notin States
    BY <1>5, <1>7, <2>3 DEF LoadRead
  <2> QED
    BY <2>2, <2>3
<1>8. ASSUME NEW p \in Procs, NEW state, NEW g \in Gens, Ran(state),
             files' = [files EXCEPT ![g] = state],
             held' = [held EXCEPT ![p] = [gen |-> g, state |-> state]]
      PROVE  Good
  BY <1>2, <1>3, <1>8
<1>9. ASSUME NEW p \in Procs, NEW key \in Keys, InitPublish(p, Blank(key))
      PROVE  Good
  <2>1. Ran(Blank(key)) /\ seen[p] \in Gens
    BY <1>1, <1>9, BlankStates DEF ActiveRan, InitPublish, Free
  <2> QED
    BY <1>8, <1>9, <2>1 DEF InitPublish
<1>10. ASSUME NEW p \in Procs, NEW state, Transition(p, state), CasWin(p, state)
       PROVE  Good
  <2>1. Ran(state) /\ held[p].gen + 1 \in Gens
    BY <1>1, <1>10, TransitionStates DEF CasWin, Free
  <2> QED
    BY <1>8, <1>10, <2>1 DEF CasWin
<1>11. ASSUME NEW p \in Procs, PruneRemove(p)
       PROVE  Good
  BY <1>2, <1>3, <1>4, <1>11 DEF PruneRemove
<1>12. ASSUME NEW g \in Gens, Damage(g)
       PROVE  Good
  BY <1>2, <1>3, <1>4, <1>12 DEF Damage
<1>13. ASSUME NEW p \in Procs, Plain(p)
       PROVE  Good
  <2>1. CASE \/ LoadList(p) \/ ReadError(p) \/ InitList(p) \/ InitConflict(p)
             \/ CasConflict(p) \/ StoreError(p) \/ PruneCall(p) \/ PruneList(p)
             \/ Proceed(p)
    BY <1>5, <2>1 DEF LoadList, ReadError, InitList, InitConflict, CasConflict,
      StoreError, PruneCall, PruneList, Proceed
  <2> QED
    BY <1>6, <1>7, <1>11, <1>13, <2>1 DEF Plain
<1>14. Good
  <2>1. CASE UNCHANGED <<storeVars, ran>>
    BY <1>5, <2>1 DEF storeVars
  <2> QED
    BY <1>6, <1>9, <1>10, <1>12, <1>13, <2>1 DEF StepOfStore, StoreMove
<1> QED
  BY <1>14 DEF Ran, FilesRan, HeldRan, ActiveRan

-----------------------------------------------------------------------------
(* The types. *)

LEMMA CacheTypesKept ==
  ASSUME CacheInv, [CacheNext]_vars
  PROVE  CacheTypeOK'
<1> USE VersionAssumption DEF CacheTypeOK, life, sweep, cacheVars, vars, Step, Ops, Steps, BlobStates
<1>0. /\ CacheTypeOK /\ StoreTypeOK'
      /\ NoEntry \in Slot
  BY CacheKeepsStore, Slots DEF CacheInv, StoreInv
<1>1. ASSUME NEW p \in Procs, Initialise(p) \/ Reread(p) \/ StoreFails(p) \/ Prune(p)
      PROVE  CacheTypeOK'
  BY <1>0, <1>1 DEF Initialise, Reread, StoreFails, Prune
<1>2. ASSUME NEW p \in Procs, ResetWin(p) \/ ResetLose(p) \/ Wipe(p) \/ WipeDone(p)
      PROVE  CacheTypeOK'
  BY <1>0, <1>2 DEF ResetWin, ResetLose, Wipe, WipeDone
<1>3. ASSUME NEW p \in Procs, NothingStaged(p) \/ Promote(p) \/ Discard(p)
      PROVE  CacheTypeOK'
  <2>1. PICK S \in SUBSET Versions : todo' = [todo EXCEPT ![p] = S]
    BY <1>3 DEF NothingStaged, Promote, Discard, Collect
  <2> QED
    BY <1>0, <1>3, <2>1 DEF NothingStaged, Promote, Discard, Collect
<1>4. ASSUME NEW p \in Procs, Conflict(p)
      PROVE  CacheTypeOK'
  BY <1>0, <1>4 DEF Conflict
<1>5. ASSUME NEW p \in Procs, Exhausted(p) \/ Fail(p) \/ PruneDone(p)
      PROVE  CacheTypeOK'
  BY <1>0, <1>5 DEF Exhausted, Fail, PruneDone, End, AfterFailure
<1>6. ASSUME NEW p \in Procs, CollectCheck(p) \/ CollectUnlink(p) \/ CollectDone(p)
      PROVE  CacheTypeOK'
  BY <1>0, <1>6 DEF CollectCheck, CollectUnlink, CollectDone
<1>7. ASSUME NEW p \in Procs, StageCommit(p) \/ StagePrune(p)
      PROVE  CacheTypeOK'
  BY <1>0, <1>7 DEF StageCommit, StagePrune
<1>8. ASSUME NEW p \in Procs, Install(p)
      PROVE  CacheTypeOK'
  <2>1. entry[p].version \in Versions
    BY <1>8 DEF Install, CacheInv, OwnInv, EntryInv, Entry
  <2>2. installed' \in Versions
    BY <1>8, <2>1 DEF Install, CacheInv
  <2> QED
    BY <1>0, <1>8, <2>2 DEF Install
<1>9. ASSUME NEW p \in Procs, ActiveEntry(p) \/ Get(p)
      PROVE  CacheTypeOK'
  BY <1>0, <1>9, HeldStates DEF ActiveEntry, Get, Settled, CacheState
<1>10. ASSUME NEW p \in Procs, Launch(p) \/ Active(p) \/ Stop(p)
       PROVE  CacheTypeOK'
  BY <1>0, <1>10 DEF Launch, Active, Stop, Begin
<1>11. ASSUME NEW p \in Procs, NEW v \in Versions, Stage(p, v) \/ InstallUncached(p, v)
       PROVE  CacheTypeOK'
  <2>1. CASE Stage(p, v)
    <3>1. [version |-> v, key |-> Ns(p)] \in Slot
      BY <2>1, OwnKey DEF Stage, Slot, Entry
    <3> QED
      BY <1>0, <2>1, <3>1 DEF Stage, Begin
  <2>2. CASE InstallUncached(p, v)
    BY <1>0, <2>2 DEF InstallUncached
  <2> QED
    BY <1>11, <2>1, <2>2
<1>12. ASSUME NEW v \in Versions, OtherInstall(v) \/ Age(v) \/ Rot(v)
       PROVE  CacheTypeOK'
  BY <1>0, <1>12 DEF OtherInstall, Age, Rot
<1>13. ASSUME NEW g \in Gens, StateDamage(g)
       PROVE  CacheTypeOK'
  BY <1>0, <1>13 DEF StateDamage
<1>14. CASE UNCHANGED vars
  BY <1>0, <1>14
<1> QED
  BY <1>1, <1>2, <1>3, <1>4, <1>5, <1>6, <1>7, <1>8, <1>9, <1>10, <1>11, <1>12, <1>13,
    <1>14 DEF CacheNext, Work

-----------------------------------------------------------------------------
(* What an instance knows. *)

MineOf(p) == <<pc[p], op[p], entry[p], running[p], served[p]>>

\* A step that leaves alone what an instance has leaves it knowing as much.
LEMMA BystanderKnows ==
  ASSUME CacheInv, [CacheNext]_vars, NEW q \in Procs, MineOf(q)' = MineOf(q)
  PROVE  OwnInv(q)'
<1>1. \A v : v \in ran => v \in ran'
  BY CacheMovesStore DEF StepOfStore
<1>2. OwnInv(q)
  BY DEF CacheInv
<1>3. /\ pc'[q] = pc[q] /\ op'[q] = op[q] /\ entry'[q] = entry[q]
      /\ running'[q] = running[q] /\ served'[q] = served[q]
  BY DEF MineOf
<1> QED
  BY <1>1, <1>2, <1>3 DEF OwnInv, LifeInv, EntryInv, ServedInv, Ns

\* An instance's step is its own.
LEMMA OneInstanceMoves ==
  ASSUME CacheInv, NEW p \in Procs, NEW q \in Procs, q # p,
         \/ Work(p) \/ Launch(p) \/ Active(p) \/ Stop(p)
         \/ \E v \in Versions : Stage(p, v) \/ InstallUncached(p, v)
  PROVE  MineOf(q)' = MineOf(q)
<1> USE DEF CacheInv, CacheTypeOK, MineOf, life, sweep, cacheVars, Step
<1>1. CASE Launch(p) \/ Active(p) \/ Stop(p)
  BY <1>1 DEF Launch, Active, Stop, Begin
<1>2. CASE \E v \in Versions : Stage(p, v) \/ InstallUncached(p, v)
  BY <1>2 DEF Stage, InstallUncached, Begin
<1>3. CASE \/ Initialise(p) \/ Reread(p) \/ ResetWin(p) \/ ResetLose(p) \/ Wipe(p)
           \/ WipeDone(p) \/ StoreFails(p) \/ Prune(p)
  BY <1>3 DEF Initialise, Reread, ResetWin, ResetLose, Wipe, WipeDone, StoreFails, Prune
<1>4. CASE NothingStaged(p) \/ Promote(p) \/ Discard(p) \/ Conflict(p)
  BY <1>4 DEF NothingStaged, Promote, Discard, Conflict, Collect
<1>5. CASE Exhausted(p) \/ Fail(p) \/ PruneDone(p)
  BY <1>5 DEF Exhausted, Fail, PruneDone, End
<1>6. CASE CollectCheck(p) \/ CollectUnlink(p) \/ CollectDone(p)
  BY <1>6 DEF CollectCheck, CollectUnlink, CollectDone
<1>7. CASE StageCommit(p) \/ StagePrune(p) \/ Install(p) \/ ActiveEntry(p) \/ Get(p)
  BY <1>7 DEF StageCommit, StagePrune, Install, ActiveEntry, Get
<1> QED
  BY <1>1, <1>2, <1>3, <1>4, <1>5, <1>6, <1>7 DEF Work

\* What the one that moves comes to know.
LEMMA MoverKnows ==
  ASSUME CacheInv, [CacheNext]_vars, NEW p \in Procs,
         \/ Work(p) \/ Launch(p) \/ Active(p) \/ Stop(p)
         \/ \E v \in Versions : Stage(p, v) \/ InstallUncached(p, v)
  PROVE  OwnInv(p)'
<1> USE DEF OwnInv, LifeInv, EntryInv, ServedInv, Ns, life, sweep, cacheVars, Step
<1>0. /\ CacheTypeOK /\ OwnInv(p)
      /\ \A v : v \in ran => v \in ran'
      /\ NoEntry \notin Entry
  BY CacheMovesStore, Slots DEF CacheInv, StepOfStore
<1> USE DEF CacheTypeOK
<1>1. CASE Launch(p)
  BY <1>0, <1>1 DEF Launch, Begin
<1>2. CASE Active(p) \/ Stop(p)
  BY <1>0, <1>2 DEF Active, Stop, Begin
<1>3. CASE \E v \in Versions : Stage(p, v)
  <2>1. PICK v \in Versions : Stage(p, v)
    BY <1>3
  <2>2. [version |-> v, key |-> Ns(p)] \in Entry
    BY <2>1, OwnKey DEF Stage, Entry
  <2> QED
    BY <1>0, <2>1, <2>2 DEF Stage, Begin
<1>4. CASE \E v \in Versions : InstallUncached(p, v)
  BY <1>4, BystanderKnows DEF InstallUncached, MineOf
<1>5. CASE Initialise(p) \/ Reread(p) \/ Wipe(p) \/ StoreFails(p) \/ Prune(p)
           \/ CollectCheck(p) \/ CollectUnlink(p)
  <2>1. MineOf(p)' = MineOf(p)
    BY <1>5 DEF Initialise, Reread, Wipe, StoreFails, Prune, CollectCheck, CollectUnlink, MineOf
  <2> QED
    BY <2>1, BystanderKnows
<1>6. CASE ResetWin(p) \/ ResetLose(p) \/ WipeDone(p)
  BY <1>0, <1>6 DEF ResetWin, ResetLose, WipeDone, Foreign
<1>7. CASE NothingStaged(p) \/ Promote(p) \/ Discard(p)
  BY <1>0, <1>7 DEF NothingStaged, Promote, Discard, Collect, Settled
<1>8. CASE Conflict(p)
  BY <1>0, <1>8 DEF Conflict, Settled
<1>9. CASE Exhausted(p) \/ Fail(p) \/ PruneDone(p)
  BY <1>0, <1>9 DEF Exhausted, Fail, PruneDone, End, AfterFailure, Settled
<1>10. CASE CollectDone(p)
  BY <1>0, <1>10 DEF CollectDone
<1>11. CASE StageCommit(p) \/ StagePrune(p)
  BY <1>0, <1>11 DEF StageCommit, StagePrune, Settled
<1>12. CASE Install(p)
  BY <1>0, <1>12 DEF Install
<1>13. CASE ActiveEntry(p)
  <2>1. /\ held[p].state.active \in Slot
        /\ held[p].state.active # NoEntry => held[p].state.active.version \in ran
    BY <1>13, HeldStates DEF ActiveEntry, Settled, CacheState, CacheInv, HeldRan, ActiveRan
  <2> QED
    BY <1>0, <1>13, <2>1 DEF ActiveEntry, Settled, Slot
<1>14. CASE Get(p)
  BY <1>0, <1>14 DEF Get, Verifies
<1> QED
  BY <1>1, <1>2, <1>3, <1>4, <1>5, <1>6, <1>7, <1>8, <1>9, <1>10, <1>11, <1>12, <1>13,
    <1>14 DEF Work

-----------------------------------------------------------------------------
(* The invariant is inductive. *)

LEMMA CacheInvStart ==
  CacheInit => CacheInv
<1> SUFFICES ASSUME CacheInit
             PROVE  CacheInv
  OBVIOUS
<1>1. StoreInv
  BY StoreInvStart DEF CacheInit
<1>2. CacheTypeOK
  BY <1>1, VersionAssumption, Slots
    DEF CacheInit, CacheTypeOK, StoreInv, Ops, Steps, BlobStates
<1>3. FilesRan
  <2> SUFFICES ASSUME NEW g \in Gens, files[g] \in States
               PROVE  files[g].active = NoEntry
    BY DEF FilesRan, ActiveRan
  <2>1. PICK content \in Found : files = [h \in Gens |-> IF h = 0 THEN content ELSE NoFile]
    BY DEF CacheInit, StoreInit
  <2>2. files[g] \in Blanks
    BY <2>1, ContentAssumption, StatesAreCacheStates
  <2>3. PICK key \in Keys : files[g] = Blank(key)
    BY <2>2, StatesAreCacheStates
  <2> QED
    BY <2>3, BlankStates
<1>4. \A p \in Procs : HeldRan(p)
  BY DEF CacheInit, StoreInit, HeldRan
<1>5. \A p \in Procs : OwnInv(p)
  BY DEF CacheInit, OwnInv, LifeInv, EntryInv, ServedInv
<1> QED
  BY <1>1, <1>2, <1>3, <1>4, <1>5 DEF CacheInv

LEMMA CacheInvStep ==
  CacheInv /\ [CacheNext]_vars => CacheInv'
<1> SUFFICES ASSUME CacheInv, [CacheNext]_vars
             PROVE  CacheInv'
  OBVIOUS
<1>1. StoreInv' /\ CacheTypeOK'
  BY CacheKeepsStore, CacheTypesKept
<1>2. FilesRan' /\ \A p \in Procs : HeldRan(p)'
  BY CacheMovesStore, ActiveStaysRan
<1>3. ASSUME NEW q \in Procs
      PROVE  OwnInv(q)'
  <2>1. ASSUME NEW p \in Procs,
               \/ Work(p) \/ Launch(p) \/ Active(p) \/ Stop(p)
               \/ \E v \in Versions : Stage(p, v) \/ InstallUncached(p, v)
        PROVE  OwnInv(q)'
    BY <2>1, OneInstanceMoves, MoverKnows, BystanderKnows
  <2>2. ASSUME \/ \E v \in Versions : OtherInstall(v) \/ Age(v) \/ Rot(v)
               \/ \E g \in Gens : StateDamage(g)
               \/ UNCHANGED vars
        PROVE  OwnInv(q)'
    <3>1. MineOf(q)' = MineOf(q)
      BY <2>2 DEF OtherInstall, Age, Rot, StateDamage, vars, cacheVars, life, MineOf
    <3> QED
      BY <3>1, BystanderKnows
  <2> QED
    BY <2>1, <2>2 DEF CacheNext
<1> QED
  BY <1>1, <1>2, <1>3 DEF CacheInv

LEMMA CacheInvHolds == CacheSpec => []CacheInv
  BY CacheInvStart, CacheInvStep, PTL DEF CacheSpec

-----------------------------------------------------------------------------
(* The theorems. *)

\* Every state of the instances, their operations and their shared files is
\* well-formed, however many share the cache: no operation counts past
\* MAX_CAS_ATTEMPTS (cache/mod.rs), and everything it publishes is a cache state.
THEOREM CacheTypeCorrect == CacheSpec => []CacheTypeOK
<1>1. CacheInv => CacheTypeOK
  BY DEF CacheInv
<1> QED
  BY <1>1, CacheInvHolds, PTL

\* Only a version that was launched and reported itself is ever ACTIVE, in the
\* current state, in an old generation and in any instance's hands (mod.rs,
\* reconcile): however many instances, installers, crashes and damaged files.
THEOREM OnlyWhatRanIsActive == CacheSpec => []ActiveWasRunning
<1>1. CacheInv => ActiveWasRunning
  BY DEF CacheInv, FilesRan, HeldRan, ActiveRan, ActiveWasRunning
<1> QED
  BY <1>1, CacheInvHolds, PTL

\* active() hands out nothing but an artifact of a version that ran, verified
\* under the key the reader's own build is configured with (mod.rs, active).
THEOREM ServedBaseIsSound == CacheSpec => []ServedIsSound
<1>1. CacheInv => ServedIsSound
  BY DEF CacheInv, OwnInv, ServedInv, ServedIsSound
<1> QED
  BY <1>1, CacheInvHolds, PTL

\* The cache uses the state store as the store expects to be used: each of its
\* steps is one of the store's, or leaves it alone (mod.rs, current, reconcile,
\* stage_pending and collect over state.rs).
THEOREM CacheImplementsStore == CacheSpec => StoreSpec
<1>1. CacheInit => StoreInit
  BY DEF CacheInit
<1>2. CacheInv /\ [CacheNext]_vars => [StoreNext]_storeVars
  BY CacheKeepsStore
<1> QED
  BY <1>1, <1>2, CacheInvHolds, PTL DEF CacheSpec, StoreSpec

\* So what the store promises any caller it promises the cache: what an
\* operation holds is the current state until the store has moved on.
THEOREM CacheHoldsCurrent == CacheSpec => []HeldIsCurrentOrPast
  BY CacheImplementsStore, StoreHeld, PTL

\* No step of an instance removes the current state or replaces it in place, and
\* what it commits at the head replaces the very state it read.
THEOREM CacheLosesNothing == CacheSpec => CurrentOnlySuperseded /\ HeadCommitReadHead
  BY CacheImplementsStore, HeadIsNeverRemoved, HeadCommits, PTL

-----------------------------------------------------------------------------
(* The current state is the register of AbstractCache, on a disk that keeps *)
(* what is written to it.                                                   *)

\* What is held at the head of the store is the current state.
AtHead(gen) == \A h \in Present : h <= gen
Exact(gen, state) == AtHead(gen) => files[gen] = state
ExactInv(p) == held[p] # Nothing => Exact(held[p].gen, held[p].state)

RegisterInv == CacheInv /\ \A p \in Procs : ExactInv(p)

UndamagedStep == files' = files \/ Published \/ Removed

LEMMA GensAreOrdered ==
  Gens \subseteq Int /\ Present \subseteq Gens /\ Present' \subseteq Gens
  BY GenAssumption DEF Gens, Present

LEMMA HeadIs ==
  /\ \A m \in Present : AtHead(m) => Current = files[m]
  /\ \A m \in Present' : AtHead(m)' => Current' = files'[m]
<1>1. ASSUME NEW S, S \subseteq Gens, NEW m \in S, \A h \in S : h <= m
      PROVE  Max(S) = m
  <2>1. Max(S) \in S /\ \A h \in S : h <= Max(S)
    BY <1>1, MaxOfGens
  <2>2. Max(S) <= m /\ m <= Max(S)
    BY <1>1, <2>1
  <2>3. Max(S) \in Int /\ m \in Int
    BY <1>1, <2>1, GensAreOrdered
  <2> QED
    BY <2>2, <2>3
<1>2. ASSUME NEW m \in Present, AtHead(m)
      PROVE  Current = files[m]
  BY <1>1, <1>2, GensAreOrdered DEF AtHead, Current
<1>3. ASSUME NEW m \in Present', AtHead(m)'
      PROVE  Current' = files'[m]
  BY <1>1, <1>3, GensAreOrdered DEF AtHead, Current
<1> QED
  BY <1>2, <1>3

LEMMA NothingIsCurrent ==
  /\ Present = {} => Current = NoFile
  /\ Present' = {} => Current' = NoFile
  /\ Present # {} => \E m \in Present : AtHead(m)
  BY MaxOfGens, GensAreOrdered DEF Current, AtHead

\* A publication is the new current state, or lies below it; nothing else moves it.
LEMMA CurrentMoves ==
  ASSUME files \in [Gens -> Contents \cup {NoFile}]
  PROVE  /\ files' = files \/ Removed => Current' = Current
         /\ \A g \in Gens, c \in States :
              files[g] = NoFile /\ files' = [files EXCEPT ![g] = c] =>
                \/ Current' = Current
                \/ Current' = c /\ \A h \in Present : h < g
<1>1. ASSUME files' = files
      PROVE  Current' = Current
  BY <1>1 DEF Current, Present
<1>2. ASSUME Removed
      PROVE  Current' = Current
  <2>1. PICK g \in Gens : Below(g) /\ files' = [files EXCEPT ![g] = NoFile]
    BY <1>2 DEF Removed
  <2>2. Present' = Present \ {g}
    BY <2>1 DEF Present
  <2>3. PICK m \in Present : AtHead(m)
    BY <2>1, NothingIsCurrent DEF Below
  <2>4. m # g /\ m \in Present'
    BY <2>1, <2>2, <2>3, GensAreOrdered DEF Below, AtHead
  <2>5. AtHead(m)'
    BY <2>2, <2>3 DEF AtHead
  <2>6. files'[m] = files[m]
    BY <2>1, <2>4, GensAreOrdered
  <2> QED
    BY <2>3, <2>4, <2>5, <2>6, HeadIs
<1>3. ASSUME NEW g \in Gens, NEW c \in States, files[g] = NoFile,
             files' = [files EXCEPT ![g] = c]
      PROVE  Current' = Current \/ (Current' = c /\ \A h \in Present : h < g)
  <2>1. Present' = Present \cup {g} /\ g \notin Present
    BY <1>3, ContentAssumption DEF Present
  <2>2. CASE \A h \in Present : h < g
    <3>1. AtHead(g)' /\ g \in Present'
      BY <2>1, <2>2, GensAreOrdered DEF AtHead
    <3> QED
      BY <1>3, <2>2, <3>1, HeadIs
  <2>3. CASE ~ \A h \in Present : h < g
    <3>1. PICK m \in Present : AtHead(m)
      BY <2>3, NothingIsCurrent
    <3>2. AtHead(m)' /\ m \in Present' /\ m # g
      BY <2>1, <2>3, <3>1, GensAreOrdered DEF AtHead
    <3>3. files'[m] = files[m]
      BY <1>3, <3>2, GensAreOrdered
    <3> QED
      BY <3>1, <3>2, <3>3, HeadIs
  <2> QED
    BY <2>2, <2>3
<1> QED
  BY <1>1, <1>2, <1>3

\* What was exact stays so: whatever comes to lie at the head was not held.
LEMMA ExactStays ==
  ASSUME files \in [Gens -> Contents \cup {NoFile}], UndamagedStep,
         NEW gen \in Gens, NEW state, Held(gen, state), Exact(gen, state)
  PROVE  Exact(gen, state)'
<1>0. PICK h \in Present : h >= gen
  BY DEF Held
<1> SUFFICES ASSUME AtHead(gen)'
             PROVE  files'[gen] = state
  BY DEF Exact
<1>1. CASE files' = files
  BY <1>1 DEF Exact, AtHead, Present
<1>2. CASE Published
  <2>1. PICK g \in Gens, c \in States : files[g] = NoFile /\ files' = [files EXCEPT ![g] = c]
    BY <1>2 DEF Published
  <2>2. Present' = Present \cup {g} /\ g \notin Present
    BY <2>1, ContentAssumption DEF Present
  <2>3. AtHead(gen) /\ gen \in Present
    BY <1>0, <2>2, GensAreOrdered DEF AtHead
  <2> QED
    BY <2>1, <2>2, <2>3 DEF Exact
<1>3. CASE Removed
  <2>1. PICK g \in Gens : Below(g) /\ files' = [files EXCEPT ![g] = NoFile]
    BY <1>3 DEF Removed
  <2>2. Present' = Present \ {g}
    BY <2>1 DEF Present
  <2>3. PICK k \in Present : k > g
    BY <2>1 DEF Below
  <2>4. k \in Present' /\ k <= gen
    BY <2>2, <2>3, GensAreOrdered DEF AtHead
  <2>5. AtHead(gen) /\ gen # g
    BY <2>2, <2>3, <2>4, GensAreOrdered DEF AtHead
  <2> QED
    BY <2>1, <2>5 DEF Exact
<1> QED
  BY <1>1, <1>2, <1>3 DEF UndamagedStep

LEMMA UndamagedMoves ==
  ASSUME CacheInv, StepOfStore, "damage" \notin Faults
  PROVE  UndamagedStep
<1>1. ASSUME NEW p \in Procs, PruneRemove(p)
      PROVE  UndamagedStep
  <2>1. PICK g \in doomed[p] :
          \/ files' = [files EXCEPT ![g] = NoFile]
          \/ files' = files
    BY <1>1 DEF PruneRemove
  <2>2. g \in Gens /\ Below(g)
    BY <2>1 DEF CacheInv, StoreInv, StoreTypeOK, ProcInv, DoomedInv
  <2> QED
    BY <2>1, <2>2 DEF UndamagedStep, Removed
<1>2. ASSUME NEW p \in Procs, Plain(p)
      PROVE  UndamagedStep
  <2>1. CASE ~PruneRemove(p)
    <3>1. files' = files
      BY <1>2, <2>1 DEF Plain, InitialiseCall, LoadList, LoadRead, ReadError, InitList,
        InitConflict, StoreError, PruneList, CasConflict, PruneCall, Proceed, StoreReturn
    <3> QED
      BY <3>1 DEF UndamagedStep
  <2> QED
    BY <1>1, <2>1
<1>3. ASSUME NEW p \in Procs, NEW key \in Keys, InitPublish(p, Blank(key))
      PROVE  UndamagedStep
  BY <1>3, BlankStates, StatesAreCacheStates
    DEF InitPublish, Free, UndamagedStep, Published
<1>4. ASSUME NEW p \in Procs, NEW state, Transition(p, state), CasWin(p, state)
      PROVE  UndamagedStep
  <2>1. state \in States
    BY <1>4, TransitionStates, StatesAreCacheStates DEF CasWin
  <2> QED
    BY <1>4, <2>1 DEF CasWin, Free, UndamagedStep, Published
<1>5. CASE \E p \in Procs : InitialiseCall(p)
  BY <1>2, <1>5 DEF Plain
<1>6. CASE UNCHANGED <<storeVars, ran>>
  BY <1>6 DEF storeVars, UndamagedStep
<1>7. ASSUME NEW g \in Gens, Damage(g)
      PROVE  FALSE
  BY <1>7 DEF Damage
<1> QED
  BY <1>2, <1>3, <1>4, <1>5, <1>6, <1>7 DEF StepOfStore, StoreMove

\* What an instance holds after a step it held before, or it is what it read or
\* published in that step.
LEMMA HeldComesFrom ==
  ASSUME CacheInv, StepOfStore, NEW q \in Procs, held'[q] # Nothing
  PROVE  held'[q] = held[q] \/ files'[held'[q].gen] = held'[q].state
<1> DEFINE Whence == held'[q] = held[q] \/ files'[held'[q].gen] = held'[q].state
<1>1. /\ files \in [Gens -> Contents \cup {NoFile}]
      /\ held \in [Procs -> Versioned \cup {Nothing}]
  BY DEF CacheInv, StoreInv, StoreTypeOK
<1>2. ASSUME held' = held
      PROVE  Whence
  BY <1>2
<1>3. ASSUME NEW p \in Procs, NEW g \in Gens, NEW state,
             held' = [held EXCEPT ![p] = [gen |-> g, state |-> state]],
             files'[g] = state
      PROVE  Whence
  BY <1>1, <1>3
<1>4. ASSUME NEW p \in Procs, LoadRead(p)
      PROVE  Whence
  <2>1. seen[p] \in Gens
    BY <1>4 DEF LoadRead, CacheInv, StoreInv, ProcInv, CallInv
  <2> QED
    BY <1>2, <1>3, <1>4, <2>1 DEF LoadRead
<1>5. ASSUME NEW p \in Procs, NEW key \in Keys, InitPublish(p, Blank(key))
      PROVE  Whence
  BY <1>1, <1>3, <1>5 DEF InitPublish, Free
<1>6. ASSUME NEW p \in Procs, NEW state, CasWin(p, state)
      PROVE  Whence
  BY <1>1, <1>3, <1>6 DEF CasWin, Free
<1>7. ASSUME NEW p \in Procs, InitialiseCall(p) \/ StoreReturn(p)
      PROVE  Whence
  BY <1>1, <1>7 DEF InitialiseCall, StoreReturn
<1>8. ASSUME NEW p \in Procs, Plain(p)
      PROVE  Whence
  <2>1. CASE \/ LoadList(p) \/ ReadError(p) \/ InitList(p) \/ InitConflict(p)
             \/ CasConflict(p) \/ StoreError(p) \/ PruneCall(p) \/ PruneList(p)
             \/ Proceed(p) \/ PruneRemove(p)
    BY <1>2, <2>1 DEF LoadList, ReadError, InitList, InitConflict, CasConflict,
      StoreError, PruneCall, PruneList, Proceed, PruneRemove
  <2> QED
    BY <1>4, <1>7, <1>8, <2>1 DEF Plain
<1>9. CASE UNCHANGED <<storeVars, ran>> \/ \E g \in Gens : Damage(g)
  BY <1>2, <1>9 DEF storeVars, Damage
<1> QED
  BY <1>5, <1>6, <1>7, <1>8, <1>9 DEF StepOfStore, StoreMove

LEMMA RegisterInvStep ==
  ASSUME "damage" \notin Faults, RegisterInv, [CacheNext]_vars
  PROVE  RegisterInv'
<1>1. CacheInv /\ CacheInv' /\ StepOfStore
  BY CacheInvStep, CacheMovesStore DEF RegisterInv
<1>2. ASSUME NEW q \in Procs, held'[q] # Nothing, \A h \in Present' : h <= held'[q].gen
      PROVE  files'[held'[q].gen] = held'[q].state
  <2>1. CASE held'[q] = held[q]
    <3>1. held[q].gen \in Gens /\ held[q] # Nothing
      BY <1>1, <1>2, <2>1, HeldStates
    <3>2. Held(held[q].gen, held[q].state) /\ Exact(held[q].gen, held[q].state)
      BY <1>1, <3>1 DEF RegisterInv, ExactInv, CacheInv, StoreInv, ProcInv, HeldInv
    <3>3. files \in [Gens -> Contents \cup {NoFile}] /\ UndamagedStep
      BY <1>1, UndamagedMoves DEF CacheInv, StoreInv, StoreTypeOK
    <3>4. \A gen \in Gens : \A state :
            Held(gen, state) /\ Exact(gen, state) => Exact(gen, state)'
      BY <3>3, ExactStays
    <3> QED
      BY <1>2, <2>1, <3>1, <3>2, <3>4 DEF Exact, AtHead
  <2> QED
    BY <1>1, <1>2, <2>1, HeldComesFrom
<1>3. \A q \in Procs : ExactInv(q)'
  BY <1>2 DEF ExactInv, Exact, AtHead
<1> QED
  BY <1>1, <1>3 DEF RegisterInv

\* What a compare-and-set computed becomes the current state only in place of the
\* state it was computed from.
LEMMA CommitReplacesRead ==
  ASSUME RegisterInv, NEW p \in Procs, NEW state \in States, CasWin(p, state)
  PROVE  \/ Current' = Current
         \/ Current' = state /\ Current = held[p].state /\ Current \in CacheState
<1>1. /\ files \in [Gens -> Contents \cup {NoFile}]
      /\ held[p] # Nothing /\ held[p].gen \in Gens /\ held[p].state \in CacheState
  BY HeldStates DEF RegisterInv, CacheInv, StoreInv, StoreTypeOK, CasWin
<1>2. /\ held[p].gen + 1 \in Gens /\ files[held[p].gen + 1] = NoFile
      /\ files' = [files EXCEPT ![held[p].gen + 1] = state]
  BY DEF CasWin, Free
<1>3. \/ Current' = Current
      \/ Current' = state /\ \A h \in Present : h < held[p].gen + 1
  BY <1>1, <1>2, CurrentMoves
<1>4. ASSUME \A h \in Present : h < held[p].gen + 1
      PROVE  Current = held[p].state
  <2>0. held[p].gen \in Int /\ \A h \in Present : h \in Int
    BY <1>1, GensAreOrdered
  <2>1. AtHead(held[p].gen)
    BY <1>4, <2>0 DEF AtHead
  <2>2. PICK h \in Present : h >= held[p].gen
    BY <1>1 DEF RegisterInv, CacheInv, StoreInv, ProcInv, HeldInv, Held
  <2>3. held[p].gen \in Present
    <3>1. h <= held[p].gen /\ h \in Int
      BY <2>0, <2>1 DEF AtHead
    <3> QED
      BY <2>0, <2>2, <3>1
  <2>4. files[held[p].gen] = held[p].state
    BY <1>1, <2>1 DEF RegisterInv, ExactInv, Exact
  <2> QED
    BY <2>1, <2>3, <2>4, HeadIs
<1> QED
  BY <1>1, <1>3, <1>4

LEMMA RegisterStart ==
  CacheInit => Register!Init
<1> SUFFICES ASSUME CacheInit
             PROVE  Register!Init
  OBVIOUS
<1>1. PICK content \in Found : files = [h \in Gens |-> IF h = 0 THEN content ELSE NoFile]
  BY DEF CacheInit, StoreInit
<1>2. Current \in {Unusable, NoFile} \cup {Blank(key) : key \in Keys}
  <2>1. CASE Present = {}
    BY <2>1, NothingIsCurrent
  <2>2. CASE Present # {}
    <3>1. PICK m \in Present : AtHead(m)
      BY <2>2, NothingIsCurrent
    <3>2. m \in Gens /\ files[m] # NoFile
      BY <3>1 DEF Present
    <3>3. files[m] = content
      BY <1>1, <3>2
    <3> QED
      BY <3>1, <3>3, HeadIs, StatesAreCacheStates
  <2> QED
    BY <2>1, <2>2
<1> QED
  BY <1>2 DEF CacheInit, Register!Init, Register!Blank, Blank

LEMMA TransitionIsAbstract ==
  ASSUME NEW p \in Procs, NEW state, Transition(p, state), ran' = ran,
         Current' = state, Current = held[p].state, Current \in CacheState
  PROVE  Register!Next
<1> USE DEF Register!Next
<1>1. Current \notin {Unusable, NoFile}
  BY ContentAssumption, StatesAreCacheStates
<1>2. CASE \E key \in Keys : state = Blank(key)
  BY <1>2 DEF Register!Reset, Register!Blank, Blank
<1>3. CASE \E e \in Entry : state = StagedIn(held[p].state, e)
  <2>1. PICK e \in Entry : state = StagedIn(held[p].state, e)
    BY <1>3
  <2>2. Register!StagePending(e)
    BY <1>1, <2>1, Zenon DEF Register!StagePending, Register!Readable, Register!StagedIn, StagedIn
  <2>3. Entry = Register!Entry
    BY DEF Entry, Register!Entry
  <2> QED
    BY <2>2, <2>3
<1>4. CASE Promotes(p, state)
  <2>1. Register!PromotePending
    BY <1>1, <1>4, Zenon DEF Promotes, Pending, Register!PromotePending, Register!Readable,
      Register!Promoted, Promoted
  <2> QED
    BY <2>1
<1>5. CASE Discards(p, state)
  <2>1. Register!DiscardPending
    BY <1>1, <1>5, Zenon DEF Discards, Pending, Register!DiscardPending, Register!Readable,
      Register!Discarded, Discarded
  <2> QED
    BY <2>1
<1> QED
  BY <1>2, <1>3, <1>4, <1>5 DEF Transition

LEMMA RegisterStep ==
  ASSUME "damage" \notin Faults, RegisterInv, [CacheNext]_vars
  PROVE  [Register!Next]_<<Current, ran>>
<1> USE DEF Register!Next
<1>1. CacheInv /\ StepOfStore
  BY CacheMovesStore DEF RegisterInv
<1>2. files \in [Gens -> Contents \cup {NoFile}]
  BY <1>1 DEF CacheInv, StoreInv, StoreTypeOK
<1>3. ASSUME ran' = ran, Current' = Current
      PROVE  [Register!Next]_<<Current, ran>>
  BY <1>3
<1>4. CASE UNCHANGED <<storeVars, ran>>
  <2>1. Current' = Current
    BY <1>2, <1>4, CurrentMoves DEF storeVars
  <2> QED
    BY <1>3, <1>4, <2>1
<1>5. ASSUME NEW p \in Procs, ran' = ran \cup {installed}, InitialiseCall(p)
      PROVE  Register!Next
  <2>1. Current' = Current
    BY <1>2, <1>5, CurrentMoves DEF InitialiseCall
  <2>2. installed \in Versions
    BY <1>1 DEF CacheInv, CacheTypeOK
  <2> QED
    BY <1>5, <2>1, <2>2 DEF Register!Observe
<1>6. ASSUME NEW p \in Procs, ran' = ran, Plain(p)
      PROVE  [Register!Next]_<<Current, ran>>
  <2>1. files' = files \/ Removed
    <3>1. CASE PruneRemove(p)
      <4>1. PICK g \in doomed[p] :
              \/ files' = [files EXCEPT ![g] = NoFile]
              \/ files' = files
        BY <3>1 DEF PruneRemove
      <4>2. g \in Gens /\ Below(g)
        BY <1>1, <4>1 DEF CacheInv, StoreInv, StoreTypeOK, ProcInv, DoomedInv
      <4> QED
        BY <4>1, <4>2 DEF Removed
    <3>2. CASE ~PruneRemove(p)
      BY <1>6, <3>2 DEF Plain, InitialiseCall, LoadList, LoadRead, ReadError, InitList,
        InitConflict, StoreError, PruneList, CasConflict, PruneCall, Proceed, StoreReturn
    <3> QED
      BY <3>1, <3>2
  <2>2. Current' = Current
    BY <1>2, <2>1, CurrentMoves
  <2> QED
    BY <1>3, <1>6, <2>2
<1>7. ASSUME NEW p \in Procs, ran' = ran, NEW key \in Keys, InitPublish(p, Blank(key))
      PROVE  [Register!Next]_<<Current, ran>>
  <2>1. /\ seen[p] \in Gens /\ files[seen[p]] = NoFile
        /\ files' = [files EXCEPT ![seen[p]] = Blank(key)]
    BY <1>7 DEF InitPublish, Free
  <2>2. Blank(key) \in States
    BY BlankStates, StatesAreCacheStates
  <2>3. Current' = Current \/ Current' = Blank(key)
    BY <1>2, <2>1, <2>2, CurrentMoves
  <2> QED
    BY <1>3, <1>7, <2>3 DEF Register!Reset, Register!Blank, Blank
<1>8. ASSUME NEW p \in Procs, ran' = ran, NEW state, Transition(p, state), CasWin(p, state)
      PROVE  [Register!Next]_<<Current, ran>>
  <2>1. state \in States
    BY <1>1, <1>8, TransitionStates, StatesAreCacheStates DEF CasWin
  <2>2. \/ Current' = Current
        \/ Current' = state /\ Current = held[p].state /\ Current \in CacheState
    BY <1>8, <2>1, CommitReplacesRead
  <2> QED
    BY <1>3, <1>8, <2>2, TransitionIsAbstract
<1>9. ASSUME NEW g \in Gens, Damage(g)
      PROVE  FALSE
  BY <1>9 DEF Damage
<1> QED
  BY <1>1, <1>4, <1>5, <1>6, <1>7, <1>8, <1>9 DEF StepOfStore, StoreMove

\* On a disk that keeps what is written to it, the current state is a register:
\* it starts empty and every step of every instance leaves it alone or changes it
\* by one whole transition of the value it has (mod.rs: stage_pending, reconcile
\* and the resets of current), so no staging, promotion or discard is lost there.
THEOREM CacheIsRegister ==
  ASSUME "damage" \notin Faults
  PROVE  CacheSpec => RegisterSpec
<1>1. CacheInit => RegisterInv
  BY CacheInvStart DEF RegisterInv, CacheInit, StoreInit, ExactInv
<1>2. RegisterInv /\ [CacheNext]_vars => RegisterInv'
  BY RegisterInvStep
<1>3. RegisterInv /\ [CacheNext]_vars => [Register!Next]_<<Current, ran>>
  BY RegisterStep
<1> QED
  BY <1>1, <1>2, <1>3, RegisterStart, PTL DEF CacheSpec, RegisterSpec, Register!Spec
=============================================================================
