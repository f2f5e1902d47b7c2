----------------------------- MODULE ArtifactCache -----------------------------
(***************************************************************************)
(* The artifact cache (crates/delta-core/src/cache/mod.rs and blob.rs) and  *)
(* the application instances that share it.                                *)
(*                                                                         *)
(* An instance is launched as the version installed on disk, reconciles    *)
(* the cache with that version (Builder::from_app), and from then on may    *)
(* read its ACTIVE artifact, stage a verified newer one as PENDING and      *)
(* install it.  Instances share the state store (module StateStore), the   *)
(* blob directory and the installation; no lock covers any of them.        *)
(***************************************************************************)
EXTENDS StateStore, CacheEntries

CONSTANTS
  KeyOf,            \* the public key configured in the build of each version
  None,             \* no version
  MaxCas            \* MAX_CAS_ATTEMPTS

ASSUME VersionAssumption ==
  /\ None \notin Versions
  /\ KeyOf \in [Versions -> Keys]
  /\ MaxCas \in Nat \ {0}
ASSUME StatesAreCacheStates ==
  /\ States = CacheState
  /\ Blanks = {Blank(key) : key \in Keys}
  /\ Found \subseteq Blanks \cup {Unusable, NoFile}

VARIABLES
  installed,  \* the version on disk
  running,    \* the version each instance runs, or None
  op,         \* the cache operation an instance is in
  pc,         \* where it is in that operation
  entry,      \* the entry the operation stages, reads or installs
  rounds,     \* compare-and-sets it has lost
  blobs,      \* the blob directory: state of each version's artifact
  todo,       \* digests a retain has not come to yet
  victim,     \* the blob it has found deletable and will unlink next
  served,     \* what active() last returned: an entry whose bytes verified
  ran         \* history: the versions that were ever launched

life == <<installed, running, ran>>
sweep == <<todo, victim>>
cacheVars == <<life, op, pc, entry, rounds, blobs, sweep, served>>
vars == <<storeVars, cacheVars>>

Ops == {"none", "reconcile", "stage", "active"}
Steps == {"down", "idle", "uncached", "current", "reread", "wipe", "fresh",
          "collect", "prune", "get", "install"}
BlobStates == {"none", "young", "old", "rotten"}

CacheTypeOK ==
  /\ StoreTypeOK
  /\ installed \in Versions
  /\ running \in [Procs -> Versions \cup {None}]
  /\ op \in [Procs -> Ops]
  /\ pc \in [Procs -> Steps]
  /\ entry \in [Procs -> Slot]
  /\ rounds \in [Procs -> 0 .. MaxCas]
  /\ blobs \in [Versions -> BlobStates]
  /\ todo \in [Procs -> SUBSET Versions]
  /\ victim \in [Procs -> Versions \cup {None}]
  /\ served \in [Procs -> Slot]
  /\ ran \subseteq Versions

-----------------------------------------------------------------------------

Ns(p) == KeyOf[running[p]]

Step(p, step) == pc' = [pc EXCEPT ![p] = step]

\* A call of current() begins, as every cache operation does.
Begin(p, operation, e) ==
  /\ InitialiseCall(p)
  /\ Step(p, "current")
  /\ op' = [op EXCEPT ![p] = operation]
  /\ entry' = [entry EXCEPT ![p] = e]
  /\ rounds' = [rounds EXCEPT ![p] = 0]

\* An operation ends; the instance goes on at the given step.
End(p, step) ==
  /\ StoreReturn(p)
  /\ Step(p, step)
  /\ op' = [op EXCEPT ![p] = "none"]
  /\ rounds' = [rounds EXCEPT ![p] = 0]

\* A failed operation leaves the instance without a cache when it was the
\* launch's reconcile; a failed staging does not stop the install.
AfterFailure(p) ==
  CASE op[p] = "reconcile" -> "uncached"
    [] op[p] = "stage" -> "install"
    [] OTHER -> "idle"

-----------------------------------------------------------------------------
(* current() *)

\* initialise runs; the namespace it would create is the instance's own.
Initialise(p) ==
  /\ pc[p] \in {"current", "reread"}
  /\ \/ LoadList(p) \/ LoadRead(p) \/ ReadError(p) \/ InitList(p)
     \/ InitPublish(p, Blank(Ns(p))) \/ InitConflict(p)
  /\ UNCHANGED cacheVars

\* The operation's outer loop, and the re-read after a lost reset.
Reread(p) ==
  /\ pc[p] \in {"current", "reread"}
  /\ at[p] = "lost"
  /\ InitialiseCall(p)
  /\ UNCHANGED cacheVars

Foreign(p) == pc[p] = "current" /\ at[p] = "ready" /\ held[p].state.ns # Ns(p)

\* The state describes another installation: reset it, then drop every blob.
ResetWin(p) ==
  /\ Foreign(p)
  /\ CasWin(p, Blank(Ns(p)))
  /\ Step(p, "wipe")
  /\ todo' = [todo EXCEPT ![p] = Versions]
  /\ UNCHANGED <<life, op, entry, rounds, blobs, victim, served>>

\* Somebody else moved it on: re-read and take theirs.
ResetLose(p) ==
  /\ Foreign(p)
  /\ CasConflict(p)
  /\ Step(p, "reread")
  /\ UNCHANGED <<life, op, entry, rounds, blobs, sweep, served>>

\* retain(&[], ZERO): no age floor.  The listing is read as the loop goes, in no
\* particular order, so a blob stored before its turn comes is seen.
Wipe(p) ==
  /\ pc[p] = "wipe"
  /\ \E v \in todo[p] :
       /\ blobs' = [blobs EXCEPT ![v] = "none"]
       /\ todo' = [todo EXCEPT ![p] = @ \ {v}]
  /\ UNCHANGED <<storeVars, life, op, pc, entry, rounds, victim, served>>

WipeDone(p) ==
  /\ pc[p] = "wipe"
  /\ todo[p] = {}
  /\ Proceed(p)
  /\ Step(p, "fresh")
  /\ UNCHANGED <<life, op, entry, rounds, blobs, sweep, served>>

\* current() has returned the Versioned in held[p].
Settled(p) == pc[p] \in {"current", "reread", "fresh"} /\ at[p] = "ready" /\ ~Foreign(p)

-----------------------------------------------------------------------------
(* reconcile(running_version) *)

Launch(p) ==
  /\ pc[p] = "down"
  /\ Begin(p, "reconcile", NoEntry)
  /\ running' = [running EXCEPT ![p] = installed]
  /\ ran' = ran \cup {installed}
  /\ UNCHANGED <<installed, blobs, sweep, served>>

Pending(p) == held[p].state.pending

\* Mutant of Collect: keeps what is staged and not what is ACTIVE.
CollectAllButPending(p, state) ==
  /\ Step(p, "collect")
  /\ todo' = [todo EXCEPT ![p] = Versions \ {e.version : e \in {state.pending} \ {NoEntry}}]

\* collect: a retain of what the given state names.
Collect(p, state) ==
  /\ Step(p, "collect")
  /\ todo' = [todo EXCEPT ![p] = Versions \ Named(state)]

\* Mutant of NothingStaged: a launch collects and leaves PENDING alone.
NothingStagedEver(p) ==
  /\ op[p] = "reconcile" /\ Settled(p)
  /\ StoreReturn(p)
  /\ Collect(p, held[p].state)
  /\ UNCHANGED <<life, op, entry, rounds, blobs, victim, served>>

NothingStaged(p) ==
  /\ op[p] = "reconcile" /\ Settled(p)
  /\ Pending(p) = NoEntry
  /\ StoreReturn(p)
  /\ Collect(p, held[p].state)
  /\ UNCHANGED <<life, op, entry, rounds, blobs, victim, served>>

\* Mutant of Promote: whatever is staged was installed.
PromoteUnseen(p) ==
  /\ op[p] = "reconcile" /\ Settled(p)
  /\ Pending(p) # NoEntry
  /\ CasWin(p, Promoted(held[p].state))
  /\ Collect(p, Promoted(held[p].state))
  /\ UNCHANGED <<life, op, entry, rounds, blobs, victim, served>>

Promote(p) ==
  /\ op[p] = "reconcile" /\ Settled(p)
  /\ Pending(p) # NoEntry /\ Pending(p).version = running[p]
  /\ CasWin(p, Promoted(held[p].state))
  /\ Collect(p, Promoted(held[p].state))
  /\ UNCHANGED <<life, op, entry, rounds, blobs, victim, served>>

Discard(p) ==
  /\ op[p] = "reconcile" /\ Settled(p)
  /\ Pending(p) # NoEntry /\ Pending(p).version # running[p]
  /\ CasWin(p, Discarded(held[p].state))
  /\ Collect(p, Discarded(held[p].state))
  /\ UNCHANGED <<life, op, entry, rounds, blobs, victim, served>>

\* Mutant of Conflict: without MAX_CAS_ATTEMPTS.
ConflictForever(p) ==
  /\ Settled(p)
  /\ op[p] = "stage" \/ (op[p] = "reconcile" /\ Pending(p) # NoEntry)
  /\ CasConflict(p)
  /\ Step(p, "current")
  /\ rounds' = [rounds EXCEPT ![p] = @ + 1]
  /\ UNCHANGED <<life, op, entry, blobs, sweep, served>>

\* A lost compare-and-set starts the operation's loop again, MaxCas times.
Conflict(p) ==
  /\ Settled(p)
  /\ op[p] = "stage" \/ (op[p] = "reconcile" /\ Pending(p) # NoEntry)
  /\ rounds[p] + 1 < MaxCas
  /\ CasConflict(p)
  /\ Step(p, "current")
  /\ rounds' = [rounds EXCEPT ![p] = @ + 1]
  /\ UNCHANGED <<life, op, entry, blobs, sweep, served>>

Exhausted(p) ==
  /\ Settled(p)
  /\ op[p] = "stage" \/ (op[p] = "reconcile" /\ Pending(p) # NoEntry)
  /\ rounds[p] + 1 = MaxCas
  /\ held[p].gen + 1 \in Present
  /\ End(p, AfterFailure(p))
  /\ UNCHANGED <<life, entry, blobs, sweep, served>>

\* An I/O error in the store, or an initialise that gave up, fails the operation.
\* active() and a reconcile with nothing to do never write, so they meet no
\* error once current() has returned.
Writes(p) ==
  \/ Foreign(p)
  \/ Settled(p) /\ (op[p] = "stage" \/ (op[p] = "reconcile" /\ Pending(p) # NoEntry))

StoreFails(p) ==
  /\ pc[p] \in {"current", "reread", "fresh"}
  /\ at[p] = "ready" => Writes(p)
  /\ StoreError(p)
  /\ UNCHANGED cacheVars

Fail(p) ==
  /\ pc[p] \in {"current", "reread", "fresh"}
  /\ at[p] = "failed"
  /\ End(p, AfterFailure(p))
  /\ UNCHANGED <<life, entry, blobs, sweep, served>>

\* retain with a grace period: each blob is looked at, then unlinked if it has
\* reached the age.
CollectCheck(p) ==
  /\ pc[p] = "collect"
  /\ victim[p] = None
  /\ \E v \in todo[p] :
       /\ todo' = [todo EXCEPT ![p] = @ \ {v}]
       /\ victim' = [victim EXCEPT ![p] = IF blobs[v] \in {"old", "rotten"} THEN v ELSE None]
  /\ UNCHANGED <<storeVars, life, op, pc, entry, rounds, blobs, served>>

CollectUnlink(p) ==
  /\ pc[p] = "collect"
  /\ victim[p] # None
  /\ blobs' = [blobs EXCEPT ![victim[p]] = "none"]
  /\ victim' = [victim EXCEPT ![p] = None]
  /\ UNCHANGED <<storeVars, life, op, pc, entry, rounds, todo, served>>

CollectDone(p) ==
  /\ pc[p] = "collect"
  /\ todo[p] = {} /\ victim[p] = None
  /\ IF at[p] = "won"
     THEN PruneCall(p) /\ Step(p, "prune") /\ UNCHANGED op
     ELSE UNCHANGED storeVars /\ Step(p, "idle") /\ op' = [op EXCEPT ![p] = "none"]
  /\ UNCHANGED <<life, entry, rounds, blobs, sweep, served>>

Prune(p) ==
  /\ pc[p] = "prune"
  /\ PruneList(p) \/ PruneRemove(p)
  /\ UNCHANGED cacheVars

PruneDone(p) ==
  /\ pc[p] = "prune"
  /\ at[p] = "pruning" /\ doomed[p] = {}
  /\ End(p, IF op[p] = "stage" THEN "install" ELSE "idle")
  /\ UNCHANGED <<life, entry, blobs, sweep, served>>

-----------------------------------------------------------------------------
(* stage_pending(version, artifact, signature) *)

\* The bytes verified under the instance's own key.  put links them under their
\* digest; a regular file of that size that is there already is left as it is,
\* its age included.
Stage(p, v) ==
  /\ pc[p] = "idle"
  /\ v > running[p]
  /\ blobs' = [blobs EXCEPT ![v] = IF @ = "none" THEN "young" ELSE @]
  /\ Begin(p, "stage", [version |-> v, key |-> Ns(p)])
  /\ UNCHANGED <<life, sweep, served>>

\* Mutant of StageCommit: PENDING in a fresh state instead of the one read.
StageCommitAfresh(p) ==
  /\ op[p] = "stage" /\ Settled(p)
  /\ CasWin(p, StagedIn(Blank(Ns(p)), entry[p]))
  /\ Step(p, "fresh")
  /\ UNCHANGED <<life, op, entry, rounds, blobs, sweep, served>>

StageCommit(p) ==
  /\ op[p] = "stage" /\ Settled(p)
  /\ CasWin(p, StagedIn(held[p].state, entry[p]))
  /\ Step(p, "fresh")
  /\ UNCHANGED <<life, op, entry, rounds, blobs, sweep, served>>

StagePrune(p) ==
  /\ op[p] = "stage" /\ pc[p] = "fresh"
  /\ PruneCall(p)
  /\ Step(p, "prune")
  /\ UNCHANGED <<life, op, entry, rounds, blobs, sweep, served>>

\* install(): the installer replaces the bundle, or fails and leaves it.
Install(p) ==
  /\ pc[p] = "install"
  /\ installed' \in {installed, entry[p].version}
  /\ Step(p, "idle")
  /\ entry' = [entry EXCEPT ![p] = NoEntry]
  /\ UNCHANGED <<storeVars, running, op, rounds, blobs, sweep, served, ran>>

\* An instance without a cache installs all the same.
InstallUncached(p, v) ==
  /\ pc[p] = "uncached"
  /\ v > running[p]
  /\ installed' = v
  /\ UNCHANGED <<storeVars, running, op, pc, entry, rounds, blobs, sweep, served, ran>>

-----------------------------------------------------------------------------
(* active(pubkey) *)

Active(p) ==
  /\ pc[p] = "idle"
  /\ Begin(p, "active", NoEntry)
  /\ served' = [served EXCEPT ![p] = NoEntry]
  /\ UNCHANGED <<life, blobs, sweep>>

ActiveEntry(p) ==
  /\ op[p] = "active" /\ Settled(p)
  /\ entry' = [entry EXCEPT ![p] = held[p].state.active]
  /\ StoreReturn(p)
  /\ IF held[p].state.active = NoEntry
     THEN Step(p, "idle") /\ op' = [op EXCEPT ![p] = "none"]
     ELSE Step(p, "get") /\ UNCHANGED op
  /\ UNCHANGED <<life, rounds, blobs, sweep, served>>

\* Mutant of Verifies: trusts what verified when it was staged.
VerifiedOnce(p, e) == blobs[e.version] \in {"young", "old"}

\* get: the bytes are there, hash to the digest, and verify under the key this
\* build is configured with now.
Verifies(p, e) == blobs[e.version] \in {"young", "old"} /\ e.key = Ns(p)

Get(p) ==
  /\ pc[p] = "get"
  /\ served' = [served EXCEPT ![p] = IF Verifies(p, entry[p]) THEN entry[p] ELSE NoEntry]
  /\ entry' = [entry EXCEPT ![p] = NoEntry]
  /\ Step(p, "idle")
  /\ op' = [op EXCEPT ![p] = "none"]
  /\ UNCHANGED <<storeVars, life, rounds, blobs, sweep>>

-----------------------------------------------------------------------------
(* The environment. *)

\* The instance quits, or dies at any point of what it was doing.
Stop(p) ==
  /\ pc[p] # "down"
  /\ "crash" \in Faults \/ op[p] = "none"
  /\ IF at[p] = "idle" THEN UNCHANGED storeVars ELSE StoreReturn(p)
  /\ Step(p, "down")
  /\ running' = [running EXCEPT ![p] = None]
  /\ op' = [op EXCEPT ![p] = "none"]
  /\ entry' = [entry EXCEPT ![p] = NoEntry]
  /\ rounds' = [rounds EXCEPT ![p] = 0]
  /\ todo' = [todo EXCEPT ![p] = {}]
  /\ victim' = [victim EXCEPT ![p] = None]
  /\ served' = [served EXCEPT ![p] = NoEntry]
  /\ UNCHANGED <<installed, blobs, ran>>

\* Another installer, or the operating system, puts some version in place.
OtherInstall(v) ==
  /\ "reinstall" \in Faults
  /\ installed' = v
  /\ UNCHANGED <<storeVars, running, op, pc, entry, rounds, blobs, sweep, served, ran>>

\* A blob reaches the grace age.  Unless "slow" is among the faults, no staging
\* of that artifact is under way when it does: CacheLimits::blob_grace is "far
\* longer than a blob write plus a compare-and-set takes".
Age(v) ==
  /\ "age" \in Faults
  /\ blobs[v] = "young"
  /\ "slow" \in Faults \/ \A p \in Procs : ~(op[p] = "stage" /\ entry[p].version = v)
  /\ blobs' = [blobs EXCEPT ![v] = "old"]
  /\ UNCHANGED <<storeVars, life, op, pc, entry, rounds, sweep, served>>

\* The file under a digest no longer holds those bytes.
Rot(v) ==
  /\ "damage" \in Faults
  /\ blobs[v] \in {"young", "old"}
  /\ blobs' = [blobs EXCEPT ![v] = "rotten"]
  /\ UNCHANGED <<storeVars, life, op, pc, entry, rounds, sweep, served>>

StateDamage(g) == Damage(g) /\ UNCHANGED cacheVars

-----------------------------------------------------------------------------

CacheInit ==
  /\ StoreInit
  /\ installed \in Versions
  /\ running = [p \in Procs |-> None]
  /\ op = [p \in Procs |-> "none"]
  /\ pc = [p \in Procs |-> "down"]
  /\ entry = [p \in Procs |-> NoEntry]
  /\ rounds = [p \in Procs |-> 0]
  /\ blobs = [v \in Versions |-> "none"]
  /\ todo = [p \in Procs |-> {}]
  /\ victim = [p \in Procs |-> None]
  /\ served = [p \in Procs |-> NoEntry]
  /\ ran = {}

\* The steps of an operation under way: the thread that runs it takes them.
Work(p) ==
  \/ Initialise(p) \/ Reread(p) \/ ResetWin(p) \/ ResetLose(p) \/ Wipe(p) \/ WipeDone(p)
  \/ NothingStaged(p) \/ Promote(p) \/ Discard(p)
  \/ Conflict(p) \/ Exhausted(p) \/ StoreFails(p) \/ Fail(p)
  \/ CollectCheck(p) \/ CollectUnlink(p) \/ CollectDone(p) \/ Prune(p) \/ PruneDone(p)
  \/ StageCommit(p) \/ StagePrune(p) \/ Install(p)
  \/ ActiveEntry(p) \/ Get(p)

CacheNext ==
  \/ \E p \in Procs :
       \/ Work(p)
       \/ Launch(p) \/ Active(p) \/ (\E v \in Versions : Stage(p, v) \/ InstallUncached(p, v))
       \/ Stop(p)
  \/ \E v \in Versions : OtherInstall(v) \/ Age(v) \/ Rot(v)
  \/ \E g \in Gens : StateDamage(g)

CacheSpec == CacheInit /\ [][CacheNext]_vars

\* Threads that run an operation are scheduled.  Nobody has to launch, update or
\* quit the application.
FairCacheSpec == CacheSpec /\ \A p \in Procs : WF_vars(Work(p))

-----------------------------------------------------------------------------
(* Properties. *)

\* The current state is a register that only whole, legal transitions of its own
\* value change: no staging, promotion or discard is lost at the head, whoever
\* races, stops or sees an I/O error.
Register == INSTANCE AbstractCache WITH cache <- Current
RegisterSpec == Register!Spec

\* Every ACTIVE entry, in the current state, in an old generation and in the
\* hands of any instance, is an artifact of a version that was observed running:
\* an install that reported success and was never launched does not count.
ActiveWasRunning ==
  /\ \A g \in Gens : files[g] \in States /\ files[g].active # NoEntry => files[g].active.version \in ran
  /\ \A p \in Procs : held[p] # Nothing /\ held[p].state.active # NoEntry =>
       held[p].state.active.version \in ran

\* The base active() hands out is an artifact of a version that ran, and it
\* verified under the key its reader trusts, whatever namespace the entry was
\* filed under.
ServedIsSound ==
  \A p \in Procs : served[p] # NoEntry =>
    served[p].version \in ran /\ served[p].key = Ns(p)

\* One instance at a time: stops at any point, damaged states and I/O errors
\* never leave the current state naming a blob that is not there.
LiveBlobsStored ==
  Current \in States => \A v \in Named(Current) : blobs[v] # "none"

\* Every cache operation returns: an unusable, contended or failing store never
\* holds up a launch or an update.
OperationsReturn ==
  \A p \in Procs : op[p] # "none" ~> op[p] = "none"

\* A launch of the version that is staged, by a build that trusts the same key,
\* does not leave that entry PENDING: it is promoted, or another transition has
\* taken its place, unless the instance stopped, its cache could not be opened, or
\* the store moved on so far since the instance read it that prune has freed the
\* name of the generation it would write: that publication lands below the head.
StagedIsCurrent(v) ==
  /\ Current \in States /\ Current.ns = KeyOf[v]
  /\ Current.pending # NoEntry /\ Current.pending.version = v

StagedLaunchSettles ==
  \A p \in Procs, v \in Versions :
    (/\ op[p] = "reconcile" /\ pc[p] = "current" /\ at[p] = "load_list"
     /\ running[p] = v /\ StagedIsCurrent(v))
      ~> \/ pc[p] \in {"down", "uncached"} \/ ~StagedIsCurrent(v)
         \/ held[p] # Nothing /\ Top >= held[p].gen + Keep + 2

\* blob.rs, "grace makes that window unreachable": an entry that is committed
\* names a blob that is there.
CommittedBlobStored ==
  [][\A p \in Procs :
       (op[p] = "stage" /\ at[p] = "ready" /\ at'[p] = "won" /\ op'[p] = "stage"
          /\ pc'[p] = "fresh") => blobs[entry[p].version] # "none"]_vars
=============================================================================
