# Verification of tauri-updater-delta

TLA+ specifications of the delta updater in this repository, model-checked with
TLC and proved about with TLAPS: every safety and action property that a passing run
checks is also a theorem. File
references are to the repository, and `state.rs`, `mod.rs` and `blob.rs` are those of
`crates/delta-core/src/cache/`.

## The system

A Tauri application embeds the plugin. When Tauri's own updater has selected a
release, the plugin looks for a cheaper way to the same installer than
downloading it: a patch over the tar inside a cached `.app.tar.gz`, a direct
patch over a cached or seeded installer, or a compressed copy. Whatever it
obtains is held to the signature and the release identity before the installer
sees it. To have a base for the *next* update it keeps verified installers in a
cache, shared without locks by every process of the application.

| component | state | operations | interacts with | what makes it correct |
| --- | --- | --- | --- | --- |
| state store (`cache/state.rs`) | files `state.<generation>.json` | `load`, `initialise`, `compare_and_set`, `prune` | other processes, through the directory only | the head is only superseded; a commit that becomes the head was computed from the one it replaces; calls end |
| blob store (`cache/blob.rs`) | immutable files named by digest, their age | `put`, `get`, `retain` | collections in other processes | a served blob verifies now; what a state names is there |
| artifact cache (`cache/mod.rs`) | ACTIVE and PENDING entries | `current`, `reconcile`, `stage_pending`, `active`, `collect` | store, blobs, the plugin | ACTIVE was observed running; transitions are whole and not lost |
| application instance (`plugin/src/tauri_glue.rs`) | the version it runs, the version on disk | launch, update, install, quit or die | cache, flow | a failing cache costs a download, never an update |
| planning (`client.rs`) | one update's workspace and attempts | `plan_update`, `compressed_full_for`, `fetch_compressed_full` | manifest, cache, network | every delta failure falls back, every contradiction refuses |
| flow (`plugin/src/flow.rs`) | the artifact, what verified | `run_update_detailed` | planning, cache, installer | only the signed release is installed or staged |
| release identity, signature | none | `to_trusted_comment`, `parse_trusted_comment`, `check`, `verify_artifact`, `advisory_binding` | signer, checker, planning and flow | only the authenticated reading authorises; what is signed is what is read back |
| manifest | none | parsing, validation, the allow-lists | planning, release builder | a document has one meaning |
| codecs (`recompress.rs`, `backend/zstd.rs`, `reconstruct.rs`) | the tar, the place of a replay in it | `try_reconstruct`, `recompress`, bounded expansion and rebuild | planning | bounded work; the encoder is handed what the writer handed it (true only without long names); output gated by a digest |
| workspaces (`client.rs`) | `update-*` directories and their modification times | create, sweep, drop | concurrent updates, the file system's clock | a live one is not swept (not true of one whose download lasts a day) |
| HTTP transport (`plugin/src/http.rs`) | the chain of redirects, a `.part` file | one blocking request | flow, servers | it ends; it is bounded; no part of a file passes for the file; HTTPS is not left |
| release builder and checker (`delta-release`) | a release directory: the manifest, the patch files | one run per platform: build, merge, prove, write, verify | manifest, codecs, earlier runs | what it describes reconstructs; a run spoils nothing of the others |

What is hard here: no lock anywhere, so every read-modify-write is an
interleaving of directory accesses; a process may stop between any two of them;
files may be pruned, collected or damaged between a check and a use; the manifest
is unauthenticated; and a delta that fails must cost nothing but time. The
list `hazards` in `PROJECT.json` places each of these at its line.

## Modules

`StateStore` models the store. One action is one access to the directory: a
listing (`LoadList`, `InitList`, `PruneList`), a read (`LoadRead`), a link
(`InitPublish`, `CasWin`) or an unlink (`PruneRemove`); the actions
`InitConflict` and `CasConflict` are the same link finding its name taken. `files`
is the directory, `at` the place of each process in its call, `seen` the
generation its last listing gave it, `held` the `Versioned` it was handed.
`load` takes the highest generation and treats "gone", "unreadable" and
"unusable" alike. `StoreReturn` ends a call *and* models the death of the process
at any point. `Damage` makes a state unreadable in place, as a disk fault or a
newer build's format does. The content of a state is opaque here. A file is written
and synced under a private name before it is linked, so a generation is never
half-written; that sequence is one step.

`CacheEntries` holds what a state says (namespace, ACTIVE, PENDING) and what
staging, promoting and discarding make of it. A version stands for its artifact,
digest, size and tar facts included; the key its signature verifies under is
kept apart because a key may be rotated. Of the namespace only the key
fingerprint can differ between two builds on one machine.

`ArtifactCache` extends `StateStore` with the blobs and with the instances that
use the cache. `CasWin` and the other store actions are *the* store actions: every
cache action that touches the store conjoins one. `pc` and `op` follow
`current()`, `reconcile`, `stage_pending` and `active`; `rounds` counts the lost
compare-and-sets against `MAX_CAS_ATTEMPTS`. A blob is absent, young (below the
collection grace), old, or rotten. `CollectCheck` and `CollectUnlink` are
separate because `retain` reads an age and unlinks later; `Wipe` is the `retain`
with no age floor after a namespace reset. `Stage` stores the blob before
`current()` is called and leaves a blob that is there already alone, age
included. An instance launches as the version on disk and keeps running it
whatever is installed meanwhile; `Stop` may strike at any step when `"crash"` is
among the faults.

`AbstractCache` is the promise: one register, changed only by whole transitions
of the value in it. `ArtifactCache` implements it under `cache <- Current`, the
content of the highest generation.

`SelectedRelease` is what an update is given: a release (`doc`), its manifest and
signature included, and the host it meets (`host`), with the readings `manifest.rs` and
`release_identity.rs` offer of them: which entry is selected, whether a tar layer may be
used, what contradicts the signature. `Honest` is what the publisher promises.

`UpdateFlow` extends it with one update from planning to the installer. The manifest
(`doc`) and the host (`host`) are chosen at the start from sets the instance
gives; each gate of `client.rs` and `flow.rs` is a guard. A patch is a pair of
contents: applied to its own base it gives its result, applied to anything else it
gives nothing declared. Sizes are kept apart from contents because the manifest
declares both. `active()` may return nothing at any call, a fetch may fail or
give other bytes, the disk and the installer may fail, and `Tamper` lets another
process write to the workspace. `fetched`, `work` and `tampered` are
history variables, read by properties alone.

`Transport` is one blocking request per process: the scheme and redirect policy of
`http.rs`, the response, the loop of `stream_to`, and the rename. `chain` is what is
being asked for, `answer` what is being received; `part` and `out` are the two names on
disk. The server chooses the redirects, the body, how its end is known, where it is
cut, when, and whether anything comes at all. `Deadline` is `request_timeout` as
`reqwest::blocking` applies it: it bounds `send`, with all its redirects, and then each
`response.read` anew. `stalled` is the time the call under way has taken, `waited` that of
the request; `Heard` starts the former over.

`Workspaces` extends it with the `update-*` directories of several processes, each
working through one transaction after another, and with time: a directory is the age
of its modification time, which a file created, renamed or removed in it moves and a
write to one does not, so each step of a request is `Quietly` or `Visibly`.
`SweepLook` and `SweepRemove` are separate because the sweep reads an age and removes
later. `Stale` compares with the time the sweep began. A process keeps its directory
through `Use`, when the artifact is in memory, until `Drop`; a crash leaves it.
`Suspend` ages every directory without letting any timeout pass. No call of the code bounds
a request as a whole, so `Tick` lets one that is sent a little at a time go on for ever;
`Patience` is what the age limit leaves to each request, and `exempt` remembers the
directories of requests that took longer, and those that a suspension has aged.

`Recompression` is the macOS gzip layer: a tar is expanded under a ceiling (`Expand`),
rebuilt from the installed bundle (`Rebuild`) or made by a patch (`Patched`), and then
replayed. Because the encoder's output depends on the pieces it is handed, `pieces`
is the sequence of their lengths, `EntryPieces` what the writer (external: `tar` and
`io::copy`) hands it for an entry, and the replay's steps what `replay` hands it.
Headers say sizes, which may be false, and the file may end anywhere; where what is read
as a header is not one, it says anything. The writer is `tar` 0.4's `Builder`: it declares
the NUL of a long name in the header's size (`Declared`, from its `prepare_header`) and
writes name and NUL in two pieces. `Written`, `CopyNul` and `Padding` are what `replay`
makes of it: a byte *more* than is declared (see the disagreements).

`ReleaseIdentity` is the trusted comment: `Render` writes it, `Parse` is the parser that
signer, checker and clients share. A text is what it says, its length and the kinds of
characters in it; a space ends a word, so a value that contains one turns into a text and
further words, which is what makes a round trip worth checking. `ReleaseGates` holds what
the release tool and its checker both refuse at the start: URLs (`Publishable`) and a
version that is not the application's own (`InContract`).

`ReleaseBuild` is a release directory over several runs of `delta-release`, one after
another as `release.yml` makes them, with `release-check` after each. `manifest` and
`files` are what is on disk; the other variables are the locals of `build_release`
and `main`, which a run takes with it when it ends, wherever that is. `Begin` refuses
what the argument checks, the version contract, the URL policy and the signer refuse.
`MakeDirect` and `MakeTar` write a patch file, then prove it; `Fold` extends the manifest
that was found; `Attach` and `Trimmed` validate; `Write` replaces the manifest in place,
which is why `TornWrite` can leave one that does not parse. A patch is a pair of contents
as in `UpdateFlow`; one that rebuilds `Nil` is torn, or is what a broken backend makes.
A signature is the bytes it covers and the comment `Render` wrote. `accepted` remembers
for each platform what the checker has accepted and whether it was told to allow a
rehearsal's plain HTTP. `Valid` leaves out the rules of `Manifest::validate` that hold of
anything the tool writes (schema, digest syntax, sizes above zero). The key that signs is
the one clients are configured with: the tool never compares the two.

`ReleaseToClient` joins the two ends: it reads `ReleaseBuild`'s manifest as a
`SelectedRelease`, by an `INSTANCE` of it, with the binding that `Parse` makes of the comment.

The modules `MC...` give the constants their values. Definitions introduced as *mutants* are plausible bugs in the definition
that follows them and are used by no specification: a property is kept only
if a mutant violates it.

## Runs

| run | configuration | result |
| --- | --- | --- |
| `state_store` | 2 processes, 4 generations, 2 attempts, prune(1), I/O errors, damage, a missing, unreadable or readable first file | 5 properties hold |
| `cache_solo` | 1 instance, 2 versions, every fault, prune(3), 2 rounds | 2 properties hold |
| `cache_pair` | 2 instances, 3 versions, key rotated in the third, 4 generations, no fault | 4 properties hold, refinement included |
| `cache_live` | 2 instances, 2 versions, 2 rounds, weak fairness, empty or unusable store | 2 liveness properties hold |
| `update_flow` | about 180 releases, 12 hosts, every fault | 8 properties hold |
| `release_build` | 3 runs out of 23 command lines, 2 platforms, 3 versions, every fault | 6 properties hold |
| `workspaces` | 2 processes, 1 of them downloading, 3 names, time, every fault, 4 kinds of body | 7 properties hold, 1 of them liveness |
| `recompress` | every archive of up to 2 entries, from 3 sources, whole, cut or false | 6 properties hold, 1 of them liveness |
| `release_rebuilt` | 2 runs, no fault | violated, see below |
| `initialise_race` | 2 processes, empty store | violated |
| `dedup_grace` | 2 instances, prune(3), stagings within the grace | violated |
| `redirect_budget` | 1 process, a budget of one | violated |

`state_store`: `CurrentOnlySuperseded` is why `hard_link` and not `rename` is used,
and why pruning from an old listing is harmless to the head. `HeadCommitReadHead`
is the compare-and-set's promise where it matters: a commit that becomes current
replaced what it read. `HeldIsCurrentOrPast` says a reader is never ahead of the
directory. `ConflictsArePaidFor` justifies `INITIALISE_ATTEMPTS`: giving up after
eight conflicts means the store moved eight times during the call.

`cache_solo` looks for what one process can do to itself by dying anywhere: no
order of put, commit, install, collect and prune leaves the current state naming
a blob that is not there (`LiveBlobsStored`), and no failed or foreign install
makes an artifact ACTIVE that was not seen running (`ActiveWasRunning`).

`cache_pair` checks the same of two interleaved instances, and that only bases
that verify under the reader's own key are served (`ServedIsSound`) even when an
entry sits in another key's namespace. `RegisterSpec` is the refinement: whatever
the interleaving, the current state moves by whole transitions of its own value.
It admits a reset at any time, because a pruned read or a lost initialise race
really empties the cache.

`cache_live`: every operation returns (`OperationsReturn`), and the launch of a
staged version settles it (`StagedLaunchSettles`). The exception in the latter, the
store having moved more than `Keep + 1` generations since the instance read it,
is a stale commit (below): a promotion that reports success and is not the current
state.

`update_flow`: `InstalledIsRelease` is the safety of the whole: what is
staged or installed is what the key signed, for a newer version, with an identity
naming these very bytes, whatever manifest, cache, network and workspace hold.
`DeltaNeverFatal`: an honest release fails only where the plain download would, or when the
disk gives the update no directory, or when somebody else writes into it.
`NoSecondAttempt`: no verdict on an artifact makes the update try another.
`PatchOverItsBase`, `NoRelabelling`, `WorkBounded` and `OutcomeNamesPath` are
the economies and honesty the code's comments promise.

`release_build`: what a run was asked for is proven, described as it is and on disk,
whatever the directory held before (`AskedPathsWork`); a run that asks for tar paths
never leaves those of another build (`TarLayerIsTarget`); a platform that was accepted
stays acceptable through the runs for the others (`AcceptedStays`), which is what
`release.yml:589-592` checks again for fear of the merge. `RefusedOnlyInherited` states
the ways in which the tool writes what its own checker refuses, and there are no others:
an installer that is no tarball, for a version that had a tar layer, without asking for
one; and a loopback URL that an earlier run was allowed, kept by a run that is not. Among
the command lines it covers are an `--app-id` with a space in it, which would be read back
as further fields, a `--target-version v2`, which is within the version contract and is no
version, and a version so long that no reader would accept the comment: each is refused
before anything is written, because what the signer wrote is parsed before it is signed.
`PublishedIsHonest` joins the tool to the client: what the checker accepted satisfies
`Honest`, the hypothesis of `DeltaNeverFatal`, so that theorem speaks of every update
from a release that went through the checker.

`workspaces`: `LiveIsKept` is the one that time makes hard. A sweep looks at one
directory after another while others create, fill and drop theirs, and what it sees is a
modification time that a long write does not move. The code gives no reason why that write
should be short: a server, or a slow line, that brings something before each timeout keeps a
request going for longer than a day, and its directory is then swept.
What `LiveIsKept` says is that this and a suspended machine are the only ways: as long as
each request takes at most `Patience`, and `WorkspaceAssumption` has all the requests of a
transaction fit into the age limit with that, no interleaving of sweeps, faults and crashes
costs a live directory. `FetchedIsWhole` says when the file that the flow reads may be
shorter than what was sent (only if the server does not say how much it sends, which the
comment at `http.rs:377-379` leaves out), `DiskBounded` what a server that sends too
much can cost, `HttpsIsKept` that no chain of redirects leaves HTTPS, `ProgressIsTrue`
that what the page is told never runs ahead of the file nor stops short of it. `FetchEnds`
is the only liveness here, and of a server nothing is assumed: silence ends a request by the
timeout of its `send` or `read`, and what comes a little at a time ends with the body or at
the size ceiling. By when is another matter (see below).

`recompress`: `ReplayedAsWritten` is the reason for the module's existence, that the replay
hands the encoder what the archive's writer did, piece by piece, or stops before; of
archives without long names, for with them it does not.
`IntactIsReplayed` says that it stops for none that a writer made and reads each entry by
entry to its end: also those with long names, whose pieces it mistakes, because the byte it
adds is one of the padding; where there is no padding it loses its way.
The ceilings hold on the way
(`TarBounded`), a refusal leaves nothing behind (`TarWholeOrGone`), and no false size makes
the replay go round (`ReplayEnds`). What a failed replay has written of its output stays in
the workspace until that is dropped.

### Disagreements between the code and its documentation

Each is a run expected to end in a violation and an entry of `findings`.

1. `initialise_race`. `initialise` lists twice. A process whose first listing was
   empty and whose second is not publishes an empty state above the transition
   committed in between. `state.rs:22-29` rules lost updates out.
2. `dedup_grace`. A deduplicated `put` does not renew the blob's age, so the
   collection grace does not cover the entry about to name it. `blob.rs:264` calls the
   window unreachable.
3. `release_rebuilt`. A version built again keeps, for predecessors and forms the run
   does not name, the paths to the earlier bytes, and the checker accepts it.
   `manifest.rs:102-103` says every entry reconstructs the current release.
4. `redirect_budget`. `max_redirects` counts the first URL: one redirect fewer is followed
   than `http.rs:172` and the error text say, and none with a budget of one.

None of them lets anything unverified be installed: each costs a cache miss or a
failed delta, that is a full download (`ServedIsSound` and `InstalledIsRelease` hold
throughout).

More were found while modelling and have no run of their own. The second,
third and fourth are exceptions that a property of a passing run names; with the exception
taken out of the property TLC shows each in a short trace:

- `request_timeout` bounds `send` and then each read, not the request (`http.rs:206`, `426`):
  a body of which something arrives before each timeout goes on for as long as the ceiling on
  its size lets it. `http.rs:24`, `43`, `166` and `204` say it bounds the whole, headers to
  last byte. (`FetchEnds` claims no time.)
- A download that lasts a day has its directory removed by another update's sweep, and fails
  when its file is renamed; the next update begins again. `client.rs:344-345` says a
  transaction that is still writing keeps touching its directory, but a write to a file does
  not. (`exempt` in `LiveIsKept`.)
- `replay` counts the NUL of a long name once more than the writer, which has declared it
  (`recompress.rs:359`): name and NUL become one piece, and a byte of the padding a piece of
  its own, so the digest differs and the update falls back. `recompress.rs:351-354` says the
  NUL is beyond what is declared and that reproducing the split matters, and adds that this is
  "inferred from source rather than measured". (Long names in `ReplayedAsWritten`.)
- When the declared size of a long name is a multiple of 512 the byte too many belongs to the
  next header (`recompress.rs:380-398`): the walk is off from there on, and an archive its
  writer made is refused or replayed with an entry passed over. `recompress.rs:317` says it
  is re-emitted with the writer's boundaries. (`NamesArePadded` in `IntactIsReplayed`.)
- `prune` frees generation names, so a `compare_and_set` from a generation that is far
  enough behind succeeds below the head and is never read (`state.rs:365`); `state.rs:358`
  says a stale value is refused. `HeadCommitReadHead` and `StagedLaunchSettles` are stated
  so that they say what still holds.
- After a lost reset `current()` takes what it re-reads without comparing the namespace
  again (`mod.rs:251`); `state.rs:72-77` says a foreign state is treated as empty.
  `ServedIsSound` holds all the same, because a blob is verified when it is read.
- Two updates without a restart between them leave ACTIVE at a version that is not running
  after a discard (`mod.rs:287`); `mod.rs:283-286` says it describes what is running.
- A `load` whose file is pruned before it is read reports no state, and `initialise`
  then empties a healthy cache (`state.rs:343`).
- The wipe after a namespace reset has no age floor and may delete a blob being staged
  (`mod.rs:241`).
- A patch of an optional tar layer that fails its round trip stays in the release directory
  (`tar_layer.rs:142`), which `main.rs:326-329` calls dangerous and avoids for direct
  patches.
- `--compressed-full-out` and its URL are not compared with those of the patches
  (`delta-release/src/lib.rs:226-285` and `541-549`), so the copy may overwrite a patch
  that is already described.
- A body that ends with its connection may be cut short and pass for whole
  (`http.rs:377-379` says it cannot); every digest and signature gate is still ahead of it.

### Bounds

`MaxGen` bounds the generation numbers; a publication beyond it fails like any other
failed write. Four generations with `Keep = 1` already let a
reader fall two prunes behind; the violations that need more run with the code's
own `Keep = 3`, `Attempts = 8` and `MaxCas = 64`. In the passing runs the two
retry limits are 1 or 2, so that both exhausting them and going round again
happen within the generations there are; nothing in the code depends on their
value. Two processes suffice for every pairwise race; the store has no step that
involves three, and the proofs of store and cache are for any number. Three versions are what
a rotation needs: one before, one staged across, one after. Faults that
strike at any step multiply the states, so the two-instance runs leave them out
and `cache_solo` and `state_store` have them all, but that a prune which cannot list or
unlink is in the former alone (the proofs have it in both): what two instances do to each
other under faults is model-checked at the level of the store only; that nothing of it loses a transition or
makes ACTIVE what never ran is proved. The releases of
`update_flow` take every tar layer with every direct patch and every usual
signature, and depart from the honest release one field at a time elsewhere.
Three runs of the release tool are what the merge needs: two platforms, or a
build and a rebuild, and one more between or after them. Its 23 command lines cover an
installer of each kind (a tarball the recipe reproduces or not, one above the tar limit,
none at all, a rebuild with another tar), zero to two predecessors, each option, and ten
that are wrong: in the application or its version, in a value that is no word, in a URL.

In `workspaces` the timeout of a call and the `Patience` with a request are one unit of time
each and a workspace is abandoned after three, with two requests to a transaction: the
smallest numbers that satisfy `WorkspaceAssumption`. Requests longer than that happen in the
run, since a body may take a unit for each of its bytes; in the code 24 hours
leave far more than 30 minutes to each request, which is why `Patience` is a constant of its own. One process downloads and two
sweep, create and drop; one directory may be left behind at a time, and three names are
enough for two live ones and that. A budget of two is the first that lets a chain move at
all (see the disagreements). In `recompress` a block is three bytes and a chunk four, so sizes from
zero to five fall on and off each boundary, and names are padded by none, one or two bytes; the two ceilings are one that whole archives
exceed and one that none does.

### Fairness

`FairCacheSpec` assumes weak fairness of `Work(p)`: a thread that is inside a cache
operation is eventually scheduled, which is what `spawn_blocking` on a running
process gives. `FairWorkspacesSpec` assumes it of each process's own steps, of a request
only once the timeout of its call has come or its body is complete (reqwest's timer and the
client's own rename, neither of which needs the server), and that time passes: strongly, because a
process at work on something may hold it up again and again in the model, and
`FetchEnds` has as its premise that the other processes do not do so for ever.
`RecompressionSpec` assumes that the one thread goes on. Nothing makes a user launch, update or quit, and no I/O fault
is required or forbidden by fairness. Deadlock is checked in every run but
`update_flow` and `recompress`, which end when their one update or replay has, and those of
the release tool, which end after `MaxRuns` runs.

## Proofs

`StateStoreProofs` proves, for any set of processes, any number of generations and
attempts, any `Keep` of at least one and with every fault:

| theorem | statement |
| --- | --- |
| `StoreTypeCorrect` | `StoreSpec => []StoreTypeOK` |
| `StoreHeld` | `StoreSpec => []HeldIsCurrentOrPast` |
| `StorePaid` | `StoreSpec => []ConflictsArePaidFor` |
| `HeadIsNeverRemoved` | `StoreSpec => CurrentOnlySuperseded` |
| `HeadCommits` | `StoreSpec => HeadCommitReadHead` |

They assume what `StateStore` assumes of its constants (`GenAssumption`,
`KeepAssumption`, `ContentAssumption`, `NothingAssumption`), all of which TLC
evaluates on every run.

The properties are not inductive: nothing in them says what a prune under way may
still unlink, or that what a process holds was once the content of its
generation. `StoreInv` adds, for each process, that every generation its prune is
about to remove is below some generation present (`DoomedInv`), that what it holds
is the content of its generation unless something is above it (`HeldInv`), and
what each place of a call knows (`CallInv`, `PaidInv`). The argument is about the
directory: a step leaves it alone, links a free name, damages a file, or
unlinks one that is superseded, or fails to (`StepsOfDirectory`), and each of these keeps every
superseded generation superseded and every held state held (`HeadMovesUp`), and
moves `Top` up (`TopMovesUp`). So the parts of the invariant that concern the processes
that did not move follow once and for all (`OthersUntouched`), and each action has
only its own process to answer for. `Max` is the community modules' `CHOOSE`
definition; `MaxOfGens` shows it exists by well-foundedness.

`UpdateFlowProofs` proves, for any releases and manifests, hosts, contents, sizes
and ceilings and with every fault, every property of the `update_flow` run:

| theorem | statement |
| --- | --- |
| `FlowTypeCorrect` | `FlowSpec => []FlowTypeOK` |
| `InstalledOnlyRelease` | `FlowSpec => []InstalledIsRelease` |
| `DeltaIsNeverFatal` | `FlowSpec => []DeltaNeverFatal` |
| `PatchesOverTheirBase` | `FlowSpec => []PatchOverItsBase` |
| `NothingRelabelled` | `FlowSpec => []NoRelabelling` |
| `WorkIsBounded` | `FlowSpec => []WorkBounded` |
| `OneArtifact` | `FlowSpec => NoSecondAttempt` |
| `OutcomeIsItsPath` | `FlowSpec => []OutcomeNamesPath` |

They assume `DataAssumption` (contents are of two kinds, each with a length, and an
installer holds a tar), `MarkerAssumption` (the markers for "nothing" are not data)
and `WorldAssumption` (releases and hosts are records of the declared shapes).

The properties say where an update may end, not what it learned on the way, so none
of the deep ones is inductive. `FlowInv` adds, for each place, which gates were
passed to reach it: an accepted plan (`KnowsRelease`), a usable manifest, a signed
identity and the size ceilings on the delta paths (`KnowsDelta`), what a named source
implies (`KnowsSource`), what the workspace holds until somebody else writes to it
(`KnowsDisk`), and which checks verified bytes went through (`KnowsVerified`). The
release and the host never change, so nothing computed from them does (`Fixed`), and
an action accounts only for the place it moves to. For instance, `NothingRelabelled`
holds because a tar attempt needs a signature for a tar, every base the direct path
finds by itself needs one for an opaque artifact, and the signature is the same.
`FetchInv` does the same for the order of downloads.

`ArtifactCacheProofs` proves, for any number of instances, versions and generations:

| theorem | statement |
| --- | --- |
| `CacheTypeCorrect` | `CacheSpec => []CacheTypeOK` |
| `OnlyWhatRanIsActive` | `CacheSpec => []ActiveWasRunning` |
| `ServedBaseIsSound` | `CacheSpec => []ServedIsSound` |
| `CacheImplementsStore` | `CacheSpec => StoreSpec` |
| `CacheHoldsCurrent` | `CacheSpec => []HeldIsCurrentOrPast` |
| `CacheLosesNothing` | `CacheSpec => CurrentOnlySuperseded /\ HeadCommitReadHead` |
| `CacheIsRegister` | `CacheSpec => RegisterSpec`, if the disk damages no file |

They assume what the store assumes, `VersionAssumption`, `StatesAreCacheStates` and
`EntryAssumption`. `CacheInv` is `StoreInv` with
what the cache adds: every state on disk and in hand has an ACTIVE that ran (`FilesRan`,
`HeldRan`), and each instance's place in its operation says what the entry in its
hands is (`OwnInv`). Every step of an instance is a step of the store or none, and what
it publishes is empty or a transition of the very state it holds (`StepOfStore`); so the
cache implements the store, and the store's theorems are the cache's. For the register
the invariant is sharper: what is held at the head *is* the current state (`ExactInv`),
which a damaged file breaks, since the code then starts over from an empty state. That is
why that theorem, and the `cache_pair` run, leave the damage out.

`SoloCacheProofs` proves `OneInstanceKeepsItsBlobs`, `CacheSpec => []LiveBlobsStored`, if
there is one process (`Alone`), with every fault. One instance holds the head or publishes
it (`HeadInv`), its collection spares what the head names (`SpareInv`), and its
namespace stays its own once it was reconciled (`OwnSpace`). With two instances the property is
false: `dedup_grace` is how.

`WorkspacesProofs` proves, for any number of processes and names and any time limits:

| theorem | statement |
| --- | --- |
| `WorkspacesTypeCorrect` | `WorkspacesSpec => []WorkspacesTypeOK` |
| `LiveDirectoryIsKept` | `WorkspacesSpec => []LiveIsKept` |
| `FetchedFileIsWhole` | `WorkspacesSpec => []FetchedIsWhole` |
| `DiskIsBounded` | `WorkspacesSpec => []DiskBounded` |
| `HttpsStays` | `WorkspacesSpec => []HttpsIsKept` |
| `ProgressStaysTrue` | `WorkspacesSpec => []ProgressIsTrue` |

They assume `TransportAssumption` and `WorkspaceAssumption`. The latter's inequality only
says what `Patience` is, a time that each request of a transaction may take within the age of
an abandoned directory: it is no claim about servers, as a request that takes longer is a
step of the model and its directory is in `exempt`. `SpaceInv` says of each process how old its directory can be at
its place (`Allowance`), that no two have the same (`Separate`), that what a sweep has
condemned belongs to none (`Condemned`), and what a request knows of its file
(`TransferInv`). Only one process moves in a step; the others are bystanders.

`ReleaseBuildProofs` proves, for any platforms, versions, predecessors and command lines,
any number of runs and with every fault:

| theorem | statement |
| --- | --- |
| `ReleaseTypeCorrect` | `ReleaseSpec => []ReleaseTypeOK` |
| `TarLayerOfThisBuild` | `ReleaseSpec => []TarLayerIsTarget` |
| `WhatIsAskedWorks` | `ReleaseSpec => []AskedPathsWork` |
| `AcceptedStaysAccepted` | `ReleaseSpec => []AcceptedStays` |
| `WhatIsWrittenIsAccepted` | `ReleaseSpec => []RefusedOnlyInherited` |

They assume `ReleaseAssumption`, `MarkerAssumption` and `TextAssumption` (the version and
the platform that a request states, if they are read back, are those it releases). `ReleaseInv` says
what a run has shown at each place: the direct patches made so far were applied and are
on disk (`KnowsDirect`, `KnowsEntry`), every tar layer anywhere is of sound patches and the
one in hand is of this tar once one patch was proven (`KnowsLayer`), and the draft says of the
other platforms what the manifest does (`KnowsOthers`). A layer taken over from an earlier
run is why soundness of *every* layer is part of the invariant. `UrlInv` adds that every
URL in the directory passed the policy of some run.

The same module proves two facts of the identity in a trusted comment (`ReleaseIdentity`),
for any texts and any number of words after a space:

| theorem | statement |
| --- | --- |
| `ReadIsWhatWasWritten` | what `Render` makes of an identity, if `Parse` reads it, is that identity |
| `OneSpelling` | what `Parse` reads as an identity is what `Render` makes of it, word for word |

The first is why a value with spaces, which could spell the fields after it, is never read
as another release: the words are counted, and one too many is an error. The second is the
"one spelling" of `release_identity.rs:322` and more than its test `must_be_total` asks for
(which only compares what was rendered with itself). It takes of the texts only that digits
with no zero in front are the decimal of their number (`AsDigits`).

`ReleaseToClientProofs` proves, for the same and any digests:

| theorem | statement |
| --- | --- |
| `WhatIsAcceptedIsHonest` | `ReleaseSpec => []PublishedIsHonest` |

It adds `ClientAssumption`: the digest of a content is written as a text that says which
content it is of, and the markers of an unbound or malformed signature are no identities.
Nothing new is inductive here. What the checker accepted meets every gate of a client
because both read one document: the proof takes `ReleaseInv` and shows, field by field,
that the entry, the layer and the copy a client selects are those the checker went
through, and that the binding it reads is the one the signer rendered. So the premise of
`DeltaIsNeverFatal`, an honest release, is a conclusion about the tool.

`RecompressionProofs` proves, for archives of any number of entries of any size, any block,
chunk, trailer and ceiling, and anything that a false header may say:

| theorem | statement |
| --- | --- |
| `RecompressionTyped` | `RecompressionSpec => []RecompressionTypeOK` |
| `ExpansionBounded` | `RecompressionSpec => []TarBounded` |
| `NoPartOfATar` | `RecompressionSpec => []TarWholeOrGone` |
| `WriterIsNeverRefused` | `RecompressionSpec => []IntactIsReplayed` |
| `ReplayIsTheWriters` | `RecompressionSpec => []ReplayedAsWritten` |

They assume `RecompressionAssumption` (a trailer is whole blocks), `ZerosAssumption` (an
empty block is no header) and `CasesAssumption` (a header for each entry; what is rebuilt
from a bundle is what a writer makes of it). `ReplayIsTheWriters` is about archives without
long names and `WriterIsNeverRefused` about those whose long names are padded; TLC refutes
either without its premise.

Most of the work is what the operators compute: `Total`, `Chunks` and `FlattenSeq` are
recursive functions, and an induction theorem over an operator cannot be instantiated.
`NatInSet` replaces it: a set of numbers that holds zero and is handed on is all of them,
by its smallest missing number. From it follow that a function may be defined step by step
(`StepsExist`), that two which start and go on alike are the same (`StepsAlike`), and so
that the recursive functions exist and satisfy their equations (`TotalBySums`,
`FlattenByJoins`). Then the chunks of a payload are its bytes (`ChunksTotal`), the pieces
of an entry span it (`EntryPiecesType`), those of the first entries end where the next one
starts (`FlatTotal`), and they are never all (`FlatLeads`).

The invariant `RInv` has two halves. `Core` says where a tar that is being obtained may end
(a rebuilt one between two of the writer's writes, `PartOf`), and that the replay has read
what its sizes account for (`Placed`). `ReplayOK` says of an archive whose headers are true
which pieces have been written and where in the tar that is: those of the first `k` entries
(`AtHeader`), those with the chunks still to come (`AtPayload`), or what the `k`-th holds
(`AtPadding`). It is stated for an archive as the replay reads it (`AsRead`): with a padded
long name (`Regular`) the replay sees a name one byte longer, which takes the same blocks
(`PadOfOneMore`, `ReadSpans`), so every entry is still found where it is; without long
names what is read is what was written. Entries start at different places (`StartOrder`), so the header read at
the start of an entry is its own (`SeesHonest`), and none is read behind the last. That
nothing a writer made is refused follows from `Room`: every entry, and a block behind it,
is within the file.

Only model-checked: liveness (`OperationsReturn`, `StagedLaunchSettles`, `FetchEnds`,
`ReplayEnds`), which is beyond the prover. The four violations are TLC's as well.

## Not modelled

JSON (a document parses or does not), minisign, BLAKE3, zstd, gzip and tar (data
transformations; what a gate makes of their output is modelled), that no two patches of a run
share a URL or an output (`delta-release/src/lib.rs:236-262`: the model names outputs by
their predecessor and takes URLs by kind, so it has no duplicates to refuse), the plugin's configuration
and Tauri commands, the syntax of arguments and key files, the example application and
the test fixtures. That abandoned workspaces are removed in the end is not checked: it needs a
longer clock than TLC can afford here, and nothing but disk space depends on it. `PROJECT.json`
lists each part with its reason.

## Plan

1. Two processes with crashes at the cache's level under TLC, if the state space can be
   made small enough: what the proofs leave to it is only liveness.
2. The plugin's configuration and its commands, should they come to keep state.
