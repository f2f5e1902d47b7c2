------------------------------ MODULE UpdateFlow ------------------------------
(***************************************************************************)
(* One update, from the release Tauri's check selected to an artifact      *)
(* handed to the installer: plan_update and what it calls                   *)
(* (crates/delta-core/src/client.rs), then run_update_detailed              *)
(* (crates/plugin/src/flow.rs).                                             *)
(*                                                                         *)
(* The manifest is unauthenticated: doc may be any member of Documents,     *)
(* honest or not.  Bytes served for a URL are whatever the network gives.   *)
(* Only the signature says which bytes the publisher signed, and as which   *)
(* release.                                                                *)
(***************************************************************************)
EXTENDS SelectedRelease, Sequences, SequencesExt, FiniteSets, FiniteSetsExt

CONSTANTS
  SizeOf,       \* the length of each of them
  TarOf,        \* the tar inside an installer
  MaxTarget, MaxTar,  \* Limits
  Documents,    \* the releases that may be selected, with their manifest
  Hosts,        \* what the host may hand to the flow
  Faults        \* "io", "net", "installer", "tamper"

ASSUME DataAssumption ==
  /\ Bytes \cap Tars = {} /\ Nil \notin Bytes \cup Tars
  /\ SizeOf \in [Bytes \cup Tars -> Nat]
  /\ TarOf \in [Bytes -> Tars]
  /\ MaxTarget \in Nat /\ MaxTar \in Nat
ASSUME MarkerAssumption ==
  /\ Nil \notin Declared(Bytes) \cup TarPatches \cup Patches \cup TarLayers \cup Copies \cup Entries
  /\ Legacy \notin Identities /\ Malformed \notin Identities /\ Legacy # Malformed
ASSUME WorldAssumption == Documents \subseteq Releases /\ Hosts \subseteq Contexts

VARIABLES
  pc,
  attempted,    \* Attempted
  base,         \* the base in the workspace
  disk,         \* the artifact in the workspace
  source,       \* how it was obtained
  fetched,      \* history: what was downloaded, in order
  work,         \* history: the largest output anything was let to produce
  tampered,     \* history: somebody else wrote to the workspace
  verified,     \* the VerifiedArtifact
  staged, installed,
  outcome

world == <<doc, host>>
vars == <<doc, host, pc, attempted, base, disk, source, fetched, work, tampered,
          verified, staged, installed, outcome>>

FlowTypeOK ==
  /\ doc \in Documents /\ host \in Hosts
  /\ pc \in {"plan", "tar", "tar_app", "tar_fetch", "tar_apply", "direct", "direct_fetch",
             "direct_apply", "full", "copy_fetch", "copy_apply", "full_fetch",
             "verify", "stage", "install", "done"}
  /\ attempted \subseteq {"tar", "direct"}
  /\ base \in Bytes \cup Tars \cup {Nil}
  /\ disk \in Bytes \cup {Nil}
  /\ source \in {"none", "tar-delta", "delta", "compressed-full", "full"}
  /\ fetched \in Seq({"tar_patch", "patch", "copy", "full"})
  /\ work \in Nat /\ tampered \in BOOLEAN
  /\ verified \in Bytes \cup {Nil}
  /\ staged \in Bytes \cup {Nil} /\ installed \in Bytes \cup {Nil}
  /\ outcome \in {"none", "installed", "up-to-date", "refused", "signature", "fetch",
                  "install", "workspace", "read"}

-----------------------------------------------------------------------------
(* Gates. *)

\* Bytes have the declared digest and the declared length.
Meets(bytes, declared) == bytes = declared.bytes /\ SizeOf[bytes] = declared.size

\* What a patch makes of a base.  Anything but its own base gives bytes that no
\* manifest declares, or no bytes at all.
Applied(file, old) == IF old = file.from THEN file.to ELSE Nil

\* try_reconstruct: Ok only when the output meets the declared target.
Reconstructs(file, old, target) ==
  Applied(file, old) # Nil /\ Meets(Applied(file, old), target)

Goto(step) == pc' = step
Finish(result) == Goto("done") /\ outcome' = result

\* A decoder or a rebuild is bounded by the size it was told to expect.
Decode(bound) == work' = Max({work, bound})

-----------------------------------------------------------------------------
(* plan_update, up to the first path *)

PlanRefused ==
  /\ pc = "plan"
  /\ Unacceptable
  /\ Finish("refused")
  /\ UNCHANGED <<world, attempted, base, disk, source, fetched, work, tampered, verified, staged, installed>>

PlanUpToDate ==
  /\ pc = "plan"
  /\ ~Unacceptable /\ doc.version = "same"
  /\ Finish("up-to-date")
  /\ UNCHANGED <<world, attempted, base, disk, source, fetched, work, tampered, verified, staged, installed>>

\* Nothing published, too large a target, or a signature without an identity:
\* the delta paths are not available.
DeltaAllowed == Offered /\ DeltaEntry.target.size <= MaxTarget /\ Binding # Legacy

PlanProceed ==
  /\ pc = "plan"
  /\ ~Unacceptable /\ doc.version = "newer"
  /\ Goto(IF DeltaAllowed THEN "tar" ELSE "full")
  /\ UNCHANGED <<world, attempted, base, disk, source, fetched, work, tampered, verified, staged, installed, outcome>>

-----------------------------------------------------------------------------
(* The tar layer *)

TarUnavailable ==
  /\ pc = "tar"
  /\ ~TarUsable
  /\ Goto("direct")
  /\ UNCHANGED <<world, attempted, base, disk, source, fetched, work, tampered, verified, staged, installed, outcome>>

TarRefused ==
  /\ pc = "tar"
  /\ TarUsable /\ ~SignedAs("tar")
  /\ Finish("refused")
  /\ UNCHANGED <<world, attempted, base, disk, source, fetched, work, tampered, verified, staged, installed>>

\* attempt_tar_delta up to tar_base_from_cache.  active() returns its entry, or
\* nothing: nothing cached, a store that failed, bytes that no longer verify.
TarFromCache(got) ==
  /\ pc = "tar"
  /\ TarUsable /\ SignedAs("tar")
  /\ attempted' = attempted \cup {"tar"}
  /\ IF Layer.target.size > MaxTar \/ TarPatch.tar.size > MaxTar
     THEN Goto("direct") /\ UNCHANGED <<base, work>>
     ELSE IF host.cache /\ got # Nil /\ Meets(got, TarPatch.installer)
               /\ host.repr = "tar" /\ Meets(TarOf[got], TarPatch.tar)
          THEN Goto("tar_fetch") /\ base' = TarOf[got] /\ Decode(TarPatch.tar.size)
          ELSE Goto("tar_app") /\ UNCHANGED <<base, work>>
  /\ UNCHANGED <<world, disk, source, fetched, tampered, verified, staged, installed, outcome>>

\* tar_base_from_installed_app: the rebuilt tar and the installer it compresses
\* to must both be the base's.
TarFromApp ==
  /\ pc = "tar_app"
  /\ IF /\ host.app # Nil
        /\ Meets(host.app, TarPatch.tar)
        /\ Meets(host.recipe[host.app], TarPatch.installer)
     THEN Goto("tar_fetch") /\ base' = host.app
     ELSE Goto("direct") /\ UNCHANGED base
  /\ IF host.app = Nil THEN UNCHANGED work ELSE Decode(TarPatch.tar.size)
  /\ UNCHANGED <<world, attempted, disk, source, fetched, tampered, verified, staged, installed, outcome>>

\* A fetch gives the declared file, or fails, or gives bytes of another digest.
\* The three ways a delta path falls through have the same successor.
TarFetch(served) ==
  /\ pc = "tar_fetch"
  /\ fetched' = Append(fetched, "tar_patch")
  /\ Goto(IF served THEN "tar_apply" ELSE "direct")
  /\ UNCHANGED <<world, attempted, base, disk, source, work, tampered, verified, staged, installed, outcome>>

\* Mutant of TarApply: the tar is handed on as if it were the installer.
TarApplyUncompressed ==
  /\ pc = "tar_apply"
  /\ Decode(Layer.target.size)
  /\ IF Reconstructs(TarPatch.file, base, Layer.target)
     THEN disk' = Layer.target.bytes /\ source' = "tar-delta" /\ Goto("verify")
     ELSE Goto("direct") /\ UNCHANGED <<disk, source>>
  /\ UNCHANGED <<world, attempted, base, fetched, tampered, verified, staged, installed, outcome>>

\* Patch the tar, recompress it, compare with the published installer.
TarApply ==
  /\ pc = "tar_apply"
  /\ Decode(Layer.target.size)
  /\ IF /\ Reconstructs(TarPatch.file, base, Layer.target)
        /\ Meets(host.recipe[Layer.target.bytes], DeltaEntry.target)
     THEN /\ disk' = host.recipe[Layer.target.bytes]
          /\ source' = "tar-delta"
          /\ Goto("verify")
     ELSE Goto("direct") /\ UNCHANGED <<disk, source>>
  /\ UNCHANGED <<world, attempted, base, fetched, tampered, verified, staged, installed, outcome>>

-----------------------------------------------------------------------------
(* The direct patch *)

Patch == DeltaEntry.patch

DirectUnavailable ==
  /\ pc = "direct"
  /\ Patch = Nil
  /\ Goto("full")
  /\ UNCHANGED <<world, attempted, base, disk, source, fetched, work, tampered, verified, staged, installed, outcome>>

\* cached_direct_base and seeded_direct_base: only for an opaque artifact, and
\* only the base the patch declares.
CachedBase(got) ==
  /\ host.cache /\ host.repr = "opaque"
  /\ SignedAs("opaque")
  /\ Patch.base # Nil /\ got # Nil /\ Meets(got, Patch.base)

\* Mutants of SeededBase: not compared with what the patch declares; whatever
\* the signed representation is.
SeededBaseUnmatched ==
  /\ host.seed # Nil
  /\ host.cache => host.repr = "opaque"
  /\ SignedAs("opaque")
  /\ Patch.base # Nil

SeededBaseOfAnyKind ==
  /\ host.seed # Nil
  /\ host.cache => host.repr = "opaque"
  /\ Patch.base # Nil /\ Meets(host.seed, Patch.base)

SeededBase ==
  /\ host.seed # Nil
  /\ host.cache => host.repr = "opaque"
  /\ SignedAs("opaque")
  /\ Patch.base # Nil /\ Meets(host.seed, Patch.base)

DirectFrom(file) == Goto("direct_fetch") /\ base' = file

DirectBase(got) ==
  /\ pc = "direct"
  /\ Patch # Nil
  /\ attempted' = attempted \cup {"direct"}
  /\ \/ host.base # Nil /\ DirectFrom(host.base)
     \/ host.base = Nil /\ CachedBase(got) /\ DirectFrom(got)
     \/ host.base = Nil /\ ~CachedBase(got) /\ SeededBase /\ DirectFrom(host.seed)
     \/ host.base = Nil /\ ~CachedBase(got) /\ ~SeededBase /\ Goto("full") /\ UNCHANGED base
  /\ UNCHANGED <<world, disk, source, fetched, work, tampered, verified, staged, installed, outcome>>

DirectFetch(served) ==
  /\ pc = "direct_fetch"
  /\ fetched' = Append(fetched, "patch")
  /\ Goto(IF served THEN "direct_apply" ELSE "full")
  /\ UNCHANGED <<world, attempted, base, disk, source, work, tampered, verified, staged, installed, outcome>>

DirectApply ==
  /\ pc = "direct_apply"
  /\ Decode(DeltaEntry.target.size)
  /\ IF Reconstructs(Patch.file, base, DeltaEntry.target)
     THEN disk' = DeltaEntry.target.bytes /\ source' = "delta" /\ Goto("verify")
     ELSE Goto("full") /\ UNCHANGED <<disk, source>>
  /\ UNCHANGED <<world, attempted, base, fetched, tampered, verified, staged, installed, outcome>>

-----------------------------------------------------------------------------
(* UpdateSource::Full *)

\* The work directory cannot be made, before the plan or for a path of it: a
\* delta path is given up, the rest is an error.
NoWorkspace ==
  /\ "io" \in Faults
  /\ \/ /\ pc = "tar" /\ TarUsable /\ SignedAs("tar")
        /\ attempted' = attempted \cup {"tar"}
        /\ Goto("direct") /\ UNCHANGED outcome
     \/ /\ pc = "direct" /\ Patch # Nil
        /\ attempted' = attempted \cup {"direct"}
        /\ Goto("full") /\ UNCHANGED outcome
     \/ pc \in {"plan", "full"} /\ Finish("workspace") /\ UNCHANGED attempted
  /\ UNCHANGED <<world, base, disk, source, fetched, work, tampered, verified, staged, installed>>

\* compressed_full_for, then the checks fetch_compressed_full makes first.  The
\* host's version and the binding play no part.
Copy == DeltaEntry.copy

\* Mutant of CopyUsable: the ceiling was checked at planning already.
CopyUsableUnlimited ==
  /\ Offered /\ ~Mismatched /\ Copy # Nil
  /\ Copy.size < DeltaEntry.target.size

CopyUsable ==
  /\ Offered /\ ~Mismatched /\ Copy # Nil
  /\ DeltaEntry.target.size <= MaxTarget
  /\ Copy.size < DeltaEntry.target.size

FullWorkspace ==
  /\ pc = "full"
  /\ Goto(IF CopyUsable THEN "copy_fetch" ELSE "full_fetch")
  /\ UNCHANGED <<world, attempted, base, disk, source, fetched, work, tampered, verified, staged, installed, outcome>>

CopyFetch(served) ==
  /\ pc = "copy_fetch"
  /\ fetched' = Append(fetched, "copy")
  /\ Goto(IF served THEN "copy_apply" ELSE "full_fetch")
  /\ UNCHANGED <<world, attempted, base, disk, source, work, tampered, verified, staged, installed, outcome>>

\* Mutant of CopyApply: a copy that does not rebuild the installer is an error.
CopyApplyOrFail ==
  /\ pc = "copy_apply"
  /\ Decode(DeltaEntry.target.size)
  /\ IF Copy.file.from = Nil /\ Meets(Copy.file.to, DeltaEntry.target)
     THEN disk' = Copy.file.to /\ source' = "compressed-full" /\ Goto("verify") /\ UNCHANGED outcome
     ELSE Finish("fetch") /\ UNCHANGED <<disk, source>>
  /\ UNCHANGED <<world, attempted, base, fetched, tampered, verified, staged, installed>>

\* A compressed copy is a patch against an empty base.
CopyApply ==
  /\ pc = "copy_apply"
  /\ Decode(DeltaEntry.target.size)
  /\ IF Copy.file.from = Nil /\ Meets(Copy.file.to, DeltaEntry.target)
     THEN disk' = Copy.file.to /\ source' = "compressed-full" /\ Goto("verify")
     ELSE Goto("full_fetch") /\ UNCHANGED <<disk, source>>
  /\ UNCHANGED <<world, attempted, base, fetched, tampered, verified, staged, installed, outcome>>

\* Mutant of FullFetch: the path is named after what the release published.
FullFetchAsPublished(bytes) ==
  /\ pc = "full_fetch"
  /\ fetched' = Append(fetched, "full")
  /\ disk' = bytes /\ source' = (IF CopyUsable THEN "compressed-full" ELSE "full")
  /\ Goto("verify")
  /\ UNCHANGED <<world, attempted, base, work, tampered, verified, staged, installed, outcome>>

\* The full download is checked by nothing but the signature.
FullFetch(bytes) ==
  /\ pc = "full_fetch"
  /\ fetched' = Append(fetched, "full")
  /\ disk' = bytes /\ source' = "full"
  /\ Goto("verify")
  /\ UNCHANGED <<world, attempted, base, work, tampered, verified, staged, installed, outcome>>

FullFetchFails ==
  /\ "net" \in Faults
  /\ pc = "full_fetch"
  /\ fetched' = Append(fetched, "full")
  /\ Finish("fetch")
  /\ UNCHANGED <<world, attempted, base, disk, source, work, tampered, verified, staged, installed>>

-----------------------------------------------------------------------------
(* From an artifact in the workspace to the installer *)

\* Mutant of Verify: a rebuilt artifact that fails its signature falls back.
VerifyOrFallBack ==
  /\ pc = "verify"
  /\ \/ disk # Nil /\ disk # doc.sig.over /\ source # "full" /\ Goto("full")
        /\ UNCHANGED <<verified, outcome>>
     \/ disk # Nil /\ disk = doc.sig.over /\ ~Contradicted(disk)
        /\ verified' = disk /\ Goto("stage") /\ UNCHANGED outcome
  /\ UNCHANGED <<world, attempted, base, disk, source, fetched, work, tampered, staged, installed>>

\* The file is read once; what was read is what is checked, staged, installed.
Verify ==
  /\ pc = "verify"
  /\ \/ disk = Nil /\ Finish("read") /\ UNCHANGED verified
     \/ disk # Nil /\ disk # doc.sig.over /\ Finish("signature") /\ UNCHANGED verified
     \/ /\ disk # Nil /\ disk = doc.sig.over /\ Contradicted(disk)
        /\ Finish("refused") /\ UNCHANGED verified
     \/ /\ disk # Nil /\ disk = doc.sig.over /\ ~Contradicted(disk)
        /\ verified' = disk /\ Goto("stage") /\ UNCHANGED outcome
  /\ UNCHANGED <<world, attempted, base, disk, source, fetched, work, tampered, staged, installed>>

\* A staging that fails is reported and otherwise ignored.
Stage ==
  /\ pc = "stage"
  /\ staged' \in (IF host.cache THEN {verified, Nil} ELSE {Nil})
  /\ Goto("install")
  /\ UNCHANGED <<world, attempted, base, disk, source, fetched, work, tampered, verified, installed, outcome>>

Install ==
  /\ pc = "install"
  /\ \/ installed' = verified /\ Finish("installed")
     \/ "installer" \in Faults /\ UNCHANGED installed /\ Finish("install")
  /\ UNCHANGED <<world, attempted, base, disk, source, fetched, work, tampered, verified, staged>>

\* Anything else running as the user may replace or remove workspace files.
Tamper ==
  /\ "tamper" \in Faults
  /\ ~tampered /\ tampered' = TRUE
  /\ \/ pc \in {"tar_fetch", "tar_apply"} /\ base' \in Tars /\ UNCHANGED disk
     \/ pc \in {"direct_fetch", "direct_apply"} /\ base' \in Bytes /\ UNCHANGED disk
     \/ pc \in {"verify", "stage", "install"} /\ disk' \in Bytes \cup {Nil} /\ UNCHANGED base
  /\ UNCHANGED <<world, pc, attempted, source, fetched, work, verified, staged, installed, outcome>>

-----------------------------------------------------------------------------

FlowInit ==
  /\ doc \in Documents /\ host \in Hosts
  /\ pc = "plan" /\ attempted = {}
  /\ base = Nil /\ disk = Nil /\ source = "none"
  /\ fetched = << >> /\ work = 0 /\ tampered = FALSE
  /\ verified = Nil /\ staged = Nil /\ installed = Nil
  /\ outcome = "none"

FlowNext ==
  \/ PlanRefused \/ PlanUpToDate \/ PlanProceed
  \/ TarUnavailable \/ TarRefused
  \/ (\E got \in {host.cached, Nil} : TarFromCache(got) \/ DirectBase(got))
  \/ TarFromApp \/ TarApply
  \/ (\E served \in BOOLEAN : TarFetch(served) \/ DirectFetch(served) \/ CopyFetch(served))
  \/ DirectUnavailable \/ DirectApply
  \/ NoWorkspace \/ FullWorkspace \/ CopyApply
  \/ (\E bytes \in Bytes : FullFetch(bytes)) \/ FullFetchFails
  \/ Verify \/ Stage \/ Install
  \/ Tamper

FlowSpec == FlowInit /\ [][FlowNext]_vars

-----------------------------------------------------------------------------
(* Properties. *)

\* What is installed or staged is exactly what the configured key signed, for a
\* newer version, and the signed identity names these bytes of this release;
\* a signature without an identity only ever gets there by a full download.
\* Whatever the manifest, the network, the cache or the workspace held.
InstalledIsRelease ==
  \A bytes \in {installed, staged} \ {Nil} :
    /\ bytes = doc.sig.over
    /\ doc.version = "newer"
    /\ \/ Binding = Legacy /\ source \in {"full", "compressed-full"}
       \/ Signed /\ Binding.ours /\ Binding.artifact = bytes

\* flow.rs, "a delta failure resolves to a full download rather than an error":
\* an update to an honest release ends in an error only where a stock updater's
\* would, and never without having tried the full download.  Two things excuse
\* an error: a disk that gives the update no directory to work in (no path has
\* rebuilt anything then), and someone else's bytes in that directory.
DeltaNeverFatal ==
  Honest /\ pc = "done" /\ ~tampered =>
    \/ outcome \in {"installed", "install"}
    \/ outcome = "workspace" /\ source = "none"
    \/ outcome \in {"fetch", "signature"} /\ fetched # << >> /\ Last(fetched) = "full"

\* Once an artifact is in the workspace no check, whatever it says, makes the
\* update fetch or try another; a release refused at planning fetches nothing.
NoSecondAttempt ==
  [][/\ source # "none" => UNCHANGED <<source, fetched>>
     /\ outcome' = "refused" /\ source = "none" => fetched' = << >>]_vars

\* A patch is downloaded only over the base it was made against, unless the
\* host handed over the base itself.
PatchOverItsBase ==
  ~tampered =>
    /\ pc = "tar_fetch" => Meets(base, TarPatch.tar)
    /\ pc = "direct_fetch" /\ host.base = Nil => Meets(base, Patch.base)

\* client.rs, "it would relabel a failed TarDelta as a successful DirectDelta":
\* after a tar attempt a direct delta is not reported, unless the host handed
\* over the base itself.
NoRelabelling ==
  source = "delta" /\ "tar" \in attempted => host.base # Nil

\* No decoder runs under a bound above the local ceilings.
WorkBounded == work <= Max({MaxTarget, MaxTar})

\* flow.rs, "the variants name the mechanism": the path an update reports is the
\* one its bytes came by.  Sources are tried cheapest first, each at most once.
Sources == <<"tar_patch", "patch", "copy", "full">>
Paths == <<"tar-delta", "delta", "compressed-full", "full">>
OutcomeNamesPath ==
  /\ \A i, j \in DOMAIN fetched : i < j =>
       \E m, n \in 1 .. 4 : m < n /\ fetched[i] = Sources[m] /\ fetched[j] = Sources[n]
  /\ outcome = "installed" =>
       \E n \in 1 .. 4 : source = Paths[n] /\ Last(fetched) = Sources[n]
=============================================================================
