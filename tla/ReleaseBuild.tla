----------------------------- MODULE ReleaseBuild -----------------------------
(***************************************************************************)
(* The release directory: runs of delta-release (crates/delta-release:      *)
(* main.rs, lib.rs, tar_layer.rs), one after another, that fold one         *)
(* platform's release into the manifest found there, and release-check      *)
(* (verify.rs) before an upload.                                            *)
(*                                                                         *)
(* A patch file is the pair of contents it was made from and rebuilds; what  *)
(* rebuilds Nil is truncated or wrong.  A declared digest is the content.    *)
(* What a signature states is its trusted comment, read by ReleaseIdentity.  *)
(***************************************************************************)
EXTENDS ReleaseGates, FiniteSets

CONSTANTS
  Versions, Platforms,
  Installers, Tars,
  TarOf,        \* the tar inside an installer; Nil: not a gzipped tarball
  Recompressed, \* what the recipe makes of a tar on this machine
  TooLarge,     \* tars above --max-tar-bytes
  Oversized,    \* pairs of installers with a direct patch above the limit
  Incompressible, \* installers whose compressed copy is not smaller
  Requests,     \* the command lines that may be run
  SizeOf,       \* the length of each content
  AppId,        \* the application that is being released
  VersionText, PlatformText, DigestText, \* how versions, platforms, digests are written
  MaxRuns,      \* bound: runs of delta-release
  Torn,         \* a manifest written in part
  Faults        \* "io", "crash", "engine"

Contents == Installers \cup Tars
Files == [from : Contents \cup {Nil}, to : Contents \cup {Nil}]

\* Output paths, named for what they hold.
Outputs == [platform : Platforms, version : Versions, kind : {"direct", "tar", "full"},
            from : Versions \cup {Nil}]

\* ReleaseRequest with main's options: says, --target-version and --platform as
\* they were typed; appId and config, --app-id and --app-config; tar,
\* --tar-patch-out and --require-tar-layer; strict, --require-direct-patch;
\* copy, --compressed-full-out; dry, --dry-run; insecure, plain HTTP to loopback.
Predecessors == [from : Versions, base : Installers]
IsCommandLine(r) ==
  /\ r.platform \in Platforms /\ r.version \in Versions /\ r.installer \in Installers
  /\ r.preds \in Seq(Predecessors) /\ r.tar \in {"no", "optional", "required"}
  /\ r.tar # "no" => r.preds # << >>
  /\ {r.strict, r.copy, r.dry, r.insecure} \subseteq BOOLEAN
  /\ r.urls \in [installer : Urls, patch : Urls, tar : Urls, copy : Urls]
  /\ ~(r.appId = Nil /\ r.config = Nil)

ASSUME ReleaseAssumption ==
  /\ Installers \cap Tars = {} /\ Nil \notin Contents \cup Versions
  /\ TarOf \in [Installers -> Tars \cup {Nil}]
  /\ Recompressed \in [Tars -> Installers]
  /\ TooLarge \subseteq Tars /\ Oversized \subseteq Installers \X Installers
  /\ Incompressible \subseteq Installers
  /\ SizeOf \in [Contents -> Nat \ {0}]
  /\ \A r \in Requests : IsCommandLine(r)
  /\ MaxRuns \in Nat /\ Torn # Nil

\* looks_like_app_tar_gz, by name and magic.
Tarball(installer) == TarOf[installer] # Nil

\* Mutant of Signable: what is signed is not read back first.
SignableUnread(id) == TRUE

\* sign_release signs only what parses as exactly the identity it was made from.
Signable(id) == Parse(Render(id)) = id

\* The identity of a run, its digest and size read off the file it signs.
IdentityOf(r, n) ==
  [app |-> AppOf(r.appId, r.config), version |-> r.says.version, platform |-> r.says.platform,
   representation |-> Value(Text(IF Tarball(r.installer) THEN "app-tar-gz-v1" ELSE "opaque-v1",
                                 13, {"a-f", "g-z", "-", "--", "0-9"})),
   blake3 |-> Value(DigestText[r.installer]), size |-> SizeOf[r.installer], signedAt |-> n]
Signature(r, n) == [over |-> r.installer, comment |-> Render(IdentityOf(r, n))]
Signatures ==
  {Signature(s[1], s[2]) :
     s \in {t \in Requests \X (1 .. MaxRuns) : Signable(IdentityOf(t[1], t[2]))}}

DirectPatches == [base : Installers, file : Files, url : Urls]
TarPatches == [installer : Installers, tar : Tars, file : Files, url : Urls]
Layers == [target : Tars, patches : [Versions -> TarPatches \cup {Nil}]]
Copies == [file : Files, url : Urls]
Entries == [version : Versions, target : Installers, sig : Signatures,
            patches : [Versions -> DirectPatches \cup {Nil}],
            layer : Layers \cup {Nil}, full : Copies \cup {Nil}]
Fulls == [sig : Signatures, url : Urls]
Manifests == [version : Versions, full : [Platforms -> Fulls \cup {Nil}],
              delta : [Platforms -> Entries \cup {Nil}]]

\* lib.rs takes the version and the platform of the manifest and of the identity from
\* the same strings: a request that is read back says them as they are written.
ASSUME TextAssumption ==
  \A r \in Requests, n \in 1 .. MaxRuns :
    /\ IdentityOf(r, n) \notin {Legacy, Malformed}
    /\ Parse(Render(IdentityOf(r, n))) = IdentityOf(r, n) =>
         /\ r.says.version = Value(VersionText[r.version])
         /\ r.says.platform = Value(PlatformText[r.platform])

\* The markers are not data.
ASSUME MarkerAssumption ==
  /\ Nil \notin Requests /\ Nil \notin Signatures /\ Nil \notin Fulls
  /\ Nil \notin DirectPatches /\ Nil \notin TarPatches /\ Nil \notin Layers
  /\ Nil \notin Copies /\ Nil \notin Entries
  /\ Nil \notin Manifests /\ Torn \notin Manifests

VARIABLES
  manifest,   \* manifest.json
  files,      \* the patch files beside it
  run,        \* how many runs were started
  pc, req, index,   \* the run under way
  sig, direct, draft, layer, proven, omitted,
  accepted    \* what release-check accepted for what the manifest says, and how

directory == <<manifest, files>>
work == <<sig, direct, draft, layer, proven, omitted>>
vars == <<directory, run, pc, req, index, work, accepted>>

ReleaseTypeOK ==
  /\ manifest \in Manifests \cup {Nil, Torn}
  /\ DOMAIN files \subseteq Outputs /\ \A name \in DOMAIN files : files[name] \in Files
  /\ run \in 0 .. MaxRuns
  /\ pc \in {"idle", "direct", "tar", "trim", "copy", "write", "check"}
  /\ req \in Requests \cup {Nil} /\ index \in Nat
  /\ sig \in Signatures \cup {Nil}
  /\ direct \in [Versions -> DirectPatches \cup {Nil}]
  /\ draft \in Manifests \cup {Nil} /\ layer \in Layers \cup {Nil}
  /\ proven \in BOOLEAN /\ omitted \subseteq Versions
  /\ accepted \in [Platforms -> [artifact : Installers, insecure : BOOLEAN] \cup {Nil}]

-----------------------------------------------------------------------------
(* The pieces of a run. *)

NoPatch == [from \in Versions |-> Nil]

Output(kind, from) ==
  [platform |-> req.platform, version |-> req.version, kind |-> kind, from |-> from]

Put(name, file) == [n \in DOMAIN files \cup {name} |-> IF n = name THEN file ELSE files[n]]
Without(name) == [n \in DOMAIN files \ {name} |-> files[n]]

\* What the backend may make of two files: the patch, or something else.
Diffed(old, new) ==
  {[from |-> old, to |-> new]}
  \cup (IF {"engine", "io"} \cap Faults # {} THEN {[from |-> old, to |-> Nil]} ELSE {})

Left == index <= Len(req.preds)
Pred == req.preds[index]
Entry == draft.delta[req.platform]

\* The process ends, its locals with it; the directory stays as it has become.
Exit ==
  /\ pc' = "idle" /\ req' = Nil /\ index' = 1
  /\ sig' = Nil /\ direct' = NoPatch /\ draft' = Nil /\ layer' = Nil
  /\ proven' = FALSE /\ omitted' = {}
  /\ UNCHANGED run

Fail == Exit /\ UNCHANGED accepted

\* Manifest::validate, on what a run can have produced.
Valid(m) ==
  \A p \in Platforms : m.delta[p] # Nil =>
    LET e == m.delta[p] IN
    /\ e.version = m.version
    /\ m.full[p] # Nil /\ m.full[p].sig = e.sig
    /\ e.patches[e.version] = Nil
    /\ \A from \in Versions : e.patches[from] # Nil => e.patches[from].base # e.target
    /\ e.layer # Nil =>
         /\ e.layer.patches[e.version] = Nil
         /\ \A from \in Versions :
              e.layer.patches[from] # Nil => e.layer.patches[from].tar # e.layer.target

\* The checks of the request itself, by main and by build_release.
Sensible(r) ==
  /\ r.config # Nil => InContract(r.says.version.head, r.config)
  /\ Settled(r.appId, r.config)
  /\ Publishable(r.urls.installer, r.insecure)
  /\ r.preds # << >> => Publishable(r.urls.patch, r.insecure)
  /\ r.tar # "no" => Publishable(r.urls.tar, r.insecure)
  /\ \A i, j \in DOMAIN r.preds : i # j => r.preds[i].from # r.preds[j].from
  /\ \A i \in DOMAIN r.preds : r.preds[i].from # r.version

-----------------------------------------------------------------------------
(* build_release *)

\* Up to sign_release.  A manifest that does not parse, a request that makes no
\* sense, or an identity that would not be read back ends the run before anything
\* is written.
Begin(r) ==
  /\ pc = "idle" /\ run < MaxRuns
  /\ run' = run + 1
  /\ IF manifest = Torn \/ ~Sensible(r) \/ ~Signable(IdentityOf(r, run'))
     THEN UNCHANGED <<pc, req, index, sig, direct>>
     ELSE /\ pc' = "direct" /\ req' = r /\ index' = 1
          /\ sig' = Signature(r, run')
          /\ direct' = NoPatch
  /\ UNCHANGED <<directory, draft, layer, proven, omitted, accepted>>

DirectPatch(file) == [base |-> Pred.base, file |-> file, url |-> req.urls.patch]
Full == [sig |-> sig, url |-> req.urls.installer]

\* Mutant of MakeDirect: described without having been applied.
MakeDirectUnproven ==
  /\ pc = "direct" /\ Left
  /\ \E file \in Diffed(Pred.base, req.installer) :
       /\ files' = Put(Output("direct", Pred.from), file)
       /\ direct' = [direct EXCEPT ![Pred.from] = DirectPatch(file)]
       /\ index' = index + 1
       /\ UNCHANGED <<run, pc, req, sig, draft, layer, proven, omitted, accepted>>
  /\ UNCHANGED manifest

\* generate_direct_patch: written, then applied, then described.
MakeDirect ==
  /\ pc = "direct" /\ Left
  /\ \E file \in Diffed(Pred.base, req.installer) :
       /\ files' = Put(Output("direct", Pred.from), file)
       /\ IF file.to # req.installer
          THEN Fail
          ELSE /\ direct' = [direct EXCEPT ![Pred.from] = DirectPatch(file)]
               /\ index' = index + 1
               /\ UNCHANGED <<run, pc, req, sig, draft, layer, proven, omitted, accepted>>
  /\ UNCHANGED manifest

\* The manifest to extend: the one found, if it is for this version.
Found ==
  IF manifest # Nil /\ manifest.version = req.version THEN manifest
  ELSE [version |-> req.version, full |-> [p \in Platforms |-> Nil],
        delta |-> [p \in Platforms |-> Nil]]

\* The platform's entry in it: what it described before is kept.
Kept ==
  IF Found.delta[req.platform] # Nil THEN Found.delta[req.platform]
  ELSE [version |-> req.version, target |-> req.installer, sig |-> sig,
        patches |-> NoPatch, layer |-> Nil, full |-> Nil]

Merged(old, new) == [from \in Versions |-> IF new[from] # Nil THEN new[from] ELSE old[from]]

\* Mutant of Fold: whatever is found is replaced.
FoldAlone ==
  /\ pc = "direct" /\ ~Left
  /\ draft' = [version |-> req.version,
               full |-> [p \in Platforms |-> IF p = req.platform THEN Full ELSE Nil],
               delta |-> [p \in Platforms |-> IF p = req.platform
                            THEN [Kept EXCEPT !.target = req.installer, !.sig = sig,
                                              !.patches = Merged(Kept.patches, direct)]
                            ELSE Nil]]
  /\ layer' = Kept.layer /\ proven' = FALSE
  /\ pc' = "tar" /\ index' = 1
  /\ UNCHANGED <<directory, run, req, sig, direct, omitted, accepted>>

Fold ==
  /\ pc = "direct" /\ ~Left
  /\ draft' = [Found EXCEPT !.full[req.platform] = Full,
                            !.delta[req.platform] = [Kept EXCEPT
                              !.version = req.version, !.target = req.installer, !.sig = sig,
                              !.patches = Merged(Kept.patches, direct)]]
  /\ layer' = Kept.layer /\ proven' = FALSE
  /\ pc' = "tar" /\ index' = 1
  /\ UNCHANGED <<directory, run, req, sig, direct, omitted, accepted>>

\* Mutant of Extended: the two digests of the base swapped.
ExtendedSwapped(file) ==
  LET tar == TarOf[req.installer]
      kept == IF layer # Nil /\ layer.target = tar THEN layer
              ELSE [target |-> tar, patches |-> NoPatch]
  IN  [kept EXCEPT !.patches[Pred.from] =
         [installer |-> TarOf[Pred.base], tar |-> Pred.base, file |-> file,
          url |-> req.urls.tar]]

\* tar_layer::generate with what it is given: the layer, if it is this tar's.
Extended(file) ==
  LET tar == TarOf[req.installer]
      kept == IF layer # Nil /\ layer.target = tar THEN layer
              ELSE [target |-> tar, patches |-> NoPatch]
  IN  [kept EXCEPT !.patches[Pred.from] =
         [installer |-> Pred.base, tar |-> TarOf[Pred.base], file |-> file,
          url |-> req.urls.tar]]

\* What can be known without making a patch.
Patchable ==
  /\ Tarball(req.installer) /\ Tarball(Pred.base)
  /\ {TarOf[req.installer], TarOf[Pred.base]} \cap TooLarge = {}
  /\ TarOf[req.installer] # TarOf[Pred.base]

\* round_trip: the patch gives the tar, the recipe gives the installer.
RoundTrips(file) ==
  file.to = TarOf[req.installer] /\ Recompressed[file.to] = req.installer

\* Mutant of TarSkipped: what was inherited is kept.
TarSkippedKept ==
  IF req.tar = "required"
  THEN Fail
  ELSE /\ index' = index + 1
       /\ UNCHANGED <<run, pc, req, work, accepted>>

\* No tar layer from this predecessor: an error, or a warning.
TarSkipped ==
  IF req.tar = "required"
  THEN Fail
  ELSE /\ layer' = (IF proven THEN layer ELSE Nil)
       /\ index' = index + 1
       /\ UNCHANGED <<run, pc, req, sig, direct, draft, proven, omitted, accepted>>

MakeTar ==
  /\ pc = "tar" /\ req.tar # "no" /\ Left
  /\ \/ /\ ~Patchable \/ "io" \in Faults
        /\ TarSkipped
        /\ UNCHANGED files
     \/ /\ Patchable
        /\ \E file \in Diffed(TarOf[Pred.base], TarOf[req.installer]) :
             /\ files' = Put(Output("tar", Pred.from), file)
             /\ IF ~RoundTrips(file)
                THEN TarSkipped
                ELSE /\ layer' = Extended(file) /\ proven' = TRUE
                     /\ index' = index + 1
                     /\ UNCHANGED <<run, pc, req, sig, direct, draft, omitted, accepted>>
  /\ UNCHANGED manifest

\* The layer is put in place and the whole document validated.
Attach ==
  /\ pc = "tar" /\ (req.tar = "no" \/ ~Left)
  /\ LET built == [draft EXCEPT !.delta[req.platform].layer = layer] IN
     IF Valid(built)
     THEN /\ draft' = built /\ pc' = "trim" /\ index' = 1 /\ omitted' = {}
          /\ UNCHANGED <<run, req, sig, direct, layer, proven, accepted>>
     ELSE Fail
  /\ UNCHANGED directory

-----------------------------------------------------------------------------
(* run in main.rs, after build_release *)

\* A direct patch that saves too little is deleted and not described.
Trim ==
  /\ pc = "trim" /\ Left
  /\ IF <<Pred.base, req.installer>> \in Oversized
     THEN /\ files' = Without(Output("direct", Pred.from))
          /\ draft' = [draft EXCEPT !.delta[req.platform].patches[Pred.from] = Nil]
          /\ omitted' = omitted \cup {Pred.from}
     ELSE UNCHANGED <<files, draft, omitted>>
  /\ index' = index + 1
  /\ UNCHANGED <<manifest, run, pc, req, sig, direct, layer, proven, accepted>>

Trimmed ==
  /\ pc = "trim" /\ ~Left
  /\ IF Valid(draft) /\ (req.strict => omitted = {})
     THEN pc' = "copy" /\ UNCHANGED <<run, req, index, work, accepted>>
     ELSE Fail
  /\ UNCHANGED directory

\* add_compressed_full, a patch against an empty base.
Copy ==
  /\ pc = "copy"
  /\ \/ /\ ~req.copy
        /\ pc' = "write"
        /\ UNCHANGED <<files, draft, run, req, index, sig, direct, layer, proven, omitted, accepted>>
     \/ /\ req.copy /\ ~Publishable(req.urls.copy, req.insecure)
        /\ Fail
        /\ UNCHANGED files
     \/ /\ req.copy /\ Publishable(req.urls.copy, req.insecure)
        /\ \E file \in Diffed(Nil, req.installer) :
             IF file.to # req.installer
             THEN files' = Put(Output("full", Nil), file) /\ Fail
             ELSE /\ IF req.installer \in Incompressible
                     THEN /\ files' \in {Without(Output("full", Nil))}
                               \cup (IF "io" \in Faults THEN {Put(Output("full", Nil), file)}
                                     ELSE {})
                          /\ draft' = [draft EXCEPT !.delta[req.platform].full = Nil]
                     ELSE /\ files' = Put(Output("full", Nil), file)
                          /\ draft' = [draft EXCEPT !.delta[req.platform].full =
                                      [file |-> file, url |-> req.urls.copy]]
                  /\ pc' = "write"
                  /\ UNCHANGED <<run, req, index, sig, direct, layer, proven, omitted, accepted>>
  /\ UNCHANGED manifest

\* The checker's word on platforms that the new manifest takes over.
Standing ==
  [p \in Platforms |->
     IF p # req.platform /\ manifest # Nil /\ manifest.version = draft.version
     THEN accepted[p] ELSE Nil]

\* write_manifest, in place.  A dry run ends without it.
Write ==
  /\ pc = "write"
  /\ IF req.dry
     THEN Fail /\ UNCHANGED manifest
     ELSE /\ manifest' = draft /\ accepted' = Standing
          /\ pc' = "check"
          /\ UNCHANGED <<run, req, index, work>>
  /\ UNCHANGED files

\* The patch file that is being written.
UnderWay ==
  IF pc = "copy" /\ req.copy THEN {Output("full", Nil)}
  ELSE IF Left /\ (pc = "direct" \/ (pc = "tar" /\ req.tar # "no"))
       THEN {Output(pc, Pred.from)} ELSE {}

\* The process is killed, or the filesystem fails it: a patch file may be left
\* in part.  While a tar layer is made only the kill ends the run.
Interrupted ==
  /\ "crash" \in Faults \/ ("io" \in Faults /\ pc # "tar")
  /\ pc \in {"direct", "tar", "trim", "copy", "write"}
  /\ Fail
  /\ files' \in {files} \cup {Put(name, [from |-> Nil, to |-> Nil]) : name \in UnderWay}
  /\ UNCHANGED manifest

\* The same while the manifest is written, which truncates it first.
TornWrite ==
  /\ {"io", "crash"} \cap Faults # {}
  /\ pc = "write" /\ ~req.dry
  /\ manifest' = Torn /\ accepted' = [p \in Platforms |-> Nil]
  /\ Exit
  /\ UNCHANGED files

\* Someone removes the manifest to start afresh.
StartOver ==
  /\ pc = "idle" /\ manifest = Torn
  /\ manifest' = Nil
  /\ UNCHANGED <<files, run, pc, req, index, work, accepted>>

-----------------------------------------------------------------------------
(* release-check *)

\* Every URL a client of the platform may be sent to.
UrlsOf(m, p) ==
  {m.full[p].url} \cup
  IF m.delta[p] = Nil THEN {}
  ELSE LET e == m.delta[p] IN
       {e.patches[v].url : v \in {w \in Versions : e.patches[w] # Nil}}
       \cup (IF e.full = Nil THEN {} ELSE {e.full.url})
       \cup (IF e.layer = Nil THEN {}
             ELSE {e.layer.patches[v].url : v \in {w \in Versions : e.layer.patches[w] # Nil}})

\* Mutant of Acceptable: nothing compared with what the signature states.
AcceptableUnsigned(p, version, artifact, insecure) ==
  /\ manifest.version = version /\ Valid(manifest)
  /\ manifest.full[p] # Nil /\ manifest.full[p].sig.over = artifact
  /\ \A url \in UrlsOf(manifest, p) : Publishable(url, insecure)
  /\ manifest.delta[p] # Nil => manifest.delta[p].target = artifact

\* verify_release, for the tag's version and the artifact to be uploaded.
Acceptable(p, version, artifact, insecure) ==
  /\ manifest.version = version /\ Valid(manifest)
  /\ manifest.full[p] # Nil /\ manifest.full[p].sig.over = artifact
  /\ \A url \in UrlsOf(manifest, p) : Publishable(url, insecure)
  /\ LET stated == Parse(manifest.full[p].sig.comment) IN
     /\ IsIdentity(stated)
     /\ States(stated, AppId, VersionText[version], PlatformText[p],
               DigestText[artifact], SizeOf[artifact])
     /\ manifest.delta[p] # Nil =>
          /\ manifest.delta[p].target = artifact
          /\ manifest.delta[p].layer # Nil => stated.representation.head.of = "app-tar-gz-v1"

\* The artifact is whatever the directory holds by then.
Check(artifact, insecure) ==
  /\ pc = "check"
  /\ accepted' = [accepted EXCEPT ![req.platform] =
                    IF Acceptable(req.platform, req.version, artifact, insecure)
                    THEN [artifact |-> artifact, insecure |-> insecure] ELSE Nil]
  /\ Exit
  /\ UNCHANGED directory

-----------------------------------------------------------------------------

ReleaseInit ==
  /\ manifest = Nil /\ files = [n \in {} |-> Nil]
  /\ run = 0 /\ pc = "idle" /\ req = Nil /\ index = 1
  /\ sig = Nil /\ direct = NoPatch /\ draft = Nil /\ layer = Nil
  /\ proven = FALSE /\ omitted = {}
  /\ accepted = [p \in Platforms |-> Nil]

ReleaseNext ==
  \/ \E r \in Requests : Begin(r)
  \/ MakeDirect \/ Fold \/ MakeTar \/ Attach \/ Trim \/ Trimmed \/ Copy \/ Write
  \/ Interrupted \/ TornWrite \/ StartOver
  \/ \E artifact \in Installers, insecure \in BOOLEAN : Check(artifact, insecure)

ReleaseSpec == ReleaseInit /\ [][ReleaseNext]_vars

-----------------------------------------------------------------------------
(* Properties, of a manifest that was just written. *)

Written == pc = "check"
Now == manifest.delta[req.platform]
Asked == {req.preds[i].from : i \in DOMAIN req.preds}

\* A described path leads from the base it declares to what is published.
DirectWorks(e, from) ==
  e.patches[from] # Nil => e.patches[from].file = [from |-> e.patches[from].base, to |-> e.target]
TarWorks(e, from) ==
  e.layer # Nil /\ e.layer.patches[from] # Nil =>
    /\ e.layer.patches[from].file = [from |-> e.layer.patches[from].tar, to |-> e.layer.target]
    /\ Recompressed[e.layer.target] = e.target
OnDisk(name, file) == name \in DOMAIN files /\ files[name] = file
CopyWorks(e) == e.full # Nil => e.full.file = [from |-> Nil, to |-> e.target]

\* DECISIONS #33: every path asked for in a run was applied before it is
\* described, however often and with whatever else the version was built
\* before, and the direct patches and the copy described are those on disk.
AskedPathsWork ==
  Written =>
    /\ \A from \in Asked : Now.patches[from] # Nil =>
         /\ DirectWorks(Now, from)
         /\ OnDisk(Output("direct", from), Now.patches[from].file)
    /\ req.tar # "no" => \A from \in Asked : TarWorks(Now, from)
    /\ req.copy /\ Now.full # Nil =>
         CopyWorks(Now) /\ OnDisk(Output("full", Nil), Now.full.file)

\* lib.rs: a run that asks for tar paths never leaves a layer of another build
\* of the same version, not even for predecessors it does not mention.
TarLayerIsTarget ==
  Written /\ req.tar # "no" /\ Now.layer # Nil =>
    /\ Now.layer.target = TarOf[req.installer]
    /\ \A from \in Versions : TarWorks(Now, from)

\* The checker and the generator agree on what can be published: what one has just
\* written the other accepts, unless the run was for another application, or the
\* manifest has a URL of a rehearsal, this one or an earlier one it took over, or
\* took over a tar layer for what is no tarball now.
RefusedOnlyInherited ==
  Written => \A insecure \in BOOLEAN :
    \/ Acceptable(req.platform, req.version, req.installer, insecure)
    \/ ~Tarball(req.installer) /\ Now.layer # Nil /\ req.tar = "no"
    \/ AppOf(req.appId, req.config) # Value(AppId)
    \/ ~insecure /\ \E url \in UrlsOf(manifest, req.platform) : url.scheme = "http"

\* release.yml makes a release by one run per platform, each checked as it is
\* written, and "the merge is the step that can go wrong": what was accepted of
\* one platform is still acceptable when runs for the others have extended the
\* manifest, rebuilt their own part of it or failed.
AcceptedStays ==
  \A p \in Platforms : accepted[p] # Nil =>
    Acceptable(p, manifest.version, accepted[p].artifact, accepted[p].insecure)

\* manifest.rs: "every entry in patches reconstructs the current release", and so
\* do the tar layer and the compressed copy, whether or not this run made them.
EveryPathWorks ==
  Written => /\ \A from \in Versions : DirectWorks(Now, from) /\ TarWorks(Now, from)
             /\ CopyWorks(Now)
=============================================================================
