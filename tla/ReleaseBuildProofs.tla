-------------------------- MODULE ReleaseBuildProofs --------------------------
(***************************************************************************)
(* Proofs about ReleaseBuild, for any number of runs, platforms, versions    *)
(* and predecessors, any command lines and every fault.                     *)
(*                                                                         *)
(* A run knows what it has shown so far (its request, the paths it applied,  *)
(* the entry it drafted), and the manifest between runs is what some run     *)
(* knew.  A run that ends forgets; the directory keeps only what holds of    *)
(* every manifest.                                                          *)
(***************************************************************************)
EXTENDS ReleaseBuild, SequenceTheorems, TLAPS

Drafting == pc \in {"tar", "trim", "copy", "write", "check"}

\* A run under way has passed the checks of its request and signed it.
KnowsRequest ==
  /\ index # 0
  /\ manifest \in {Nil, Torn} => accepted = [p \in Platforms |-> Nil]
  /\ pc # "idle" =>
       /\ req \in Requests /\ Sensible(req) /\ manifest # Torn
       /\ \E n \in 1 .. MaxRuns : sig = Signature(req, n) /\ Signable(IdentityOf(req, n))

\* A direct patch that this run made: it was applied, and is the one on disk.
DirectMade(patch, from) ==
  /\ patch.file = [from |-> patch.base, to |-> req.installer]
  /\ OnDisk(Output("direct", from), patch.file)

KnowsDirect ==
  pc = "direct" =>
    /\ \A i \in DOMAIN req.preds : i < index => direct[req.preds[i].from] # Nil
    /\ \A from \in Versions : direct[from] # Nil => DirectMade(direct[from], from)

\* The platform's entry describes this installer, and what was asked for works.
KnowsEntry ==
  Drafting =>
    /\ draft \in Manifests /\ draft.version = req.version
    /\ draft.full[req.platform] = Full
    /\ Entry # Nil /\ Entry.target = req.installer /\ Entry.sig = sig
    /\ \A from \in Asked : Entry.patches[from] # Nil => DirectMade(Entry.patches[from], from)

\* Every patch of a tar layer rebuilds its target, in whatever run it was made.
LayerSound(l) ==
  l # Nil => \A from \in Versions : l.patches[from] # Nil =>
    l.patches[from].file = [from |-> l.patches[from].tar, to |-> l.target]
LayersSound(m) == \A p \in Platforms : m.delta[p] # Nil => LayerSound(m.delta[p].layer)

\* A layer of this installer, which the recipe packs as it is.
LayerProven(l) ==
  l # Nil => l.target = TarOf[req.installer] /\ Recompressed[l.target] = req.installer

KnowsLayer ==
  /\ manifest \in Manifests => LayersSound(manifest)
  /\ Drafting => LayersSound(draft)
  /\ pc = "tar" =>
       /\ LayerSound(layer)
       /\ proven => LayerProven(layer)
       /\ req.tar # "no" /\ index # 1 => proven \/ layer = Nil
  /\ pc \in {"trim", "copy", "write", "check"} /\ req.tar # "no" => LayerProven(Entry.layer)

KnowsCopy ==
  pc \in {"write", "check"} /\ req.copy /\ Entry.full # Nil =>
    CopyWorks(Entry) /\ OnDisk(Output("full", Nil), Entry.full.file)

\* What the manifest says of other platforms is in the draft.
KnowsOthers ==
  /\ Drafting /\ manifest \in Manifests /\ manifest.version = draft.version =>
       \A p \in Platforms : p # req.platform =>
         draft.full[p] = manifest.full[p] /\ draft.delta[p] = manifest.delta[p]
  /\ pc \in {"copy", "write", "check"} => Valid(draft)
  /\ pc = "check" => manifest = draft

ReleaseInv ==
  /\ ReleaseTypeOK /\ KnowsRequest /\ KnowsDirect /\ KnowsEntry /\ KnowsLayer
  /\ KnowsCopy /\ KnowsOthers /\ AcceptedStays

-----------------------------------------------------------------------------
(* Facts about the data. *)

\* A request that was accepted, and the predecessor its run is at.
LEMMA RequestParts ==
  ASSUME NEW r \in Requests
  PROVE  /\ r.platform \in Platforms /\ r.version \in Versions /\ r.installer \in Installers
         /\ r.preds \in Seq(Predecessors) /\ r.tar \in {"no", "optional", "required"}
         /\ r.tar # "no" => r.preds # << >>
         /\ r.urls.installer \in Urls /\ r.urls.patch \in Urls
         /\ r.urls.tar \in Urls /\ r.urls.copy \in Urls
<1>1. IsCommandLine(r)
  BY ReleaseAssumption
<1> QED
  BY <1>1 DEF IsCommandLine

LEMMA PredParts ==
  ASSUME req \in Requests, index \in Nat, index # 0, Left
  PROVE  /\ index \in DOMAIN req.preds
         /\ Pred.from \in Versions /\ Pred.base \in Installers /\ Pred.from \in Asked
<1>1. req.preds \in Seq(Predecessors)
  BY RequestParts
<1>2. index \in DOMAIN req.preds /\ index \in 1 .. Len(req.preds)
  BY <1>1 DEF Left
<1>3. Pred \in Predecessors
  BY <1>1, <1>2 DEF Pred
<1> QED
  BY <1>2, <1>3 DEF Predecessors, Pred, Asked

\* Whatever is asked for is a version.
LEMMA AskedParts ==
  ASSUME req \in Requests
  PROVE  Asked \subseteq Versions
<1>1. req.preds \in Seq(Predecessors)
  BY RequestParts
<1>2. \A i \in DOMAIN req.preds : req.preds[i] \in Predecessors
  BY <1>1, ElementOfSeq
<1> QED
  BY <1>2 DEF Asked, Predecessors

\* The files the backend may leave.
LEMMA DiffedParts ==
  ASSUME NEW old \in Contents \cup {Nil}, NEW new \in Contents, NEW file \in Diffed(old, new)
  PROVE  file \in Files /\ file.from = old
  BY DEF Diffed, Files

LEMMA OutputParts ==
  ASSUME req \in Requests, NEW kind \in {"direct", "tar", "full"},
         NEW from \in Versions \cup {Nil}
  PROVE  Output(kind, from) \in Outputs
  BY RequestParts DEF Output, Outputs

\* Outputs of different kinds, or for different predecessors, are different files.
LEMMA OutputsDiffer ==
  ASSUME NEW k1, NEW k2, NEW f1, NEW f2, k1 # k2 \/ f1 # f2
  PROVE  Output(k1, f1) # Output(k2, f2)
  BY DEF Output

FilesTyped == DOMAIN files \subseteq Outputs /\ \A name \in DOMAIN files : files[name] \in Files

\* Writing and deleting one file.
LEMMA PutParts ==
  ASSUME FilesTyped, NEW name \in Outputs, NEW file \in Files, files' = Put(name, file)
  PROVE  /\ FilesTyped' /\ name \in DOMAIN files' /\ files'[name] = file
         /\ \A n : n # name /\ n \in DOMAIN files => n \in DOMAIN files' /\ files'[n] = files[n]
  BY DEF FilesTyped, Put

LEMMA WithoutParts ==
  ASSUME FilesTyped, NEW name, files' = Without(name)
  PROVE  /\ FilesTyped'
         /\ \A n : n # name /\ n \in DOMAIN files => n \in DOMAIN files' /\ files'[n] = files[n]
  BY DEF FilesTyped, Without

\* Replacing a part of an entry.
LEMMA EntryParts ==
  ASSUME NEW e \in Entries
  PROVE  /\ e.version \in Versions /\ e.target \in Installers /\ e.sig \in Signatures
         /\ e.patches \in [Versions -> DirectPatches \cup {Nil}]
         /\ e.layer \in Layers \cup {Nil} /\ e.full \in Copies \cup {Nil}
         /\ e # Nil
  BY MarkerAssumption DEF Entries

\* Replacing a part of one platform's entry is replacing the entry.
LEMMA PartReplaced ==
  ASSUME NEW m \in Manifests, NEW p \in Platforms, NEW from, NEW v
  PROVE  /\ [m EXCEPT !.delta[p].layer = v]
              = [m EXCEPT !.delta[p] = [m.delta[p] EXCEPT !.layer = v]]
         /\ [m EXCEPT !.delta[p].full = v]
              = [m EXCEPT !.delta[p] = [m.delta[p] EXCEPT !.full = v]]
         /\ [m EXCEPT !.delta[p].patches[from] = v]
              = [m EXCEPT !.delta[p] = [m.delta[p] EXCEPT !.patches[from] = v]]
  BY DEF Manifests

-----------------------------------------------------------------------------
(* The runs. *)

\* What was accepted depends on the manifest alone.
LEMMA AcceptedKept ==
  ASSUME AcceptedStays, UNCHANGED <<manifest, accepted>>
  PROVE  AcceptedStays'
  BY DEF AcceptedStays, Acceptable

LEMMA ReleaseInvStart == ReleaseInit => ReleaseInv
<1> SUFFICES ASSUME ReleaseInit
             PROVE  ReleaseInv
  OBVIOUS
<1>1. ReleaseTypeOK
  <2>1. DOMAIN files = {} /\ run \in 0 .. MaxRuns
    BY ReleaseAssumption DEF ReleaseInit
  <2> QED
    BY <2>1 DEF ReleaseInit, ReleaseTypeOK, NoPatch
<1>2. KnowsRequest /\ AcceptedStays
  BY DEF ReleaseInit, KnowsRequest, AcceptedStays
<1>3. KnowsDirect /\ KnowsEntry /\ KnowsLayer /\ KnowsCopy /\ KnowsOthers
  BY MarkerAssumption
     DEF ReleaseInit, KnowsDirect, KnowsEntry, KnowsLayer, KnowsCopy, KnowsOthers, Drafting
<1> QED
  BY <1>1, <1>2, <1>3 DEF ReleaseInv

\* A run that ends leaves the directory, and knows nothing.
LEMMA ExitKeeps ==
  ASSUME ReleaseInv, Exit, UNCHANGED <<manifest, accepted>>, FilesTyped'
  PROVE  ReleaseInv'
<1>1. ReleaseTypeOK'
  BY DEF ReleaseInv, ReleaseTypeOK, Exit, NoPatch, FilesTyped
<1>2. KnowsRequest'
  BY DEF ReleaseInv, KnowsRequest, Exit
<1>3. KnowsDirect' /\ KnowsEntry' /\ KnowsLayer' /\ KnowsCopy' /\ KnowsOthers'
  BY DEF ReleaseInv, KnowsDirect, KnowsEntry, KnowsLayer, KnowsCopy, KnowsOthers, Drafting,
         Exit
<1>4. AcceptedStays'
  BY AcceptedKept DEF ReleaseInv
<1> QED
  BY <1>1, <1>2, <1>3, <1>4 DEF ReleaseInv

LEMMA BeginKeeps ==
  ASSUME ReleaseInv, NEW r \in Requests, Begin(r)
  PROVE  ReleaseInv'
<1>1. run' \in 1 .. MaxRuns
  BY ReleaseAssumption DEF ReleaseInv, ReleaseTypeOK, Begin
<1>2. CASE UNCHANGED <<pc, req, index, sig, direct>>
  <2>1. ReleaseTypeOK' /\ KnowsRequest'
    BY <1>1, <1>2 DEF ReleaseInv, ReleaseTypeOK, KnowsRequest, Begin, directory
  <2>2. /\ KnowsDirect' /\ KnowsEntry' /\ KnowsLayer' /\ KnowsCopy' /\ KnowsOthers'
        /\ AcceptedStays'
    BY <1>2, AcceptedKept
       DEF ReleaseInv, KnowsDirect, KnowsEntry, KnowsLayer, KnowsCopy, KnowsOthers, Drafting,
           Begin, directory
  <2> QED
    BY <2>1, <2>2 DEF ReleaseInv
<1>3. CASE /\ manifest # Torn /\ Sensible(r) /\ Signable(IdentityOf(r, run'))
           /\ pc' = "direct" /\ req' = r /\ index' = 1
           /\ sig' = Signature(r, run') /\ direct' = NoPatch
  <2>1. sig' \in Signatures
    <3>1. <<r, run'>> \in {t \in Requests \X (1 .. MaxRuns) : Signable(IdentityOf(t[1], t[2]))}
      BY <1>1, <1>3
    <3> QED
      BY <3>1, <1>3 DEF Signatures
  <2>2. ReleaseTypeOK'
    BY <1>1, <1>3, <2>1 DEF ReleaseInv, ReleaseTypeOK, Begin, directory, NoPatch
  <2>3. KnowsRequest'
    BY <1>1, <1>3 DEF ReleaseInv, KnowsRequest, Begin, directory
  <2>4. r.preds \in Seq(Predecessors)
    BY RequestParts
  <2>5. KnowsDirect'
    BY <1>3, <2>4 DEF KnowsDirect, NoPatch
  <2>6. /\ KnowsEntry' /\ KnowsLayer' /\ KnowsCopy' /\ KnowsOthers' /\ AcceptedStays'
    BY <1>3, AcceptedKept
       DEF ReleaseInv, KnowsEntry, KnowsLayer, KnowsCopy, KnowsOthers, Drafting, Begin,
           directory
  <2> QED
    BY <2>2, <2>3, <2>5, <2>6 DEF ReleaseInv
<1> QED
  BY <1>2, <1>3 DEF Begin

LEMMA MakeDirectKeeps ==
  ASSUME ReleaseInv, MakeDirect
  PROVE  ReleaseInv'
<1>1. /\ pc = "direct" /\ req \in Requests /\ index \in Nat /\ index # 0 /\ FilesTyped
      /\ direct \in [Versions -> DirectPatches \cup {Nil}]
  BY DEF ReleaseInv, ReleaseTypeOK, KnowsRequest, MakeDirect, FilesTyped
<1>2. /\ Pred.from \in Versions /\ Pred.base \in Installers
      /\ index \in DOMAIN req.preds /\ req.preds \in Seq(Predecessors)
      /\ req.installer \in Installers /\ req.urls.patch \in Urls
  BY <1>1, PredParts, RequestParts DEF MakeDirect
<1>3. PICK file \in Diffed(Pred.base, req.installer) :
        /\ files' = Put(Output("direct", Pred.from), file)
        /\ IF file.to # req.installer
           THEN Fail
           ELSE /\ direct' = [direct EXCEPT ![Pred.from] = DirectPatch(file)]
                /\ index' = index + 1
                /\ UNCHANGED <<run, pc, req, sig, draft, layer, proven, omitted, accepted>>
  BY DEF MakeDirect
<1>4. file \in Files /\ file.from = Pred.base
  BY <1>2, DiffedParts DEF Contents
<1>5. Output("direct", Pred.from) \in Outputs
  BY <1>1, <1>2, OutputParts
<1>6. /\ FilesTyped'
      /\ Output("direct", Pred.from) \in DOMAIN files'
      /\ files'[Output("direct", Pred.from)] = file
      /\ \A n : n # Output("direct", Pred.from) /\ n \in DOMAIN files =>
           n \in DOMAIN files' /\ files'[n] = files[n]
  BY <1>1, <1>3, <1>4, <1>5, PutParts
<1>7. CASE Fail
  BY <1>6, <1>7, ExitKeeps DEF Fail, MakeDirect
<1>8. CASE /\ file.to = req.installer
           /\ direct' = [direct EXCEPT ![Pred.from] = DirectPatch(file)]
           /\ index' = index + 1
           /\ UNCHANGED <<run, pc, req, sig, draft, layer, proven, omitted, accepted>>
  <2>1. DirectPatch(file) \in DirectPatches /\ DirectPatch(file) # Nil
    BY <1>2, <1>4, MarkerAssumption DEF DirectPatch, DirectPatches
  <2>2. ReleaseTypeOK'
    BY <1>1, <1>2, <1>6, <1>8, <2>1
       DEF ReleaseInv, ReleaseTypeOK, FilesTyped, MakeDirect
  <2>3. KnowsRequest' /\ AcceptedStays'
    BY <1>1, <1>8, AcceptedKept DEF ReleaseInv, KnowsRequest, MakeDirect
  <2>4. ASSUME NEW i \in DOMAIN req.preds, i < index + 1
        PROVE  direct'[req.preds[i].from] # Nil
    <3>1. i \in Nat /\ req.preds[i].from \in Versions
      <4>1. req.preds[i] \in Predecessors /\ i \in 1 .. Len(req.preds)
        BY <1>2
      <4> QED
        BY <4>1 DEF Predecessors
    <3>2. CASE i < index
      <4>1. direct[req.preds[i].from] # Nil
        BY <3>2, <1>1 DEF ReleaseInv, KnowsDirect
      <4> QED
        BY <4>1, <3>1, <1>1, <1>2, <1>8, <2>1
    <3>3. CASE i = index
      BY <3>3, <1>1, <1>2, <1>8, <2>1 DEF Pred
    <3> QED
      BY <3>1, <3>2, <3>3, <2>4, <1>1
  <2>5. ASSUME NEW from \in Versions, direct'[from] # Nil
        PROVE  DirectMade(direct[from], from)'
    <3>1. CASE from = Pred.from
      <4>1. direct'[from] = DirectPatch(file)
        BY <3>1, <1>1, <1>2, <1>8
      <4>2. file = [from |-> Pred.base, to |-> req.installer]
        BY <1>4, <1>8 DEF Files
      <4>3. direct'[from].file = file /\ direct'[from].base = Pred.base
        BY <4>1 DEF DirectPatch
      <4>4. Output("direct", from)' = Output("direct", from)
        BY <1>8 DEF Output
      <4> QED
        BY <4>2, <4>3, <4>4, <3>1, <1>6, <1>8 DEF DirectMade, OnDisk
    <3>2. CASE from # Pred.from
      <4>1. direct'[from] = direct[from]
        BY <3>2, <1>1, <1>2, <1>8
      <4>2. DirectMade(direct[from], from)
        BY <4>1, <2>5, <1>1 DEF ReleaseInv, KnowsDirect
      <4>3. Output("direct", from) # Output("direct", Pred.from)
        BY <3>2, OutputsDiffer
      <4>4. Output("direct", from)' = Output("direct", from)
        BY <1>8 DEF Output
      <4> QED
        BY <4>1, <4>2, <4>3, <4>4, <1>6, <1>8 DEF DirectMade, OnDisk
    <3> QED
      BY <3>1, <3>2
  <2>6. KnowsDirect'
    <3>1. req' = req /\ index' = index + 1
      BY <1>8
    <3> QED
      BY <2>4, <2>5, <3>1 DEF KnowsDirect
  <2>7. KnowsEntry' /\ KnowsLayer' /\ KnowsCopy' /\ KnowsOthers'
    BY <1>1, <1>8
       DEF ReleaseInv, KnowsEntry, KnowsLayer, KnowsCopy, KnowsOthers, Drafting, MakeDirect
  <2> QED
    BY <2>2, <2>3, <2>6, <2>7 DEF ReleaseInv
<1> QED
  BY <1>3, <1>7, <1>8

\* What a run under way has: its request, its signature, a manifest that parses.
LEMMA RunParts ==
  ASSUME ReleaseInv, pc # "idle"
  PROVE  /\ req \in Requests /\ Sensible(req) /\ index \in Nat /\ index # 0
         /\ sig \in Signatures /\ sig.over = req.installer
         /\ manifest \in Manifests \cup {Nil} /\ FilesTyped
<1>1. PICK n \in 1 .. MaxRuns : sig = Signature(req, n) /\ Signable(IdentityOf(req, n))
  BY DEF ReleaseInv, KnowsRequest
<1>2. /\ req \in Requests /\ Sensible(req) /\ index \in Nat /\ index # 0
      /\ manifest \in Manifests \cup {Nil} /\ FilesTyped
  BY DEF ReleaseInv, ReleaseTypeOK, KnowsRequest, FilesTyped
<1>3. <<req, n>> \in {t \in Requests \X (1 .. MaxRuns) : Signable(IdentityOf(t[1], t[2]))}
  BY <1>1, <1>2
<1>4. sig \in Signatures
  BY <1>1, <1>3 DEF Signatures
<1> QED
  BY <1>1, <1>2, <1>4 DEF Signature

\* The platform's entry in a draft is described by its parts: what a step leaves of
\* them stays true, if the patch files it speaks of are left alone.
LEMMA Redrafted ==
  ASSUME ReleaseInv, Drafting, Drafting', UNCHANGED <<manifest, req, sig>>, NEW e \in Entries,
         draft' \in Manifests, draft'.version = draft.version, draft'.full = draft.full,
         draft'.delta[req.platform] = e,
         \A q \in Platforms : q # req.platform => draft'.delta[q] = draft.delta[q],
         e.target = Entry.target, e.sig = Entry.sig, LayerSound(e.layer),
         \A from \in Asked : e.patches[from] # Nil =>
           /\ e.patches[from] = Entry.patches[from]
           /\ Output("direct", from) \in DOMAIN files =>
                /\ Output("direct", from) \in DOMAIN files'
                /\ files'[Output("direct", from)] = files[Output("direct", from)]
  PROVE  /\ KnowsEntry' /\ LayersSound(draft)'
         /\ manifest \in Manifests /\ manifest.version = draft'.version =>
              \A p \in Platforms : p # req.platform =>
                draft'.full[p] = manifest.full[p] /\ draft'.delta[p] = manifest.delta[p]
<1>1. /\ pc # "idle" /\ draft \in Manifests /\ draft.version = req.version
      /\ draft.full[req.platform] = Full
      /\ Entry # Nil /\ Entry.target = req.installer /\ Entry.sig = sig
      /\ \A from \in Asked : Entry.patches[from] # Nil => DirectMade(Entry.patches[from], from)
      /\ LayersSound(draft)
  BY DEF ReleaseInv, KnowsEntry, KnowsLayer, Drafting
<1>2. Entry' = e /\ Asked' = Asked /\ Full' = Full /\ e # Nil
      /\ req.platform \in Platforms
  BY <1>1, EntryParts, RunParts, RequestParts DEF Entry, Asked, Full
<1>3. ASSUME NEW from \in Asked, e.patches[from] # Nil
      PROVE  DirectMade(Entry.patches[from], from)'
  <2>1. DirectMade(e.patches[from], from)
    BY <1>1, <1>3
  <2>2. Output("direct", from)' = Output("direct", from) /\ Entry'.patches[from] = e.patches[from]
    BY <1>2 DEF Output
  <2> QED
    BY <2>1, <2>2, <1>3 DEF DirectMade, OnDisk
<1>4. KnowsEntry'
  <2>1. \A from \in Asked' : Entry'.patches[from] # Nil => DirectMade(Entry.patches[from], from)'
    BY <1>2, <1>3
  <2> QED
    BY <1>1, <1>2, <2>1 DEF KnowsEntry
<1>5. LayersSound(draft)'
  BY <1>1, <1>2 DEF LayersSound, LayerSound
<1>6. manifest \in Manifests /\ manifest.version = draft'.version =>
        \A p \in Platforms : p # req.platform =>
          draft'.full[p] = manifest.full[p] /\ draft'.delta[p] = manifest.delta[p]
  BY DEF ReleaseInv, KnowsOthers
<1> QED
  BY <1>4, <1>5, <1>6

\* The platform's entry while a run drafts it.
LEMMA DraftParts ==
  ASSUME ReleaseInv, Drafting
  PROVE  /\ draft \in Manifests /\ Entry \in Entries /\ LayerSound(Entry.layer)
         /\ req.platform \in Platforms /\ draft.delta[req.platform] = Entry
<1>1. pc # "idle" /\ draft \in Manifests /\ Entry # Nil /\ LayersSound(draft)
  BY DEF ReleaseInv, KnowsEntry, KnowsLayer, Drafting
<1>2. req.platform \in Platforms
  BY <1>1, RunParts, RequestParts
<1> QED
  BY <1>1, <1>2 DEF Manifests, Entry, LayersSound

\* The manifest a run extends, and its platform's entry in it.
LEMMA FoundParts ==
  ASSUME ReleaseInv, pc = "direct"
  PROVE  /\ Found \in Manifests /\ Found.version = req.version /\ LayersSound(Found)
         /\ manifest \in Manifests /\ manifest.version = req.version => Found = manifest
         /\ Kept \in Entries /\ LayerSound(Kept.layer)
<1>1. /\ req \in Requests /\ sig \in Signatures /\ manifest \in Manifests \cup {Nil}
      /\ req.platform \in Platforms /\ req.version \in Versions /\ req.installer \in Installers
  BY RunParts, RequestParts
<1>2. /\ Found \in Manifests /\ Found.version = req.version
      /\ manifest \in Manifests /\ manifest.version = req.version => Found = manifest
  BY <1>1, MarkerAssumption DEF Found, Manifests
<1>3. LayersSound(Found)
  <2>1. CASE manifest # Nil /\ manifest.version = req.version
    BY <2>1, <1>1 DEF Found, ReleaseInv, KnowsLayer
  <2>2. CASE ~(manifest # Nil /\ manifest.version = req.version)
    BY <2>2 DEF Found, LayersSound
  <2> QED
    BY <2>1, <2>2
<1>4. Kept \in Entries /\ LayerSound(Kept.layer)
  <2>1. CASE Found.delta[req.platform] # Nil
    BY <2>1, <1>1, <1>2, <1>3 DEF Kept, Manifests, LayersSound
  <2>2. CASE Found.delta[req.platform] = Nil
    BY <2>2, <1>1 DEF Kept, Entries, NoPatch, LayerSound
  <2> QED
    BY <2>1, <2>2
<1> QED
  BY <1>2, <1>3, <1>4

LEMMA FoldKeeps ==
  ASSUME ReleaseInv, Fold
  PROVE  ReleaseInv'
<1> DEFINE e == [Kept EXCEPT !.version = req.version, !.target = req.installer, !.sig = sig,
                             !.patches = Merged(Kept.patches, direct)]
<1>1. /\ pc = "direct" /\ ~Left /\ pc' = "tar" /\ index' = 1
      /\ draft' = [Found EXCEPT !.full[req.platform] = Full, !.delta[req.platform] = e]
      /\ layer' = Kept.layer /\ proven' = FALSE
      /\ UNCHANGED <<manifest, files, run, req, sig, direct, omitted, accepted>>
  BY DEF Fold, directory
<1>2. /\ req \in Requests /\ sig \in Signatures /\ index \in Nat
      /\ req.platform \in Platforms /\ req.version \in Versions /\ req.installer \in Installers
      /\ req.urls.installer \in Urls /\ req.preds \in Seq(Predecessors)
      /\ direct \in [Versions -> DirectPatches \cup {Nil}]
  BY <1>1, RunParts, RequestParts DEF ReleaseInv, ReleaseTypeOK
<1>3. /\ Found \in Manifests /\ Found.version = req.version /\ LayersSound(Found)
      /\ manifest \in Manifests /\ manifest.version = req.version => Found = manifest
      /\ Kept \in Entries /\ LayerSound(Kept.layer)
  BY <1>1, FoundParts
<1>4. Full \in Fulls
  BY <1>2 DEF Full, Fulls
<1>5. Merged(Kept.patches, direct) \in [Versions -> DirectPatches \cup {Nil}]
  BY <1>2, <1>3, EntryParts DEF Merged
<1>6. /\ e \in Entries /\ e.target = req.installer /\ e.sig = sig
      /\ e.patches = Merged(Kept.patches, direct) /\ e.layer = Kept.layer
  BY <1>2, <1>3, <1>5 DEF Entries
<1>7. /\ draft' \in Manifests /\ draft'.version = req.version
      /\ draft'.full[req.platform] = Full /\ draft'.delta[req.platform] = e
      /\ \A q \in Platforms : q # req.platform =>
           draft'.full[q] = Found.full[q] /\ draft'.delta[q] = Found.delta[q]
  <2> HIDE DEF e
  <2> QED
    BY <1>1, <1>2, <1>3, <1>4, <1>6 DEF Manifests
<1> HIDE DEF e
<1>8. ReleaseTypeOK'
  <2>1. layer' \in Layers \cup {Nil}
    BY <1>1, <1>3, EntryParts
  <2> QED
    BY <1>1, <1>7, <2>1 DEF ReleaseInv, ReleaseTypeOK
<1>9. KnowsRequest' /\ KnowsDirect' /\ KnowsCopy' /\ AcceptedStays'
  BY <1>1, AcceptedKept DEF ReleaseInv, KnowsRequest, KnowsDirect, KnowsCopy
<1>10. ASSUME NEW from \in Asked, e.patches[from] # Nil
       PROVE  DirectMade(Entry.patches[from], from)'
  <2>1. PICK i \in DOMAIN req.preds : from = req.preds[i].from
    BY DEF Asked
  <2>2. i \in 1 .. Len(req.preds) /\ i < index /\ from \in Versions
    <3>1. i \in 1 .. Len(req.preds) /\ Len(req.preds) \in Nat /\ from \in Versions
      BY <1>2, <2>1, AskedParts
    <3> QED
      BY <3>1, <1>1, <1>2 DEF Left
  <2>3. direct[from] # Nil /\ DirectMade(direct[from], from)
    BY <2>1, <2>2, <1>1 DEF ReleaseInv, KnowsDirect
  <2>4. Entry'.patches[from] = direct[from]
    BY <1>1, <1>6, <1>7, <2>2, <2>3 DEF Merged, Entry
  <2>5. Output("direct", from)' = Output("direct", from)
    BY <1>1 DEF Output
  <2> QED
    BY <2>3, <2>4, <2>5, <1>1 DEF DirectMade, OnDisk
<1>11. KnowsEntry'
  <2>1. Entry' = e /\ Asked' = Asked /\ Full' = Full
    BY <1>1, <1>7 DEF Entry, Asked, Full
  <2>2. \A from \in Asked' : Entry'.patches[from] # Nil => DirectMade(Entry.patches[from], from)'
    BY <2>1, <1>10
  <2> QED
    BY <1>1, <1>6, <1>7, <2>1, <2>2, EntryParts DEF KnowsEntry
<1>12. KnowsLayer'
  <2>1. LayersSound(draft)'
    BY <1>1, <1>2, <1>3, <1>6, <1>7 DEF LayersSound
  <2>2. LayerSound(layer)'
    BY <1>1, <1>3 DEF LayerSound
  <2> QED
    BY <1>1, <2>1, <2>2 DEF ReleaseInv, KnowsLayer, LayersSound, LayerSound
<1>13. KnowsOthers'
  BY <1>1, <1>3, <1>7 DEF KnowsOthers
<1> QED
  BY <1>8, <1>9, <1>11, <1>12, <1>13 DEF ReleaseInv

\* While tar patches are made, the draft is left alone, and so are the direct
\* patches.
LEMMA TarStep ==
  ASSUME ReleaseInv, pc = "tar", pc' = "tar",
         UNCHANGED <<manifest, run, req, sig, direct, draft, omitted, accepted>>,
         index' = index + 1, proven' \in BOOLEAN, layer' \in Layers \cup {Nil}, FilesTyped',
         \A n : n.kind = "direct" /\ n \in DOMAIN files => n \in DOMAIN files' /\ files'[n] = files[n],
         LayerSound(layer'), proven' => LayerProven(layer'), proven' \/ layer' = Nil
  PROVE  ReleaseInv'
<1>1. Drafting /\ Drafting' /\ index \in Nat /\ index # 0 /\ UNCHANGED <<manifest, req, sig>>
  BY RunParts DEF Drafting
<1>2. /\ draft \in Manifests /\ Entry \in Entries /\ LayerSound(Entry.layer)
      /\ draft.delta[req.platform] = Entry
  BY <1>1, DraftParts
<1>3. \A from : Output("direct", from) \in DOMAIN files =>
        /\ Output("direct", from) \in DOMAIN files'
        /\ files'[Output("direct", from)] = files[Output("direct", from)]
  BY DEF Output
<1>4. /\ KnowsEntry' /\ LayersSound(draft)'
      /\ manifest \in Manifests /\ manifest.version = draft'.version =>
           \A p \in Platforms : p # req.platform =>
             draft'.full[p] = manifest.full[p] /\ draft'.delta[p] = manifest.delta[p]
  BY <1>1, <1>2, <1>3, Redrafted
<1>5. ReleaseTypeOK'
  BY <1>1, <1>2 DEF ReleaseInv, ReleaseTypeOK, FilesTyped
<1>6. KnowsRequest' /\ KnowsDirect' /\ KnowsCopy' /\ AcceptedStays'
  BY <1>1, AcceptedKept DEF ReleaseInv, KnowsRequest, KnowsDirect, KnowsCopy
<1>7. KnowsLayer'
  <2>1. manifest' \in Manifests => LayersSound(manifest')
    BY DEF ReleaseInv, KnowsLayer
  <2>2. proven' => LayerProven(layer)'
    BY DEF LayerProven
  <2> QED
    BY <1>4, <2>1, <2>2 DEF KnowsLayer
<1>8. KnowsOthers'
  BY <1>4 DEF KnowsOthers
<1> QED
  BY <1>4, <1>5, <1>6, <1>7, <1>8 DEF ReleaseInv

\* The layer with one more patch that rebuilds its target.
LEMMA ExtendedParts ==
  ASSUME ReleaseInv, pc = "tar", Left, Patchable, NEW file \in Files,
         file.from = TarOf[Pred.base], RoundTrips(file)
  PROVE  /\ Extended(file) \in Layers /\ LayerSound(Extended(file))
         /\ LayerProven(Extended(file))
<1> DEFINE kept == IF layer # Nil /\ layer.target = TarOf[req.installer] THEN layer
                   ELSE [target |-> TarOf[req.installer], patches |-> NoPatch]
           patch == [installer |-> Pred.base, tar |-> TarOf[Pred.base], file |-> file,
                     url |-> req.urls.tar]
<1>1. /\ req \in Requests /\ req.installer \in Installers /\ req.urls.tar \in Urls
      /\ Pred.from \in Versions /\ Pred.base \in Installers
      /\ layer \in Layers \cup {Nil} /\ LayerSound(layer)
  BY RunParts, RequestParts, PredParts DEF ReleaseInv, ReleaseTypeOK, KnowsLayer
<1>2. TarOf[req.installer] \in Tars /\ TarOf[Pred.base] \in Tars
  BY <1>1, ReleaseAssumption DEF Patchable, Tarball
<1>3. patch \in TarPatches /\ patch # Nil
  BY <1>1, <1>2, MarkerAssumption DEF TarPatches
<1>4. kept \in Layers /\ kept.target = TarOf[req.installer] /\ LayerSound(kept)
  BY <1>1, <1>2 DEF Layers, LayerSound, NoPatch
<1>5. Extended(file) = [kept EXCEPT !.patches[Pred.from] = patch]
  BY DEF Extended
<1>6. file = [from |-> patch.tar, to |-> TarOf[req.installer]] /\ patch.file = file
      /\ Recompressed[TarOf[req.installer]] = req.installer
  BY DEF Files, RoundTrips
<1> HIDE DEF kept, patch
<1>7. /\ Extended(file) \in Layers /\ Extended(file).target = TarOf[req.installer]
      /\ Extended(file).patches[Pred.from] = patch
      /\ \A from \in Versions : from # Pred.from => Extended(file).patches[from] = kept.patches[from]
  BY <1>1, <1>3, <1>4, <1>5 DEF Layers
<1>8. LayerSound(Extended(file))
  <2>1. kept # Nil
    BY <1>4, MarkerAssumption
  <2> QED
    BY <1>4, <1>6, <1>7, <2>1 DEF LayerSound
<1> QED
  BY <1>6, <1>7, <1>8 DEF LayerProven

LEMMA MakeTarKeeps ==
  ASSUME ReleaseInv, MakeTar
  PROVE  ReleaseInv'
<1>1. /\ pc = "tar" /\ req.tar # "no" /\ Left /\ UNCHANGED manifest
      /\ req \in Requests /\ index \in Nat /\ index # 0 /\ FilesTyped
      /\ layer \in Layers \cup {Nil} /\ proven \in BOOLEAN
      /\ LayerSound(layer) /\ (proven => LayerProven(layer))
  BY RunParts DEF MakeTar, ReleaseInv, ReleaseTypeOK, KnowsLayer
<1>2. ASSUME TarSkipped, FilesTyped',
             \A n : n.kind = "direct" /\ n \in DOMAIN files => n \in DOMAIN files' /\ files'[n] = files[n]
      PROVE  ReleaseInv'
  <2>1. CASE Fail
    BY <2>1, <1>1, <1>2, ExitKeeps DEF Fail
  <2>2. CASE /\ layer' = (IF proven THEN layer ELSE Nil)
             /\ index' = index + 1
             /\ UNCHANGED <<run, pc, req, sig, direct, draft, proven, omitted, accepted>>
    <3>1. layer' \in Layers \cup {Nil} /\ LayerSound(layer') /\ proven' \in BOOLEAN
      BY <2>2, <1>1 DEF LayerSound
    <3>2. (proven' => LayerProven(layer')) /\ (proven' \/ layer' = Nil)
      BY <2>2, <1>1
    <3> QED
      BY <3>1, <3>2, <2>2, <1>1, <1>2, TarStep
  <2> QED
    BY <2>1, <2>2, <1>2 DEF TarSkipped
<1>3. CASE TarSkipped /\ UNCHANGED files
  <2>1. FilesTyped'
    BY <1>1, <1>3 DEF FilesTyped
  <2> QED
    BY <2>1, <1>2, <1>3
<1>4. ASSUME Patchable, NEW file \in Diffed(TarOf[Pred.base], TarOf[req.installer]),
             files' = Put(Output("tar", Pred.from), file),
             IF ~RoundTrips(file)
             THEN TarSkipped
             ELSE /\ layer' = Extended(file) /\ proven' = TRUE
                  /\ index' = index + 1
                  /\ UNCHANGED <<run, pc, req, sig, direct, draft, omitted, accepted>>
      PROVE  ReleaseInv'
  <2>1. /\ Pred.from \in Versions /\ Pred.base \in Installers /\ req.installer \in Installers
    BY <1>1, PredParts, RequestParts
  <2>2. TarOf[req.installer] \in Tars /\ TarOf[Pred.base] \in Tars
    BY <2>1, <1>4, ReleaseAssumption DEF Patchable, Tarball
  <2>3. file \in Files /\ file.from = TarOf[Pred.base]
    BY <2>2, <1>4, DiffedParts DEF Contents
  <2>4. Output("tar", Pred.from) \in Outputs /\ Output("tar", Pred.from).kind = "tar"
    BY <1>1, <2>1, OutputParts DEF Output
  <2>5. /\ FilesTyped'
        /\ \A n : n # Output("tar", Pred.from) /\ n \in DOMAIN files =>
             n \in DOMAIN files' /\ files'[n] = files[n]
    BY <1>1, <1>4, <2>3, <2>4, PutParts
  <2>6. \A n : n.kind = "direct" /\ n \in DOMAIN files => n \in DOMAIN files' /\ files'[n] = files[n]
    BY <2>4, <2>5
  <2>7. CASE TarSkipped
    BY <2>5, <2>6, <2>7, <1>2
  <2>8. CASE /\ RoundTrips(file)
             /\ layer' = Extended(file) /\ proven' = TRUE
             /\ index' = index + 1
             /\ UNCHANGED <<run, pc, req, sig, direct, draft, omitted, accepted>>
    <3>1. layer' \in Layers \cup {Nil} /\ LayerSound(layer') /\ LayerProven(layer')
      BY <1>1, <1>4, <2>3, <2>8, ExtendedParts
    <3> QED
      BY <3>1, <2>5, <2>6, <2>8, <1>1, TarStep
  <2> QED
    BY <1>4, <2>7, <2>8
<1> QED
  BY <1>3, <1>4 DEF MakeTar

\* Any other step over a draft, which does not touch the layers.
LEMMA DraftStep ==
  ASSUME ReleaseInv, Drafting, Drafting', pc' # "tar", pc' # "check", FilesTyped',
         UNCHANGED <<manifest, run, req, sig, direct, layer, proven, accepted>>,
         index' \in Nat, index' # 0, omitted' \subseteq Versions,
         KnowsEntry', LayersSound(draft)', KnowsCopy',
         manifest \in Manifests /\ manifest.version = draft'.version =>
           \A p \in Platforms : p # req.platform =>
             draft'.full[p] = manifest.full[p] /\ draft'.delta[p] = manifest.delta[p],
         pc' \in {"copy", "write"} => Valid(draft'),
         req.tar # "no" => LayerProven(Entry'.layer)
  PROVE  ReleaseInv'
<1>1. pc # "idle" /\ pc' \notin {"idle", "direct", "check"}
  BY DEF Drafting
<1>2. ReleaseTypeOK'
  <2>1. draft' \in Manifests
    BY DEF KnowsEntry
  <2>2. pc' \in {"tar", "trim", "copy", "write", "check"}
    BY DEF Drafting
  <2> QED
    BY <2>1, <2>2 DEF ReleaseInv, ReleaseTypeOK, FilesTyped
<1>3. KnowsRequest'
  BY <1>1 DEF ReleaseInv, KnowsRequest
<1>4. KnowsDirect' /\ AcceptedStays'
  BY <1>1, AcceptedKept DEF ReleaseInv, KnowsDirect
<1>5. KnowsLayer'
  <2>1. manifest' \in Manifests => LayersSound(manifest)'
    BY DEF ReleaseInv, KnowsLayer, LayersSound, LayerSound
  <2>2. req'.tar # "no" => LayerProven(Entry.layer)'
    BY DEF LayerProven
  <2> QED
    BY <2>1, <2>2 DEF KnowsLayer
<1>6. KnowsOthers'
  BY <1>1 DEF KnowsOthers
<1> QED
  BY <1>2, <1>3, <1>4, <1>5, <1>6 DEF ReleaseInv

LEMMA AttachKeeps ==
  ASSUME ReleaseInv, Attach
  PROVE  ReleaseInv'
<1> DEFINE e == [Entry EXCEPT !.layer = layer]
           built == [draft EXCEPT !.delta[req.platform].layer = layer]
<1>1. /\ pc = "tar" /\ (req.tar = "no" \/ ~Left) /\ UNCHANGED <<manifest, files>>
      /\ IF Valid(built)
         THEN /\ draft' = built /\ pc' = "trim" /\ index' = 1 /\ omitted' = {}
              /\ UNCHANGED <<run, req, sig, direct, layer, proven, accepted>>
         ELSE Fail
  BY DEF Attach, directory
<1>2. /\ Drafting /\ req \in Requests /\ index \in Nat /\ index # 0 /\ FilesTyped
      /\ draft \in Manifests /\ Entry \in Entries /\ req.platform \in Platforms
      /\ draft.delta[req.platform] = Entry
      /\ layer \in Layers \cup {Nil} /\ LayerSound(layer) /\ (proven => LayerProven(layer))
  BY <1>1, RunParts, DraftParts DEF Drafting, ReleaseInv, ReleaseTypeOK, KnowsLayer
<1>3. FilesTyped'
  BY <1>1, <1>2 DEF FilesTyped
<1>4. CASE Fail
  BY <1>1, <1>3, <1>4, ExitKeeps DEF Fail
<1>5. CASE /\ draft' = built /\ pc' = "trim" /\ index' = 1 /\ omitted' = {}
           /\ UNCHANGED <<run, req, sig, direct, layer, proven, accepted>>
  <2>1. /\ e \in Entries /\ e.layer = layer
        /\ e.target = Entry.target /\ e.sig = Entry.sig /\ e.patches = Entry.patches
    BY <1>2 DEF Entries
  <2>2. built = [draft EXCEPT !.delta[req.platform] = e]
    BY <1>2, PartReplaced
  <2>3. /\ draft' \in Manifests /\ draft'.version = draft.version /\ draft'.full = draft.full
        /\ draft'.delta[req.platform] = e
        /\ \A q \in Platforms : q # req.platform => draft'.delta[q] = draft.delta[q]
    <3> HIDE DEF e
    <3>1. draft' = [draft EXCEPT !.delta[req.platform] = e]
      BY <1>5, <2>2
    <3> QED
      BY <1>2, <2>1, <3>1 DEF Manifests
  <2> HIDE DEF e, built
  <2>4. Drafting' /\ pc' \notin {"tar", "check", "copy", "write"}
    BY <1>5 DEF Drafting
  <2>5. /\ KnowsEntry' /\ LayersSound(draft)'
        /\ manifest \in Manifests /\ manifest.version = draft'.version =>
             \A p \in Platforms : p # req.platform =>
               draft'.full[p] = manifest.full[p] /\ draft'.delta[p] = manifest.delta[p]
    BY <1>1, <1>2, <1>5, <2>1, <2>3, <2>4, Redrafted
  <2>6. req.tar # "no" => LayerProven(Entry'.layer)
    <3>1. Entry' = e
      BY <1>5, <2>3 DEF Entry
    <3>2. ASSUME req.tar # "no"
          PROVE  index # 1
      <4>1. req.preds # << >> /\ req.preds \in Seq(Predecessors)
        BY <1>2, <3>2, RequestParts
      <4>2. Len(req.preds) \in Nat /\ Len(req.preds) # 0
        BY <4>1
      <4> QED
        BY <4>2, <1>1, <1>2, <3>2 DEF Left
    <3>3. req.tar # "no" => proven \/ layer = Nil
      BY <3>2, <1>1 DEF ReleaseInv, KnowsLayer
    <3> QED
      BY <3>1, <3>3, <2>1, <1>2 DEF LayerProven
  <2>7. KnowsCopy'
    BY <2>4 DEF KnowsCopy
  <2> QED
    BY <1>1, <1>2, <1>3, <1>5, <2>4, <2>5, <2>6, <2>7, DraftStep
<1> QED
  BY <1>1, <1>4, <1>5

LEMMA TrimKeeps ==
  ASSUME ReleaseInv, Trim
  PROVE  ReleaseInv'
<1> DEFINE e == [Entry EXCEPT !.patches[Pred.from] = Nil]
<1>1. /\ pc = "trim" /\ Left /\ index' = index + 1 /\ pc' = "trim"
      /\ UNCHANGED <<manifest, run, pc, req, sig, direct, layer, proven, accepted>>
  BY DEF Trim
<1>2. /\ Drafting /\ Drafting' /\ req \in Requests /\ index \in Nat /\ index # 0 /\ FilesTyped
      /\ draft \in Manifests /\ Entry \in Entries /\ req.platform \in Platforms
      /\ draft.delta[req.platform] = Entry /\ LayerSound(Entry.layer)
      /\ Pred.from \in Versions /\ Asked \subseteq Versions /\ omitted \subseteq Versions
  BY <1>1, RunParts, DraftParts, PredParts, AskedParts DEF Drafting, ReleaseInv, ReleaseTypeOK
<1>3. req.tar # "no" => LayerProven(Entry.layer)
  BY <1>1 DEF ReleaseInv, KnowsLayer
<1>4. ASSUME NEW d \in Entries, draft' \in Manifests, draft'.version = draft.version,
             draft'.full = draft.full, draft'.delta[req.platform] = d,
             \A q \in Platforms : q # req.platform => draft'.delta[q] = draft.delta[q],
             d.target = Entry.target, d.sig = Entry.sig, d.layer = Entry.layer,
             \A from \in Asked : d.patches[from] # Nil =>
               /\ d.patches[from] = Entry.patches[from]
               /\ Output("direct", from) \in DOMAIN files =>
                    /\ Output("direct", from) \in DOMAIN files'
                    /\ files'[Output("direct", from)] = files[Output("direct", from)],
             FilesTyped', omitted' \subseteq Versions
      PROVE  ReleaseInv'
  <2>1. UNCHANGED <<manifest, req, sig>> /\ LayerSound(d.layer)
    BY <1>1, <1>2, <1>4
  <2>2. /\ KnowsEntry' /\ LayersSound(draft)'
        /\ manifest \in Manifests /\ manifest.version = draft'.version =>
             \A p \in Platforms : p # req.platform =>
               draft'.full[p] = manifest.full[p] /\ draft'.delta[p] = manifest.delta[p]
    BY <1>2, <1>4, <2>1, Redrafted
  <2>3. Entry' = d
    BY <1>1, <1>4 DEF Entry
  <2>4. req.tar # "no" => LayerProven(Entry'.layer)
    BY <1>3, <1>4, <2>3
  <2>5. KnowsCopy' /\ pc' \notin {"tar", "check", "copy", "write"}
    BY <1>1 DEF KnowsCopy
  <2> QED
    BY <1>1, <1>2, <1>4, <2>2, <2>4, <2>5, DraftStep
<1>5. CASE UNCHANGED <<files, draft, omitted>>
  <2>1. FilesTyped'
    BY <1>2, <1>5 DEF FilesTyped
  <2> QED
    BY <1>2, <1>4, <1>5, <2>1
<1>6. CASE /\ files' = Without(Output("direct", Pred.from))
           /\ draft' = [draft EXCEPT !.delta[req.platform].patches[Pred.from] = Nil]
           /\ omitted' = omitted \cup {Pred.from}
  <2>1. /\ e \in Entries /\ e.patches[Pred.from] = Nil
        /\ \A f \in Versions : f # Pred.from => e.patches[f] = Entry.patches[f]
        /\ e.target = Entry.target /\ e.sig = Entry.sig /\ e.layer = Entry.layer
    BY <1>2 DEF Entries
  <2>2. draft' = [draft EXCEPT !.delta[req.platform] = e]
    BY <1>2, <1>6, PartReplaced
  <2> HIDE DEF e
  <2>3. /\ draft' \in Manifests /\ draft'.version = draft.version /\ draft'.full = draft.full
        /\ draft'.delta[req.platform] = e
        /\ \A q \in Platforms : q # req.platform => draft'.delta[q] = draft.delta[q]
    BY <1>2, <2>1, <2>2 DEF Manifests
  <2>4. /\ FilesTyped'
        /\ \A n : n # Output("direct", Pred.from) /\ n \in DOMAIN files =>
             n \in DOMAIN files' /\ files'[n] = files[n]
    BY <1>2, <1>6, WithoutParts
  <2>5. ASSUME NEW from \in Asked, e.patches[from] # Nil
        PROVE  /\ e.patches[from] = Entry.patches[from]
               /\ Output("direct", from) \in DOMAIN files =>
                    /\ Output("direct", from) \in DOMAIN files'
                    /\ files'[Output("direct", from)] = files[Output("direct", from)]
    <3>1. from # Pred.from /\ from \in Versions
      BY <1>2, <2>1, <2>5
    <3>2. Output("direct", from) # Output("direct", Pred.from)
      BY <3>1, OutputsDiffer
    <3> QED
      BY <3>1, <3>2, <2>1, <2>4
  <2>6. omitted' \subseteq Versions
    BY <1>2, <1>6
  <2> QED
    BY <1>4, <2>1, <2>3, <2>4, <2>5, <2>6
<1> QED
  BY <1>5, <1>6 DEF Trim

LEMMA TrimmedKeeps ==
  ASSUME ReleaseInv, Trimmed
  PROVE  ReleaseInv'
<1>1. /\ pc = "trim" /\ UNCHANGED <<manifest, files>>
      /\ IF Valid(draft) /\ (req.strict => omitted = {})
         THEN pc' = "copy" /\ UNCHANGED <<run, req, index, work, accepted>>
         ELSE Fail
  BY DEF Trimmed, directory
<1>2. /\ Drafting /\ index \in Nat /\ index # 0 /\ FilesTyped
      /\ draft \in Manifests /\ Entry \in Entries /\ LayerSound(Entry.layer)
      /\ draft.delta[req.platform] = Entry /\ omitted \subseteq Versions
  BY <1>1, RunParts, DraftParts DEF Drafting, ReleaseInv, ReleaseTypeOK
<1>3. FilesTyped'
  BY <1>1, <1>2 DEF FilesTyped
<1>4. CASE Fail
  BY <1>1, <1>3, <1>4, ExitKeeps DEF Fail
<1>5. CASE Valid(draft) /\ pc' = "copy" /\ UNCHANGED <<run, req, index, work, accepted>>
  <2>1. Drafting' /\ UNCHANGED <<sig, direct, draft, layer, proven, omitted>>
    BY <1>5 DEF Drafting, work
  <2>2. /\ KnowsEntry' /\ LayersSound(draft)'
        /\ manifest \in Manifests /\ manifest.version = draft'.version =>
             \A p \in Platforms : p # req.platform =>
               draft'.full[p] = manifest.full[p] /\ draft'.delta[p] = manifest.delta[p]
    BY <1>1, <1>2, <1>5, <2>1, Redrafted
  <2>3. req.tar # "no" => LayerProven(Entry'.layer)
    <3>1. Entry' = Entry
      BY <1>5, <2>1 DEF Entry
    <3> QED
      BY <3>1, <1>1 DEF ReleaseInv, KnowsLayer
  <2>4. KnowsCopy' /\ pc' \notin {"tar", "check"} /\ Valid(draft')
    BY <1>5, <2>1 DEF KnowsCopy
  <2> QED
    BY <1>1, <1>2, <1>3, <1>5, <2>1, <2>2, <2>3, <2>4, DraftStep
<1> QED
  BY <1>1, <1>4, <1>5

LEMMA CopyKeeps ==
  ASSUME ReleaseInv, Copy
  PROVE  ReleaseInv'
<1>1. pc = "copy" /\ UNCHANGED manifest
  BY DEF Copy
<1>2. /\ Drafting /\ req \in Requests /\ index \in Nat /\ index # 0 /\ FilesTyped
      /\ draft \in Manifests /\ Entry \in Entries /\ req.platform \in Platforms
      /\ draft.delta[req.platform] = Entry /\ LayerSound(Entry.layer)
      /\ omitted \subseteq Versions /\ req.installer \in Installers /\ req.urls.copy \in Urls
      /\ Asked \subseteq Versions
  BY <1>1, RunParts, RequestParts, DraftParts, AskedParts DEF Drafting, ReleaseInv, ReleaseTypeOK
<1>3. /\ Valid(draft) /\ (req.tar # "no" => LayerProven(Entry.layer))
      /\ Entry.target = req.installer
  BY <1>1, <1>2 DEF ReleaseInv, KnowsOthers, KnowsLayer, KnowsEntry
<1>4. ASSUME NEW d \in Entries, draft' \in Manifests, draft'.version = draft.version,
             draft'.full = draft.full, draft'.delta[req.platform] = d,
             \A q \in Platforms : q # req.platform => draft'.delta[q] = draft.delta[q],
             d.version = Entry.version, d.target = Entry.target, d.sig = Entry.sig,
             d.patches = Entry.patches, d.layer = Entry.layer,
             req.copy /\ d.full # Nil =>
               /\ d.full.file = [from |-> Nil, to |-> req.installer]
               /\ Output("full", Nil) \in DOMAIN files'
               /\ files'[Output("full", Nil)] = d.full.file,
             FilesTyped',
             \A n : n # Output("full", Nil) /\ n \in DOMAIN files =>
               n \in DOMAIN files' /\ files'[n] = files[n],
             pc' = "write",
             UNCHANGED <<run, req, index, sig, direct, layer, proven, omitted, accepted>>
      PROVE  ReleaseInv'
  <2>1. /\ UNCHANGED <<manifest, req, sig>> /\ LayerSound(d.layer) /\ Drafting'
    BY <1>1, <1>2, <1>4 DEF Drafting
  <2>2. \A from : Output("direct", from) \in DOMAIN files =>
          /\ Output("direct", from) \in DOMAIN files'
          /\ files'[Output("direct", from)] = files[Output("direct", from)]
    BY <1>4 DEF Output
  <2>3. /\ KnowsEntry' /\ LayersSound(draft)'
        /\ manifest \in Manifests /\ manifest.version = draft'.version =>
             \A p \in Platforms : p # req.platform =>
               draft'.full[p] = manifest.full[p] /\ draft'.delta[p] = manifest.delta[p]
    BY <1>2, <1>4, <2>1, <2>2, Redrafted
  <2>4. Entry' = d /\ Output("full", Nil)' = Output("full", Nil)
    BY <1>4 DEF Entry, Output
  <2>5. req.tar # "no" => LayerProven(Entry'.layer)
    BY <1>3, <1>4, <2>4
  <2>6. KnowsCopy'
    BY <1>3, <1>4, <2>4 DEF KnowsCopy, CopyWorks, OnDisk
  <2>7. Valid(draft')
    <3>1. ASSUME NEW p \in Platforms, draft'.delta[p] # Nil
          PROVE  /\ draft.delta[p] # Nil
                 /\ draft'.delta[p].version = draft.delta[p].version
                 /\ draft'.delta[p].target = draft.delta[p].target
                 /\ draft'.delta[p].sig = draft.delta[p].sig
                 /\ draft'.delta[p].patches = draft.delta[p].patches
                 /\ draft'.delta[p].layer = draft.delta[p].layer
      <4>1. CASE p = req.platform
        BY <4>1, <1>2, <1>4, EntryParts
      <4>2. CASE p # req.platform
        BY <4>2, <1>4, <3>1
      <4> QED
        BY <4>1, <4>2
    <3> QED
      BY <3>1, <1>3, <1>4 DEF Valid
  <2>8. pc' \notin {"tar", "check"}
    BY <1>4
  <2> QED
    BY <1>1, <1>2, <1>4, <2>1, <2>3, <2>5, <2>6, <2>7, <2>8, DraftStep
<1>5. ASSUME NEW c \in Copies \cup {Nil}, draft' = [draft EXCEPT !.delta[req.platform].full = c]
      PROVE  \E d \in Entries :
               /\ draft' \in Manifests /\ draft'.version = draft.version
               /\ draft'.full = draft.full /\ draft'.delta[req.platform] = d
               /\ \A q \in Platforms : q # req.platform => draft'.delta[q] = draft.delta[q]
               /\ d.version = Entry.version /\ d.target = Entry.target /\ d.sig = Entry.sig
               /\ d.patches = Entry.patches /\ d.layer = Entry.layer /\ d.full = c
  <2> DEFINE d == [Entry EXCEPT !.full = c]
  <2>1. /\ d \in Entries
        /\ d.version = Entry.version /\ d.target = Entry.target /\ d.sig = Entry.sig
        /\ d.patches = Entry.patches /\ d.layer = Entry.layer /\ d.full = c
    BY <1>2 DEF Entries
  <2>2. draft' = [draft EXCEPT !.delta[req.platform] = d]
    BY <1>2, <1>5, PartReplaced
  <2> HIDE DEF d
  <2>3. /\ draft' \in Manifests /\ draft'.version = draft.version /\ draft'.full = draft.full
        /\ draft'.delta[req.platform] = d
        /\ \A q \in Platforms : q # req.platform => draft'.delta[q] = draft.delta[q]
    BY <1>2, <2>1, <2>2 DEF Manifests
  <2> QED
    BY <2>1, <2>3
<1>6. CASE /\ ~req.copy /\ pc' = "write"
           /\ UNCHANGED <<files, draft, run, req, index, sig, direct, layer, proven, omitted, accepted>>
  <2>1. FilesTyped'
    BY <1>2, <1>6 DEF FilesTyped
  <2> QED
    BY <1>2, <1>4, <1>6, <2>1
<1>7. CASE Fail /\ UNCHANGED files
  <2>1. FilesTyped'
    BY <1>2, <1>7 DEF FilesTyped
  <2> QED
    BY <1>1, <1>7, <2>1, ExitKeeps DEF Fail
<1>8. ASSUME NEW file \in Diffed(Nil, req.installer),
             IF file.to # req.installer
             THEN files' = Put(Output("full", Nil), file) /\ Fail
             ELSE /\ IF req.installer \in Incompressible
                     THEN /\ files' \in {Without(Output("full", Nil))}
                               \cup (IF "io" \in Faults THEN {Put(Output("full", Nil), file)}
                                     ELSE {})
                          /\ draft' = [draft EXCEPT !.delta[req.platform].full = Nil]
                     ELSE /\ files' = Put(Output("full", Nil), file)
                          /\ draft' = [draft EXCEPT !.delta[req.platform].full =
                                      [file |-> file, url |-> req.urls.copy]]
                  /\ pc' = "write"
                  /\ UNCHANGED <<run, req, index, sig, direct, layer, proven, omitted, accepted>>
      PROVE  ReleaseInv'
  <2>1. file \in Files /\ file.from = Nil
    BY <1>2, DiffedParts DEF Contents
  <2>2. Output("full", Nil) \in Outputs
    BY <1>2, OutputParts
  <2>3. files' = Put(Output("full", Nil), file) =>
          /\ FilesTyped' /\ Output("full", Nil) \in DOMAIN files'
          /\ files'[Output("full", Nil)] = file
          /\ \A n : n # Output("full", Nil) /\ n \in DOMAIN files =>
               n \in DOMAIN files' /\ files'[n] = files[n]
    BY <1>2, <2>1, <2>2, PutParts
  <2>4. files' = Without(Output("full", Nil)) =>
          /\ FilesTyped'
          /\ \A n : n # Output("full", Nil) /\ n \in DOMAIN files =>
               n \in DOMAIN files' /\ files'[n] = files[n]
    BY <1>2, WithoutParts
  <2>5. CASE file.to # req.installer
    BY <1>1, <1>8, <2>3, <2>5, ExitKeeps DEF Fail
  <2>6. CASE file.to = req.installer /\ req.installer \in Incompressible
    <3>1. /\ draft' = [draft EXCEPT !.delta[req.platform].full = Nil]
          /\ files' = Without(Output("full", Nil)) \/ files' = Put(Output("full", Nil), file)
          /\ pc' = "write"
          /\ UNCHANGED <<run, req, index, sig, direct, layer, proven, omitted, accepted>>
      BY <1>8, <2>6
    <3>2. PICK d \in Entries :
               /\ draft' \in Manifests /\ draft'.version = draft.version
               /\ draft'.full = draft.full /\ draft'.delta[req.platform] = d
               /\ \A q \in Platforms : q # req.platform => draft'.delta[q] = draft.delta[q]
               /\ d.version = Entry.version /\ d.target = Entry.target /\ d.sig = Entry.sig
               /\ d.patches = Entry.patches /\ d.layer = Entry.layer /\ d.full = Nil
      BY <3>1, <1>5
    <3> QED
      BY <3>1, <3>2, <2>3, <2>4, <1>4
  <2>7. CASE file.to = req.installer /\ req.installer \notin Incompressible
    <3> DEFINE c == [file |-> file, url |-> req.urls.copy]
    <3>1. /\ draft' = [draft EXCEPT !.delta[req.platform].full = c]
          /\ files' = Put(Output("full", Nil), file) /\ pc' = "write"
          /\ UNCHANGED <<run, req, index, sig, direct, layer, proven, omitted, accepted>>
      BY <1>8, <2>7
    <3>2. c \in Copies /\ c.file = file /\ file = [from |-> Nil, to |-> req.installer]
      BY <1>2, <2>1, <2>7 DEF Copies, Files
    <3> HIDE DEF c
    <3>3. PICK d \in Entries :
               /\ draft' \in Manifests /\ draft'.version = draft.version
               /\ draft'.full = draft.full /\ draft'.delta[req.platform] = d
               /\ \A q \in Platforms : q # req.platform => draft'.delta[q] = draft.delta[q]
               /\ d.version = Entry.version /\ d.target = Entry.target /\ d.sig = Entry.sig
               /\ d.patches = Entry.patches /\ d.layer = Entry.layer /\ d.full = c
      BY <3>1, <3>2, <1>5
    <3> QED
      BY <3>1, <3>2, <3>3, <2>3, <1>4
  <2> QED
    BY <2>5, <2>6, <2>7
<1> QED
  BY <1>6, <1>7, <1>8 DEF Copy

-----------------------------------------------------------------------------
(* The manifest is written, torn, removed and checked. *)

LEMMA WriteKeeps ==
  ASSUME ReleaseInv, Write
  PROVE  ReleaseInv'
<1>1. /\ pc = "write" /\ UNCHANGED files
      /\ IF req.dry
         THEN Fail /\ UNCHANGED manifest
         ELSE /\ manifest' = draft /\ accepted' = Standing
              /\ pc' = "check"
              /\ UNCHANGED <<run, req, index, work>>
  BY DEF Write
<1>2. FilesTyped /\ FilesTyped'
  BY <1>1, RunParts DEF FilesTyped
<1>3. CASE Fail /\ UNCHANGED manifest
  BY <1>2, <1>3, ExitKeeps DEF Fail
<1>4. CASE /\ manifest' = draft /\ accepted' = Standing /\ pc' = "check"
           /\ UNCHANGED <<run, req, index, work>>
  <2>1. /\ Drafting /\ req \in Requests /\ sig \in Signatures /\ index \in Nat /\ index # 0
        /\ manifest \in Manifests \cup {Nil} /\ draft \in Manifests
        /\ Entry \in Entries /\ req.platform \in Platforms /\ draft.delta[req.platform] = Entry
        /\ accepted \in [Platforms -> [artifact : Installers, insecure : BOOLEAN] \cup {Nil}]
    BY <1>1, RunParts, DraftParts DEF Drafting, ReleaseInv, ReleaseTypeOK
  <2>2. UNCHANGED <<sig, direct, draft, layer, proven, omitted>>
    BY <1>4 DEF work
  <2>3. accepted' \in [Platforms -> [artifact : Installers, insecure : BOOLEAN] \cup {Nil}]
    BY <1>4, <2>1 DEF Standing
  <2>4. ReleaseTypeOK'
    BY <1>2, <1>4, <2>1, <2>2, <2>3 DEF ReleaseInv, ReleaseTypeOK, FilesTyped
  <2>5. KnowsRequest'
    BY <1>1, <1>4, <2>1, <2>2, MarkerAssumption DEF ReleaseInv, KnowsRequest
  <2>6. /\ Entry' = Entry /\ Asked' = Asked /\ Full' = Full
        /\ \A from : Output("direct", from)' = Output("direct", from)
        /\ Output("full", Nil)' = Output("full", Nil)
    BY <1>4, <2>2 DEF Entry, Asked, Full, Output
  <2>7. KnowsDirect' /\ KnowsEntry' /\ KnowsCopy'
    BY <1>1, <1>4, <2>1, <2>2, <2>6
       DEF ReleaseInv, KnowsDirect, KnowsEntry, KnowsCopy, Drafting, DirectMade, OnDisk
  <2>8. KnowsLayer'
    BY <1>1, <1>4, <2>1, <2>2, <2>6
       DEF ReleaseInv, KnowsLayer, Drafting, LayerProven, LayersSound, LayerSound
  <2>9. KnowsOthers'
    BY <1>1, <1>4, <2>1, <2>2 DEF ReleaseInv, KnowsOthers
  <2>10. ASSUME NEW p \in Platforms, accepted'[p] # Nil
         PROVE  Acceptable(p, manifest.version, accepted[p].artifact, accepted[p].insecure)'
    <3>1. /\ p # req.platform /\ manifest # Nil /\ manifest.version = draft.version
          /\ accepted'[p] = accepted[p] /\ accepted[p] # Nil
      BY <1>4, <2>10 DEF Standing
    <3>2. /\ draft.full[p] = manifest.full[p] /\ draft.delta[p] = manifest.delta[p]
          /\ Valid(draft)
      BY <1>1, <2>1, <3>1 DEF ReleaseInv, KnowsOthers
    <3>3. Acceptable(p, manifest.version, accepted[p].artifact, accepted[p].insecure)
      BY <3>1 DEF ReleaseInv, AcceptedStays
    <3>4. UrlsOf(draft, p) = UrlsOf(manifest, p)
      BY <3>2 DEF UrlsOf
    <3> QED
      BY <1>4, <3>1, <3>2, <3>3, <3>4 DEF Acceptable
  <2>11. AcceptedStays'
    BY <2>10 DEF AcceptedStays
  <2> QED
    BY <2>4, <2>5, <2>7, <2>8, <2>9, <2>11 DEF ReleaseInv
<1> QED
  BY <1>1, <1>3, <1>4

\* Nothing is accepted of a manifest that does not parse.
LEMMA TornKeeps ==
  ASSUME ReleaseInv, TornWrite \/ StartOver
  PROVE  ReleaseInv'
<1>1. /\ manifest' \in {Nil, Torn} /\ accepted' = [p \in Platforms |-> Nil]
      /\ pc' = "idle" /\ UNCHANGED <<files, run>> /\ index' \in Nat /\ index' # 0
      /\ req' \in Requests \cup {Nil} /\ sig' \in Signatures \cup {Nil}
      /\ direct' \in [Versions -> DirectPatches \cup {Nil}]
      /\ draft' \in Manifests \cup {Nil} /\ layer' \in Layers \cup {Nil}
      /\ proven' \in BOOLEAN /\ omitted' \subseteq Versions
  <2>1. CASE TornWrite
    <3>1. index' = 1 /\ direct' = NoPatch /\ accepted' = [p \in Platforms |-> Nil]
      BY <2>1 DEF TornWrite, Exit
    <3>2. index' \in Nat /\ index' # 0 /\ direct' \in [Versions -> DirectPatches \cup {Nil}]
      BY <3>1 DEF NoPatch
    <3>3. proven' \in BOOLEAN
      BY <2>1 DEF TornWrite, Exit
    <3>4. /\ pc' = "idle" /\ req' \in Requests \cup {Nil} /\ sig' \in Signatures \cup {Nil}
          /\ draft' \in Manifests \cup {Nil} /\ layer' \in Layers \cup {Nil}
          /\ omitted' \subseteq Versions /\ manifest' \in {Nil, Torn} /\ UNCHANGED <<files, run>>
      BY <2>1 DEF TornWrite, Exit
    <3> QED
      BY <3>1, <3>2, <3>3, <3>4
  <2>2. CASE StartOver
    BY <2>2 DEF ReleaseInv, ReleaseTypeOK, KnowsRequest, StartOver, work
  <2> QED
    BY <2>1, <2>2
<1>2. ReleaseTypeOK'
  BY <1>1 DEF ReleaseInv, ReleaseTypeOK
<1>3. KnowsRequest' /\ AcceptedStays'
  BY <1>1 DEF KnowsRequest, AcceptedStays
<1>4. manifest' \notin Manifests
  BY <1>1, MarkerAssumption
<1>5. KnowsDirect' /\ KnowsEntry' /\ KnowsLayer' /\ KnowsCopy' /\ KnowsOthers'
  BY <1>1, <1>4 DEF KnowsDirect, KnowsEntry, KnowsLayer, KnowsCopy, KnowsOthers, Drafting
<1> QED
  BY <1>2, <1>3, <1>5 DEF ReleaseInv

LEMMA InterruptedKeeps ==
  ASSUME ReleaseInv, Interrupted
  PROVE  ReleaseInv'
<1>1. /\ pc # "idle" /\ Fail /\ UNCHANGED manifest
      /\ files' \in {files} \cup {Put(name, [from |-> Nil, to |-> Nil]) : name \in UnderWay}
  BY DEF Interrupted
<1>2. FilesTyped /\ req \in Requests /\ index \in Nat /\ index # 0
  BY <1>1, RunParts
<1>3. UnderWay \subseteq Outputs
  <2>1. Left => Pred.from \in Versions
    BY <1>2, PredParts
  <2>2. \A from \in Versions \cup {Nil} :
          Output("direct", from) \in Outputs /\ Output("tar", from) \in Outputs
            /\ Output("full", from) \in Outputs
    BY <1>2, OutputParts
  <2> QED
    BY <2>1, <2>2 DEF UnderWay
<1>4. [from |-> Nil, to |-> Nil] \in Files
  BY DEF Files
<1>5. FilesTyped'
  <2>1. CASE UNCHANGED files
    BY <1>2, <2>1 DEF FilesTyped
  <2>2. ASSUME NEW name \in Outputs, files' = Put(name, [from |-> Nil, to |-> Nil])
        PROVE  FilesTyped'
    BY <1>2, <1>4, <2>2, PutParts
  <2> QED
    BY <1>1, <1>3, <2>1, <2>2
<1> QED
  BY <1>1, <1>5, ExitKeeps DEF Fail

LEMMA CheckKeeps ==
  ASSUME ReleaseInv, NEW artifact \in Installers, NEW insecure \in BOOLEAN,
         Check(artifact, insecure)
  PROVE  ReleaseInv'
<1>1. /\ pc = "check" /\ Exit /\ UNCHANGED <<manifest, files>>
      /\ accepted' = [accepted EXCEPT ![req.platform] =
           IF Acceptable(req.platform, req.version, artifact, insecure)
           THEN [artifact |-> artifact, insecure |-> insecure] ELSE Nil]
  BY DEF Check, directory
<1>2. /\ FilesTyped /\ manifest \in Manifests /\ manifest.version = req.version
      /\ accepted \in [Platforms -> [artifact : Installers, insecure : BOOLEAN] \cup {Nil}]
      /\ req.platform \in Platforms
  BY <1>1, RunParts, RequestParts
     DEF ReleaseInv, ReleaseTypeOK, KnowsEntry, KnowsOthers, Drafting
<1>3. ReleaseTypeOK'
  BY <1>1, <1>2 DEF ReleaseInv, ReleaseTypeOK, Exit, NoPatch, FilesTyped
<1>4. KnowsRequest'
  BY <1>1, <1>2, MarkerAssumption DEF KnowsRequest, Exit, ReleaseInv
<1>5. KnowsDirect' /\ KnowsEntry' /\ KnowsLayer' /\ KnowsCopy' /\ KnowsOthers'
  BY <1>1
     DEF ReleaseInv, KnowsDirect, KnowsEntry, KnowsLayer, KnowsCopy, KnowsOthers, Drafting,
         Exit
<1>6. ASSUME NEW p \in Platforms, accepted'[p] # Nil
      PROVE  Acceptable(p, manifest.version, accepted[p].artifact, accepted[p].insecure)'
  <2>1. Acceptable(p, manifest.version, accepted'[p].artifact, accepted'[p].insecure)
    <3>1. CASE p = req.platform
      BY <3>1, <1>1, <1>2, <1>6
    <3>2. CASE p # req.platform
      BY <3>2, <1>1, <1>2, <1>6 DEF ReleaseInv, AcceptedStays
    <3> QED
      BY <3>1, <3>2
  <2> QED
    BY <2>1, <1>1 DEF Acceptable
<1>7. AcceptedStays'
  BY <1>6 DEF AcceptedStays
<1> QED
  BY <1>3, <1>4, <1>5, <1>7 DEF ReleaseInv

-----------------------------------------------------------------------------

LEMMA ReleaseInvStep == ReleaseInv /\ [ReleaseNext]_vars => ReleaseInv'
<1> SUFFICES ASSUME ReleaseInv, [ReleaseNext]_vars
             PROVE  ReleaseInv'
  OBVIOUS
<1>1. CASE UNCHANGED vars
  <2>1. UNCHANGED <<manifest, files, run, pc, req, index, sig, direct, draft, layer, proven,
                    omitted, accepted>>
    BY <1>1 DEF vars, directory, work
  <2>2. ReleaseTypeOK' /\ KnowsRequest' /\ KnowsDirect' /\ KnowsEntry'
    BY <2>1
       DEF ReleaseInv, ReleaseTypeOK, KnowsRequest, KnowsDirect, KnowsEntry, Drafting, Entry,
           Asked, Full, DirectMade, OnDisk, Output
  <2>3. KnowsLayer' /\ KnowsCopy' /\ KnowsOthers' /\ AcceptedStays'
    BY <2>1, AcceptedKept
       DEF ReleaseInv, KnowsLayer, KnowsCopy, KnowsOthers, Drafting, Entry, LayerProven,
           LayersSound, LayerSound, CopyWorks, OnDisk, Output
  <2> QED
    BY <2>2, <2>3 DEF ReleaseInv
<1>2. ASSUME NEW r \in Requests, Begin(r)
      PROVE  ReleaseInv'
  BY <1>2, BeginKeeps
<1>3. CASE MakeDirect
  BY <1>3, MakeDirectKeeps
<1>4. CASE Fold
  BY <1>4, FoldKeeps
<1>5. CASE MakeTar
  BY <1>5, MakeTarKeeps
<1>6. CASE Attach
  BY <1>6, AttachKeeps
<1>7. CASE Trim
  BY <1>7, TrimKeeps
<1>8. CASE Trimmed
  BY <1>8, TrimmedKeeps
<1>9. CASE Copy
  BY <1>9, CopyKeeps
<1>10. CASE Write
  BY <1>10, WriteKeeps
<1>11. CASE Interrupted
  BY <1>11, InterruptedKeeps
<1>12. CASE TornWrite \/ StartOver
  BY <1>12, TornKeeps
<1>13. ASSUME NEW artifact \in Installers, NEW insecure \in BOOLEAN, Check(artifact, insecure)
       PROVE  ReleaseInv'
  BY <1>13, CheckKeeps
<1> QED
  BY <1>1, <1>2, <1>3, <1>4, <1>5, <1>6, <1>7, <1>8, <1>9, <1>10, <1>11, <1>12, <1>13
     DEF ReleaseNext

LEMMA ReleaseInvHolds == ReleaseSpec => []ReleaseInv
  BY ReleaseInvStart, ReleaseInvStep, PTL DEF ReleaseSpec

-----------------------------------------------------------------------------
(* The theorems. *)

\* Every manifest, draft and signature is well-formed, and the steps of a run stay
\* in their order, for any command lines (main.rs, run; lib.rs, build_release).
THEOREM ReleaseTypeCorrect == ReleaseSpec => []ReleaseTypeOK
<1>1. ReleaseInv => ReleaseTypeOK
  BY DEF ReleaseInv
<1> QED
  BY <1>1, ReleaseInvHolds, PTL

\* lib.rs: a layer of another build of the version is never left to a run that
\* asks for tar paths, for any predecessors and whatever was published before.
THEOREM TarLayerOfThisBuild == ReleaseSpec => []TarLayerIsTarget
<1>1. ReleaseInv => TarLayerIsTarget
  <2> SUFFICES ASSUME ReleaseInv, Written, req.tar # "no", Now.layer # Nil
               PROVE  /\ Now.layer.target = TarOf[req.installer]
                      /\ \A from \in Versions : TarWorks(Now, from)
    BY DEF TarLayerIsTarget
  <2>1. pc = "check" /\ Drafting /\ Now = Entry
    BY DEF Written, Drafting, Now, Entry, ReleaseInv, KnowsOthers
  <2>2. LayerSound(Entry.layer) /\ LayerProven(Entry.layer) /\ Entry.target = req.installer
    BY <2>1, DraftParts DEF ReleaseInv, KnowsLayer, KnowsEntry
  <2> QED
    BY <2>1, <2>2 DEF LayerSound, LayerProven, TarWorks
<1> QED
  BY <1>1, ReleaseInvHolds, PTL

\* DECISIONS #33: what was asked for and is described was applied, and is what is
\* on disk, however often the version was built before and with whatever faults.
THEOREM WhatIsAskedWorks == ReleaseSpec => []AskedPathsWork
<1>1. ReleaseInv => AskedPathsWork
  <2> SUFFICES ASSUME ReleaseInv, Written
               PROVE  AskedPathsWork
    BY DEF AskedPathsWork
  <2>1. pc = "check" /\ Drafting /\ Now = Entry
    BY DEF Written, Drafting, Now, Entry, ReleaseInv, KnowsOthers
  <2>2. Asked \subseteq Versions
    BY <2>1, RunParts, AskedParts
  <2>3. ASSUME NEW from \in Asked, Now.patches[from] # Nil
        PROVE  DirectWorks(Now, from) /\ OnDisk(Output("direct", from), Now.patches[from].file)
    BY <2>1, <2>3 DEF ReleaseInv, KnowsEntry, DirectMade, DirectWorks
  <2>4. ASSUME req.tar # "no", NEW from \in Asked
        PROVE  TarWorks(Now, from)
    <3>1. LayerSound(Entry.layer) /\ LayerProven(Entry.layer) /\ Entry.target = req.installer
      BY <2>1, <2>4, DraftParts DEF ReleaseInv, KnowsLayer, KnowsEntry
    <3> QED
      BY <2>1, <2>2, <2>4, <3>1 DEF LayerSound, LayerProven, TarWorks
  <2>5. req.copy /\ Now.full # Nil =>
          CopyWorks(Now) /\ OnDisk(Output("full", Nil), Now.full.file)
    BY <2>1 DEF ReleaseInv, KnowsCopy
  <2> QED
    BY <2>3, <2>4, <2>5 DEF AskedPathsWork
<1> QED
  BY <1>1, ReleaseInvHolds, PTL

\* release.yml: what the checker accepted of one platform stays acceptable through
\* any number of runs for the others, rebuilds, failures and crashes (lib.rs, the
\* merge in build_release; main.rs, write_manifest).
THEOREM AcceptedStaysAccepted == ReleaseSpec => []AcceptedStays
<1>1. ReleaseInv => AcceptedStays
  BY DEF ReleaseInv
<1> QED
  BY <1>1, ReleaseInvHolds, PTL

-----------------------------------------------------------------------------
(* What the checker refuses of a manifest that was just written. *)

\* A URL that passed the policy of some run, a rehearsal perhaps.
Sendable(url) == Publishable(url, TRUE)

SafeLayer(l) ==
  l # Nil => \A v \in Versions : l.patches[v] # Nil => Sendable(l.patches[v].url)
SafeEntry(e) ==
  /\ \A v \in Versions : e.patches[v] # Nil => Sendable(e.patches[v].url)
  /\ e.full # Nil => Sendable(e.full.url)
  /\ SafeLayer(e.layer)
SafeUrls(m) == \A p \in Platforms : m.delta[p] # Nil => SafeEntry(m.delta[p])

UrlInv ==
  /\ manifest \in Manifests => SafeUrls(manifest)
  /\ pc = "direct" => \A v \in Versions : direct[v] # Nil => Sendable(direct[v].url)
  /\ Drafting => SafeUrls(draft)
  /\ pc = "tar" => SafeLayer(layer)

\* The URLs of a request that passed the policy.
LEMMA SensibleUrls ==
  ASSUME NEW r \in Requests, Sensible(r)
  PROVE  /\ Sendable(r.urls.installer) /\ (r.preds # << >> => Sendable(r.urls.patch))
         /\ (r.tar # "no" => Sendable(r.urls.tar))
  BY DEF Sensible, Sendable, Publishable

\* A run that ends adds no URL.
LEMMA EndKeepsUrls ==
  ASSUME UrlInv, pc' = "idle", manifest' = manifest \/ manifest' \notin Manifests
  PROVE  UrlInv'
  BY DEF UrlInv, Drafting

\* A step over a draft.
LEMMA DraftKeepsUrls ==
  ASSUME ReleaseInv, UrlInv, Drafting, UNCHANGED <<manifest, req, layer>>, pc' # "direct",
         pc' = "tar" => pc = "tar",
         NEW e \in Entries \cup {Nil}, draft'.delta[req.platform] = e,
         \A q \in Platforms : q # req.platform => draft'.delta[q] = draft.delta[q],
         e # Nil => SafeEntry(e)
  PROVE  UrlInv'
<1>1. SafeUrls(draft')
  BY DEF UrlInv, SafeUrls
<1> QED
  BY <1>1 DEF UrlInv

LEMMA UrlStep == ReleaseInv /\ UrlInv /\ [ReleaseNext]_vars => UrlInv'
<1> SUFFICES ASSUME ReleaseInv, UrlInv, [ReleaseNext]_vars
             PROVE  UrlInv'
  OBVIOUS
<1>1. CASE UNCHANGED vars
  BY <1>1 DEF vars, directory, work, UrlInv, Drafting
<1>2. CASE Exit /\ UNCHANGED manifest
  BY <1>2, EndKeepsUrls DEF Exit
<1>3. ASSUME NEW r \in Requests, Begin(r)
      PROVE  UrlInv'
  <2>1. pc = "idle" /\ UNCHANGED <<manifest, draft, layer>>
        /\ (UNCHANGED <<pc, direct>> \/ (pc' = "direct" /\ direct' = NoPatch))
    BY <1>3 DEF Begin, directory
  <2> QED
    BY <2>1 DEF UrlInv, Drafting, NoPatch
<1>4. CASE MakeDirect
  <2>1. /\ pc = "direct" /\ req \in Requests /\ Sensible(req) /\ index \in Nat /\ index # 0
        /\ direct \in [Versions -> DirectPatches \cup {Nil}] /\ Left /\ UNCHANGED manifest
    BY <1>4, RunParts DEF MakeDirect, ReleaseInv, ReleaseTypeOK
  <2>2. Sendable(req.urls.patch) /\ Pred.from \in Versions
    <3>1. index \in DOMAIN req.preds /\ Pred.from \in Versions
      BY <2>1, PredParts
    <3>2. req.preds # << >>
      BY <3>1
    <3> QED
      BY <2>1, <3>1, <3>2, SensibleUrls
  <2>3. CASE Fail
    BY <2>1, <2>3, <1>2 DEF Fail
  <2>4. ASSUME NEW file,
               direct' = [direct EXCEPT ![Pred.from] = DirectPatch(file)],
               UNCHANGED <<pc, draft, layer>>
        PROVE  UrlInv'
    <3>1. DirectPatch(file).url = req.urls.patch
      BY DEF DirectPatch
    <3>2. \A v \in Versions : direct'[v] # Nil => Sendable(direct'[v].url)
      BY <2>1, <2>2, <2>4, <3>1 DEF UrlInv
    <3> QED
      BY <2>1, <2>4, <3>2 DEF UrlInv, Drafting
  <2> QED
    BY <1>4, <2>3, <2>4 DEF MakeDirect
<1>5. CASE Fold
  <2> DEFINE e == [Kept EXCEPT !.version = req.version, !.target = req.installer, !.sig = sig,
                               !.patches = Merged(Kept.patches, direct)]
  <2>1. /\ pc = "direct" /\ pc' = "tar" /\ layer' = Kept.layer /\ UNCHANGED <<manifest, req>>
        /\ draft' = [Found EXCEPT !.full[req.platform] = Full, !.delta[req.platform] = e]
    BY <1>5 DEF Fold, directory
  <2>2. Found \in Manifests /\ Kept \in Entries /\ req.platform \in Platforms
    BY <2>1, FoundParts, RunParts, RequestParts
  <2>3. SafeUrls(Found)
    <3>1. CASE manifest # Nil /\ manifest.version = req.version
      BY <3>1, <2>1, RunParts DEF Found, UrlInv
    <3>2. CASE ~(manifest # Nil /\ manifest.version = req.version)
      BY <3>2 DEF Found, SafeUrls
    <3> QED
      BY <3>1, <3>2
  <2>4. SafeEntry(Kept)
    <3>1. CASE Found.delta[req.platform] # Nil
      BY <3>1, <2>2, <2>3 DEF Kept, SafeUrls
    <3>2. CASE Found.delta[req.platform] = Nil
      BY <3>2 DEF Kept, SafeEntry, SafeLayer, NoPatch
    <3> QED
      BY <3>1, <3>2
  <2>5. e.patches = Merged(Kept.patches, direct) /\ e.layer = Kept.layer /\ e.full = Kept.full
    BY <2>2 DEF Entries
  <2>6. SafeEntry(e)
    <3> HIDE DEF e
    <3>1. \A v \in Versions : direct[v] # Nil => Sendable(direct[v].url)
      BY <2>1 DEF UrlInv
    <3> QED
      BY <2>4, <2>5, <3>1 DEF SafeEntry, Merged
  <2>7. /\ draft'.delta[req.platform] = e
        /\ \A q \in Platforms : q # req.platform => draft'.delta[q] = Found.delta[q]
    <3> HIDE DEF e
    <3> QED
      BY <2>1, <2>2 DEF Manifests
  <2> HIDE DEF e
  <2>8. SafeUrls(draft')
    BY <2>3, <2>6, <2>7 DEF SafeUrls
  <2>9. SafeLayer(layer')
    BY <2>1, <2>4 DEF SafeEntry
  <2> QED
    BY <2>1, <2>8, <2>9 DEF UrlInv
<1>6. CASE MakeTar
  <2>1. /\ pc = "tar" /\ req \in Requests /\ Sensible(req) /\ index \in Nat /\ index # 0
        /\ layer \in Layers \cup {Nil} /\ Left /\ UNCHANGED manifest /\ SafeLayer(layer)
        /\ req.tar # "no"
    BY <1>6, RunParts DEF MakeTar, ReleaseInv, ReleaseTypeOK, UrlInv
  <2>2. CASE Fail
    BY <2>1, <2>2, <1>2 DEF Fail
  <2>3. ASSUME UNCHANGED <<pc, draft>>, SafeLayer(layer')
        PROVE  UrlInv'
    BY <2>1, <2>3 DEF UrlInv, Drafting
  <2>4. CASE layer' = (IF proven THEN layer ELSE Nil) /\ UNCHANGED <<pc, draft>>
    BY <2>1, <2>3, <2>4 DEF SafeLayer
  <2>5. ASSUME NEW file \in Diffed(TarOf[Pred.base], TarOf[req.installer]), Patchable,
               RoundTrips(file), layer' = Extended(file), UNCHANGED <<pc, draft>>
        PROVE  UrlInv'
    <3> DEFINE kept == IF layer # Nil /\ layer.target = TarOf[req.installer] THEN layer
                       ELSE [target |-> TarOf[req.installer], patches |-> NoPatch]
               patch == [installer |-> Pred.base, tar |-> TarOf[Pred.base], file |-> file,
                         url |-> req.urls.tar]
    <3>1. /\ Pred.from \in Versions /\ req.installer \in Installers /\ Sendable(req.urls.tar)
      BY <2>1, PredParts, RequestParts, SensibleUrls
    <3>2. TarOf[req.installer] \in Tars
      BY <3>1, <2>5, ReleaseAssumption DEF Patchable, Tarball
    <3>3. kept \in Layers /\ \A v \in Versions : kept.patches[v] # Nil => Sendable(kept.patches[v].url)
      BY <2>1, <3>2 DEF Layers, SafeLayer, NoPatch
    <3>4. layer' = [kept EXCEPT !.patches[Pred.from] = patch] /\ patch.url = req.urls.tar
      BY <2>5 DEF Extended
    <3> HIDE DEF kept, patch
    <3>5. /\ layer'.patches[Pred.from] = patch
          /\ \A v \in Versions : v # Pred.from => layer'.patches[v] = kept.patches[v]
      BY <3>1, <3>3, <3>4 DEF Layers
    <3>6. SafeLayer(layer')
      BY <3>1, <3>3, <3>4, <3>5 DEF SafeLayer
    <3> QED
      BY <2>3, <2>5, <3>6
  <2> QED
    BY <1>6, <2>2, <2>4, <2>5 DEF MakeTar, TarSkipped
<1>7. ASSUME Drafting
      PROVE  /\ draft \in Manifests /\ Entry \in Entries /\ req.platform \in Platforms
             /\ draft.delta[req.platform] = Entry /\ SafeEntry(Entry)
  <2>1. /\ draft \in Manifests /\ Entry \in Entries /\ req.platform \in Platforms
        /\ draft.delta[req.platform] = Entry /\ Entry # Nil
    BY <1>7, DraftParts, EntryParts
  <2> QED
    BY <1>7, <2>1 DEF UrlInv, SafeUrls
<1>8. CASE Attach
  <2>1. pc = "tar" /\ Drafting /\ UNCHANGED manifest
    BY <1>8 DEF Attach, Drafting, directory
  <2>2. CASE Fail
    BY <2>1, <2>2, <1>2 DEF Fail
  <2>3. CASE /\ draft' = [draft EXCEPT !.delta[req.platform].layer = layer] /\ pc' = "trim"
             /\ UNCHANGED <<req, layer>>
    <3> DEFINE e == [Entry EXCEPT !.layer = layer]
    <3>1. layer \in Layers \cup {Nil} /\ SafeLayer(layer)
      BY <2>1 DEF ReleaseInv, ReleaseTypeOK, UrlInv
    <3>2. /\ e \in Entries /\ e.layer = layer /\ e.patches = Entry.patches /\ e.full = Entry.full
      BY <1>7, <2>1, <3>1 DEF Entries
    <3>3. draft' = [draft EXCEPT !.delta[req.platform] = e]
      BY <1>7, <2>1, <2>3, PartReplaced
    <3> HIDE DEF e
    <3>4. /\ draft'.delta[req.platform] = e
          /\ \A q \in Platforms : q # req.platform => draft'.delta[q] = draft.delta[q]
      BY <1>7, <2>1, <3>2, <3>3 DEF Manifests
    <3>5. SafeEntry(e)
      BY <1>7, <2>1, <3>1, <3>2 DEF SafeEntry
    <3> QED
      BY <2>1, <2>3, <3>2, <3>4, <3>5, DraftKeepsUrls
  <2> QED
    BY <1>8, <2>2, <2>3 DEF Attach
<1>9. CASE Trim
  <2>1. Drafting /\ UNCHANGED <<manifest, req, layer>> /\ pc' = "trim" /\ pc = "trim"
        /\ req \in Requests /\ index \in Nat /\ index # 0 /\ Left
    BY <1>9, RunParts DEF Trim, Drafting
  <2>2. CASE UNCHANGED draft
    BY <1>7, <2>1, <2>2, DraftKeepsUrls
  <2>3. CASE draft' = [draft EXCEPT !.delta[req.platform].patches[Pred.from] = Nil]
    <3> DEFINE e == [Entry EXCEPT !.patches[Pred.from] = Nil]
    <3>1. Pred.from \in Versions
      BY <2>1, PredParts
    <3>2. /\ e \in Entries /\ e.layer = Entry.layer /\ e.full = Entry.full
          /\ \A v \in Versions : e.patches[v] # Nil => e.patches[v] = Entry.patches[v]
      BY <1>7, <2>1, <3>1 DEF Entries
    <3>3. draft' = [draft EXCEPT !.delta[req.platform] = e]
      BY <1>7, <2>1, <2>3, PartReplaced
    <3> HIDE DEF e
    <3>4. /\ draft'.delta[req.platform] = e
          /\ \A q \in Platforms : q # req.platform => draft'.delta[q] = draft.delta[q]
      BY <1>7, <2>1, <3>2, <3>3 DEF Manifests
    <3>5. SafeEntry(e)
      BY <1>7, <2>1, <3>2 DEF SafeEntry
    <3> QED
      BY <2>1, <3>2, <3>4, <3>5, DraftKeepsUrls
  <2> QED
    BY <1>9, <2>2, <2>3 DEF Trim
<1>10. CASE Trimmed
  <2>1. Drafting /\ UNCHANGED manifest /\ pc = "trim"
    BY <1>10 DEF Trimmed, Drafting, directory
  <2>2. CASE Fail
    BY <2>1, <2>2, <1>2 DEF Fail
  <2>3. CASE pc' = "copy" /\ UNCHANGED <<req, work>>
    BY <1>7, <2>1, <2>3, DraftKeepsUrls DEF work
  <2> QED
    BY <1>10, <2>2, <2>3 DEF Trimmed
<1>11. CASE Copy
  <2>1. Drafting /\ UNCHANGED manifest /\ pc = "copy"
    BY <1>11 DEF Copy, Drafting
  <2>2. CASE Fail
    BY <2>1, <2>2, <1>2 DEF Fail
  <2>3. CASE pc' = "write" /\ UNCHANGED <<req, layer, draft>>
    BY <1>7, <2>1, <2>3, DraftKeepsUrls
  <2>4. ASSUME NEW c \in Copies \cup {Nil}, c # Nil => Sendable(c.url),
               draft' = [draft EXCEPT !.delta[req.platform].full = c],
               pc' = "write", UNCHANGED <<req, layer>>
        PROVE  UrlInv'
    <3> DEFINE e == [Entry EXCEPT !.full = c]
    <3>1. e \in Entries /\ e.full = c /\ e.patches = Entry.patches /\ e.layer = Entry.layer
      BY <1>7, <2>1, <2>4 DEF Entries
    <3>2. draft' = [draft EXCEPT !.delta[req.platform] = e]
      BY <1>7, <2>1, <2>4, PartReplaced
    <3> HIDE DEF e
    <3>3. /\ draft'.delta[req.platform] = e
          /\ \A q \in Platforms : q # req.platform => draft'.delta[q] = draft.delta[q]
      BY <1>7, <2>1, <3>1, <3>2 DEF Manifests
    <3>4. SafeEntry(e)
      BY <1>7, <2>1, <2>4, <3>1 DEF SafeEntry
    <3> QED
      BY <2>1, <2>4, <3>1, <3>3, <3>4, DraftKeepsUrls
  <2>5. ASSUME NEW file \in Diffed(Nil, req.installer), Publishable(req.urls.copy, req.insecure)
        PROVE  /\ [file |-> file, url |-> req.urls.copy] \in Copies
               /\ Sendable(req.urls.copy)
    <3>1. req.installer \in Installers /\ req.urls.copy \in Urls
      BY <2>1, RunParts, RequestParts DEF Drafting
    <3>2. file \in Files
      BY <3>1, <2>5, DiffedParts DEF Contents
    <3> QED
      BY <2>5, <3>1, <3>2 DEF Copies, Sendable, Publishable
  <2>6. CASE /\ draft' = [draft EXCEPT !.delta[req.platform].full = Nil]
             /\ pc' = "write" /\ UNCHANGED <<req, layer>>
    BY <2>4, <2>6
  <2>7. ASSUME NEW file \in Diffed(Nil, req.installer), Publishable(req.urls.copy, req.insecure),
               draft' = [draft EXCEPT !.delta[req.platform].full =
                                      [file |-> file, url |-> req.urls.copy]],
               pc' = "write", UNCHANGED <<req, layer>>
        PROVE  UrlInv'
    <3> DEFINE c == [file |-> file, url |-> req.urls.copy]
    <3>1. c \in Copies /\ Sendable(c.url)
      BY <2>5, <2>7
    <3> HIDE DEF c
    <3>2. draft' = [draft EXCEPT !.delta[req.platform].full = c]
      BY <2>7 DEF c
    <3> QED
      BY <2>4, <2>7, <3>1, <3>2
  <2> QED
    BY <1>11, <2>2, <2>3, <2>6, <2>7 DEF Copy
<1>12. CASE Write
  <2>1. Drafting /\ pc = "write"
    BY <1>12 DEF Write, Drafting
  <2>2. CASE Fail /\ UNCHANGED manifest
    BY <2>2, <1>2 DEF Fail
  <2>3. CASE manifest' = draft /\ pc' = "check" /\ UNCHANGED work
    BY <2>1, <2>3 DEF UrlInv, work
  <2> QED
    BY <1>12, <2>2, <2>3 DEF Write
<1>13. CASE Interrupted \/ \E artifact \in Installers, insecure \in BOOLEAN : Check(artifact, insecure)
  BY <1>13, <1>2 DEF Interrupted, Check, Fail, directory
<1>14. CASE TornWrite \/ StartOver
  <2>1. pc' = "idle" /\ manifest' \in {Nil, Torn}
    BY <1>14 DEF TornWrite, StartOver, Exit
  <2> QED
    BY <2>1, MarkerAssumption, EndKeepsUrls
<1> QED
  BY <1>1, <1>3, <1>4, <1>5, <1>6, <1>8, <1>9, <1>10, <1>11, <1>12, <1>13, <1>14
     DEF ReleaseNext

\* What was just written is a manifest that the checker's comparisons hold of.
LEMMA WrittenParts ==
  ASSUME ReleaseInv, Written
  PROVE  /\ req \in Requests /\ Sensible(req) /\ req.installer \in Installers
         /\ manifest = draft /\ manifest.version = req.version /\ Valid(manifest)
         /\ manifest.full[req.platform] = Full /\ req.platform \in Platforms
         /\ Now \in Entries /\ Now.target = req.installer /\ sig.over = req.installer
         /\ Now.layer # Nil /\ req.tar # "no" => Tarball(req.installer)
<1>1. pc = "check" /\ Drafting /\ pc # "idle"
  BY DEF Written, Drafting
<1>2. /\ manifest = draft /\ manifest.version = req.version /\ Valid(manifest)
      /\ manifest.full[req.platform] = Full /\ Now = Entry /\ Now.target = req.installer
  BY <1>1 DEF ReleaseInv, KnowsOthers, KnowsEntry, Now, Entry
<1>3. /\ req \in Requests /\ Sensible(req) /\ sig.over = req.installer
      /\ req.platform \in Platforms /\ req.installer \in Installers /\ Now \in Entries
  BY <1>1, <1>2, RunParts, RequestParts, DraftParts
<1>4. Now.layer # Nil /\ req.tar # "no" => Tarball(req.installer)
  <2> SUFFICES ASSUME Now.layer # Nil, req.tar # "no"
               PROVE  TarOf[req.installer] # Nil
    BY DEF Tarball
  <2>1. Now.layer.target = TarOf[req.installer]
    BY <1>1, <1>2 DEF ReleaseInv, KnowsLayer, LayerProven
  <2>2. Now.layer \in Layers
    BY <1>3, EntryParts
  <2>3. Now.layer.target \in Tars
    BY <2>2 DEF Layers
  <2> QED
    BY <2>1, <2>3, ReleaseAssumption DEF Contents
<1> QED
  BY <1>2, <1>3, <1>4

\* The checker reads in the signature what the run stated.
LEMMA ReadAsStated ==
  ASSUME ReleaseInv, Written
  PROVE  LET stated == Parse(sig.comment) IN
         /\ IsIdentity(stated) /\ stated.app = AppOf(req.appId, req.config)
         /\ stated.version = Value(VersionText[req.version])
         /\ stated.platform = Value(PlatformText[req.platform])
         /\ stated.blake3 = Value(DigestText[req.installer])
         /\ stated.size = SizeOf[req.installer]
         /\ Tarball(req.installer) => stated.representation.head.of = "app-tar-gz-v1"
<1>1. PICK n \in 1 .. MaxRuns : sig = Signature(req, n) /\ Signable(IdentityOf(req, n))
  BY DEF ReleaseInv, KnowsRequest, Written
<1>2. Parse(sig.comment) = IdentityOf(req, n)
  BY <1>1 DEF Signature, Signable
<1>3. /\ IdentityOf(req, n) \notin {Legacy, Malformed}
      /\ req.says.version = Value(VersionText[req.version])
      /\ req.says.platform = Value(PlatformText[req.platform])
  BY <1>1, WrittenParts, TextAssumption DEF Signable
<1>4. /\ IdentityOf(req, n).app = AppOf(req.appId, req.config)
      /\ IdentityOf(req, n).version = req.says.version
      /\ IdentityOf(req, n).platform = req.says.platform
      /\ IdentityOf(req, n).blake3 = Value(DigestText[req.installer])
      /\ IdentityOf(req, n).size = SizeOf[req.installer]
      /\ Tarball(req.installer) =>
           IdentityOf(req, n).representation.head.of = "app-tar-gz-v1"
  BY DEF IdentityOf, Value, Text
<1> QED
  BY <1>2, <1>3, <1>4 DEF IsIdentity

\* Every URL of a platform that was just written passed the policy of some run.
LEMMA WrittenUrls ==
  ASSUME ReleaseInv, UrlInv, Written, NEW url \in UrlsOf(manifest, req.platform)
  PROVE  Sendable(url)
<1>1. /\ manifest = draft /\ req \in Requests /\ Sensible(req)
      /\ manifest.full[req.platform] = Full /\ req.platform \in Platforms
      /\ Now \in Entries /\ Now # Nil
  BY WrittenParts, EntryParts
<1>2. SafeEntry(Now)
  BY <1>1 DEF UrlInv, Written, Drafting, SafeUrls, Now
<1>3. Sendable(manifest.full[req.platform].url)
  BY <1>1, SensibleUrls DEF Full
<1> QED
  BY <1>1, <1>2, <1>3 DEF UrlsOf, SafeEntry, SafeLayer, Now

\* What the generator writes its checker accepts, for any command lines and any
\* history of the directory, but for the exceptions stated: another application, a
\* rehearsal's URLs, and a tar layer taken over for what is no tarball (verify.rs;
\* lib.rs, build_release; signing.rs, sign_release).
THEOREM WhatIsWrittenIsAccepted == ReleaseSpec => []RefusedOnlyInherited
<1>1. ReleaseInit => UrlInv
  BY MarkerAssumption DEF ReleaseInit, UrlInv, Drafting
<1>2. ReleaseSpec => []UrlInv
  BY <1>1, UrlStep, ReleaseInvHolds, PTL DEF ReleaseSpec
<1>3. ReleaseInv /\ UrlInv => RefusedOnlyInherited
  <2> SUFFICES ASSUME ReleaseInv, UrlInv, Written, NEW insecure \in BOOLEAN,
                      ~(~Tarball(req.installer) /\ Now.layer # Nil /\ req.tar = "no"),
                      AppOf(req.appId, req.config) = Value(AppId),
                      ~(~insecure /\ \E url \in UrlsOf(manifest, req.platform) : url.scheme = "http")
               PROVE  Acceptable(req.platform, req.version, req.installer, insecure)
    BY DEF RefusedOnlyInherited
  <2> DEFINE stated == Parse(sig.comment)
  <2>1. /\ manifest.version = req.version /\ Valid(manifest)
        /\ manifest.full[req.platform] = Full /\ Full.sig = sig /\ sig.over = req.installer
        /\ Now.target = req.installer /\ Now \in Entries
        /\ Now.layer # Nil /\ req.tar # "no" => Tarball(req.installer)
    BY WrittenParts DEF Full
  <2>2. manifest.full[req.platform] # Nil
    <3>1. Full \in Fulls
      BY <2>1, WrittenParts, RunParts, RequestParts DEF Full, Fulls, Written
    <3> QED
      BY <3>1, <2>1, MarkerAssumption
  <2>3. \A url \in UrlsOf(manifest, req.platform) : Publishable(url, insecure)
    BY WrittenUrls DEF Sendable, Publishable
  <2>4. /\ IsIdentity(stated) /\ stated.app = Value(AppId)
        /\ stated.version = Value(VersionText[req.version])
        /\ stated.platform = Value(PlatformText[req.platform])
        /\ stated.blake3 = Value(DigestText[req.installer])
        /\ stated.size = SizeOf[req.installer]
        /\ Tarball(req.installer) => stated.representation.head.of = "app-tar-gz-v1"
    BY ReadAsStated
  <2> HIDE DEF stated
  <2>5. States(stated, AppId, VersionText[req.version], PlatformText[req.platform],
               DigestText[req.installer], SizeOf[req.installer])
    BY <2>4 DEF States
  <2>6. Now.layer # Nil => stated.representation.head.of = "app-tar-gz-v1"
    BY <2>1, <2>4
  <2> QED
    BY <2>1, <2>2, <2>3, <2>4, <2>5, <2>6 DEF Acceptable, Now, stated
<1> QED
  BY <1>2, <1>3, ReleaseInvHolds, PTL

-----------------------------------------------------------------------------
(* The identity in a trusted comment, whatever its values are. *)

\* An identity over some texts, each with words of some kind after its spaces.
IdentitiesOver(T, W) ==
  LET V == [head : T, rest : Seq(W)]
  IN  [app : V, version : V, platform : V, representation : V, blake3 : V,
       size : Nat, signedAt : Nat]

KeySet == {"app:", "v:", "plat:", "rep:", "b3:", "sz:", "ts:"}
WordsOver(T, W) == W \cup [key : KeySet, text : T]

LEMMA LabelledParts ==
  ASSUME NEW T, NEW W, NEW key \in KeySet, NEW v \in [head : T, rest : Seq(W)]
  PROVE  /\ Labelled(key, v) \in Seq(WordsOver(T, W))
         /\ Len(Labelled(key, v)) = 1 + Len(v.rest) /\ Len(v.rest) \in Nat
<1>1. Word(key, v.head) \in WordsOver(T, W) /\ W \subseteq WordsOver(T, W)
  BY DEF Word, WordsOver
<1>2. v.rest \in Seq(W)
  OBVIOUS
<1>3. v.rest \in Seq(WordsOver(T, W))
  BY <1>1, <1>2, SeqMonotonic
<1>4. /\ << Word(key, v.head) >> \in Seq(WordsOver(T, W))
      /\ Len(<< Word(key, v.head) >>) = 1
  BY <1>1
<1> QED
  BY <1>3, <1>4, ConcatProperties DEF Labelled

LEMMA OneWord ==
  ASSUME NEW key, NEW v, v.rest = << >>
  PROVE  Labelled(key, v) = << Word(key, v.head) >>
<1> DEFINE x == Word(key, v.head)
<1>1. << x >> \in Seq({x})
  OBVIOUS
<1> HIDE DEF x
<1>2. << x >> \o << >> = << x >>
  BY <1>1, ConcatEmptySeq
<1> QED
  BY <1>2 DEF Labelled, x

LEMMA Joined ==
  ASSUME NEW S, NEW s \in Seq(S), NEW t \in Seq(S)
  PROVE  s \o t \in Seq(S) /\ Len(s \o t) = Len(s) + Len(t)
BY ConcatProperties

LEMMA SixJoined ==
  ASSUME NEW S, NEW a \in Seq(S), NEW b \in Seq(S), NEW c \in Seq(S), NEW d \in Seq(S),
         NEW e \in Seq(S), NEW f \in Seq(S)
  PROVE  Len(a \o b \o c \o d \o e \o f) = Len(a) + Len(b) + Len(c) + Len(d) + Len(e) + Len(f)
<1>1. a \o b \in Seq(S) /\ Len(a \o b) = Len(a) + Len(b)
  BY Joined
<1> DEFINE p == a \o b
           q == p \o c
           r == q \o d
           s == r \o e
<1> HIDE DEF p
<1>2. p \in Seq(S) /\ Len(p) = Len(a) + Len(b)
  BY <1>1 DEF p
<1>3. q \in Seq(S) /\ Len(q) = Len(p) + Len(c)
  BY <1>2, Joined
<1> HIDE DEF q
<1>4. r \in Seq(S) /\ Len(r) = Len(q) + Len(d)
  BY <1>3, Joined
<1> HIDE DEF r
<1>5. s \in Seq(S) /\ Len(s) = Len(r) + Len(e)
  BY <1>4, Joined
<1> HIDE DEF s
<1>6. Len(s \o f) = Len(s) + Len(f)
  BY <1>5, Joined
<1>7. a \o b \o c \o d \o e \o f = s \o f
  BY DEF s, r, q, p
<1> QED
  BY <1>2, <1>3, <1>4, <1>5, <1>6, <1>7

LEMMA Longer ==
  ASSUME NEW S, NEW s \in Seq(S), NEW t \in Seq(S), NEW u \in Seq(S), Len(u) = Len(s) + Len(t),
         \A i \in 1 .. Len(s) : u[i] = s[i],
         \A i \in 1 .. Len(t) : u[Len(s) + i] = t[i]
  PROVE  s \o t = u
<1>1. s \o t \in Seq(S) /\ Len(s \o t) = Len(u)
  BY ConcatProperties
<1>2. ASSUME NEW i \in 1 .. Len(u)
      PROVE  (s \o t)[i] = u[i]
  <2>1. Len(s) \in Nat /\ Len(t) \in Nat
    OBVIOUS
  <2>2. (s \o t)[i] = IF i <= Len(s) THEN s[i] ELSE t[i - Len(s)]
    BY ConcatProperties
  <2>3. CASE i <= Len(s)
    BY <2>1, <2>2, <2>3
  <2>4. CASE ~(i <= Len(s))
    <3>1. i - Len(s) \in 1 .. Len(t) /\ Len(s) + (i - Len(s)) = i
      BY <2>1, <2>4
    <3> QED
      BY <2>2, <2>4, <3>1
  <2> QED
    BY <2>3, <2>4
<1> QED
  BY <1>1, <1>2, SeqEqual

\* Five words and two more, as Render joins them.
InARow(x1, x2, x3, x4, x5, x6, x7) ==
  << x1 >> \o << x2 >> \o << x3 >> \o << x4 >> \o << x5 >> \o << x6, x7 >>

LEMMA SevenInARow ==
  ASSUME NEW x1, NEW x2, NEW x3, NEW x4, NEW x5, NEW x6, NEW x7
  PROVE  InARow(x1, x2, x3, x4, x5, x6, x7) = << x1, x2, x3, x4, x5, x6, x7 >>
<1> DEFINE S == {x1, x2, x3, x4, x5, x6, x7}
<1>1. << x1 >> \o << x2 >> = << x1, x2 >>
  <2> DEFINE s == << x1 >>
             t == << x2 >>
             u == << x1, x2 >>
  <2>1. /\ s \in Seq(S) /\ t \in Seq(S) /\ u \in Seq(S)
        /\ Len(s) = 1 /\ Len(t) = 1 /\ Len(u) = 2
    OBVIOUS
  <2>2. (\A i \in 1 .. 1 : u[i] = s[i]) /\ (\A i \in 1 .. 1 : u[1 + i] = t[i])
    OBVIOUS
  <2> HIDE DEF s, t, u
  <2>3. Len(u) = Len(s) + Len(t)
    BY <2>1
  <2>4. (\A i \in 1 .. Len(s) : u[i] = s[i]) /\ (\A i \in 1 .. Len(t) : u[Len(s) + i] = t[i])
    BY <2>1, <2>2
  <2>5. s \in Seq(S) /\ t \in Seq(S) /\ u \in Seq(S)
    BY <2>1
  <2>6. s \o t = u
    BY <2>3, <2>4, <2>5, Longer
  <2> QED
    BY <2>6 DEF s, t, u
<1>2. << x1, x2 >> \o << x3 >> = << x1, x2, x3 >>
  <2> DEFINE s == << x1, x2 >>
             t == << x3 >>
             u == << x1, x2, x3 >>
  <2>1. /\ s \in Seq(S) /\ t \in Seq(S) /\ u \in Seq(S)
        /\ Len(s) = 2 /\ Len(t) = 1 /\ Len(u) = 3
    OBVIOUS
  <2>2. (\A i \in 1 .. 2 : u[i] = s[i]) /\ (\A i \in 1 .. 1 : u[2 + i] = t[i])
    OBVIOUS
  <2> HIDE DEF s, t, u
  <2>3. Len(u) = Len(s) + Len(t)
    BY <2>1
  <2>4. (\A i \in 1 .. Len(s) : u[i] = s[i]) /\ (\A i \in 1 .. Len(t) : u[Len(s) + i] = t[i])
    BY <2>1, <2>2
  <2>5. s \in Seq(S) /\ t \in Seq(S) /\ u \in Seq(S)
    BY <2>1
  <2>6. s \o t = u
    BY <2>3, <2>4, <2>5, Longer
  <2> QED
    BY <2>6 DEF s, t, u
<1>3. << x1, x2, x3 >> \o << x4 >> = << x1, x2, x3, x4 >>
  <2> DEFINE s == << x1, x2, x3 >>
             t == << x4 >>
             u == << x1, x2, x3, x4 >>
  <2>1. /\ s \in Seq(S) /\ t \in Seq(S) /\ u \in Seq(S)
        /\ Len(s) = 3 /\ Len(t) = 1 /\ Len(u) = 4
    OBVIOUS
  <2>2. (\A i \in 1 .. 3 : u[i] = s[i]) /\ (\A i \in 1 .. 1 : u[3 + i] = t[i])
    OBVIOUS
  <2> HIDE DEF s, t, u
  <2>3. Len(u) = Len(s) + Len(t)
    BY <2>1
  <2>4. (\A i \in 1 .. Len(s) : u[i] = s[i]) /\ (\A i \in 1 .. Len(t) : u[Len(s) + i] = t[i])
    BY <2>1, <2>2
  <2>5. s \in Seq(S) /\ t \in Seq(S) /\ u \in Seq(S)
    BY <2>1
  <2>6. s \o t = u
    BY <2>3, <2>4, <2>5, Longer
  <2> QED
    BY <2>6 DEF s, t, u
<1>4. << x1, x2, x3, x4 >> \o << x5 >> = << x1, x2, x3, x4, x5 >>
  <2> DEFINE s == << x1, x2, x3, x4 >>
             t == << x5 >>
             u == << x1, x2, x3, x4, x5 >>
  <2>1. /\ s \in Seq(S) /\ t \in Seq(S) /\ u \in Seq(S)
        /\ Len(s) = 4 /\ Len(t) = 1 /\ Len(u) = 5
    OBVIOUS
  <2>2. (\A i \in 1 .. 4 : u[i] = s[i]) /\ (\A i \in 1 .. 1 : u[4 + i] = t[i])
    OBVIOUS
  <2> HIDE DEF s, t, u
  <2>3. Len(u) = Len(s) + Len(t)
    BY <2>1
  <2>4. (\A i \in 1 .. Len(s) : u[i] = s[i]) /\ (\A i \in 1 .. Len(t) : u[Len(s) + i] = t[i])
    BY <2>1, <2>2
  <2>5. s \in Seq(S) /\ t \in Seq(S) /\ u \in Seq(S)
    BY <2>1
  <2>6. s \o t = u
    BY <2>3, <2>4, <2>5, Longer
  <2> QED
    BY <2>6 DEF s, t, u
<1>5. << x1, x2, x3, x4, x5 >> \o << x6, x7 >> = << x1, x2, x3, x4, x5, x6, x7 >>
  <2> DEFINE s == << x1, x2, x3, x4, x5 >>
             t == << x6, x7 >>
             u == << x1, x2, x3, x4, x5, x6, x7 >>
  <2>1. /\ s \in Seq(S) /\ t \in Seq(S) /\ u \in Seq(S)
        /\ Len(s) = 5 /\ Len(t) = 2 /\ Len(u) = 7
    OBVIOUS
  <2>2. (\A i \in 1 .. 5 : u[i] = s[i]) /\ (\A i \in 1 .. 2 : u[5 + i] = t[i])
    OBVIOUS
  <2> HIDE DEF s, t, u
  <2>3. Len(u) = Len(s) + Len(t)
    BY <2>1
  <2>4. (\A i \in 1 .. Len(s) : u[i] = s[i]) /\ (\A i \in 1 .. Len(t) : u[Len(s) + i] = t[i])
    BY <2>1, <2>2
  <2>5. s \in Seq(S) /\ t \in Seq(S) /\ u \in Seq(S)
    BY <2>1
  <2>6. s \o t = u
    BY <2>3, <2>4, <2>5, Longer
  <2> QED
    BY <2>6 DEF s, t, u
<1> QED
  BY <1>1, <1>2, <1>3, <1>4, <1>5 DEF InARow

\* A value with a space adds a word to the seven.
LEMMA WordCount ==
  ASSUME NEW T, NEW W, NEW id \in IdentitiesOver(T, W), Len(Render(id).words) = 7
  PROVE  /\ id.app.rest = << >> /\ id.version.rest = << >> /\ id.platform.rest = << >>
         /\ id.representation.rest = << >> /\ id.blake3.rest = << >>
<1> DEFINE U == T \cup {Decimal(id.size), Decimal(id.signedAt)}
           S == WordsOver(U, W)
           V == [head : U, rest : Seq(W)]
           a == Labelled("app:", id.app)
           b == Labelled("v:", id.version)
           c == Labelled("plat:", id.platform)
           d == Labelled("rep:", id.representation)
           e == Labelled("b3:", id.blake3)
           f == <<Word("sz:", Decimal(id.size)), Word("ts:", Decimal(id.signedAt))>>
<1>1. id.app \in V /\ id.version \in V /\ id.platform \in V /\ id.representation \in V
      /\ id.blake3 \in V
  BY DEF IdentitiesOver
<1>2. f \in Seq(S) /\ Len(f) = 2
  <2>1. Word("sz:", Decimal(id.size)) \in S /\ Word("ts:", Decimal(id.signedAt)) \in S
    BY DEF Word, WordsOver, KeySet
  <2> QED
    BY <2>1
<1>3. ASSUME NEW key \in KeySet, NEW v \in V
      PROVE  Labelled(key, v) \in Seq(S) /\ Len(Labelled(key, v)) = 1 + Len(v.rest)
             /\ Len(v.rest) \in Nat
  <2>1. v \in [head : U, rest : Seq(W)]
    OBVIOUS
  <2> HIDE DEF U
  <2> QED
    BY <2>1, LabelledParts
<1>4. Render(id).words = a \o b \o c \o d \o e \o f
  BY DEF Render
<1> HIDE DEF S, V, U
<1>5. a \in Seq(S) /\ Len(a) = 1 + Len(id.app.rest) /\ Len(id.app.rest) \in Nat
  BY <1>1, <1>3 DEF KeySet
<1>6. b \in Seq(S) /\ Len(b) = 1 + Len(id.version.rest) /\ Len(id.version.rest) \in Nat
  BY <1>1, <1>3 DEF KeySet
<1>7. c \in Seq(S) /\ Len(c) = 1 + Len(id.platform.rest) /\ Len(id.platform.rest) \in Nat
  BY <1>1, <1>3 DEF KeySet
<1>8. d \in Seq(S) /\ Len(d) = 1 + Len(id.representation.rest)
      /\ Len(id.representation.rest) \in Nat
  BY <1>1, <1>3 DEF KeySet
<1>9. e \in Seq(S) /\ Len(e) = 1 + Len(id.blake3.rest) /\ Len(id.blake3.rest) \in Nat
  BY <1>1, <1>3 DEF KeySet
<1> HIDE DEF a, b, c, d, e, f
<1>10. Len(a \o b \o c \o d \o e \o f)
         = Len(a) + Len(b) + Len(c) + Len(d) + Len(e) + Len(f)
  <2>1. a \in Seq(S) /\ b \in Seq(S) /\ c \in Seq(S) /\ d \in Seq(S) /\ e \in Seq(S)
        /\ f \in Seq(S)
    BY <1>2, <1>5, <1>6, <1>7, <1>8, <1>9
  <2> QED
    BY <2>1, SixJoined
<1> DEFINE na == Len(id.app.rest)
           nb == Len(id.version.rest)
           nc == Len(id.platform.rest)
           nd == Len(id.representation.rest)
           ne == Len(id.blake3.rest)
<1>11. 7 = (1 + na) + (1 + nb) + (1 + nc) + (1 + nd) + (1 + ne) + 2
  BY <1>2, <1>4, <1>5, <1>6, <1>7, <1>8, <1>9, <1>10
<1>12. na \in Nat /\ nb \in Nat /\ nc \in Nat /\ nd \in Nat /\ ne \in Nat
  BY <1>5, <1>6, <1>7, <1>8, <1>9
<1> HIDE DEF na, nb, nc, nd, ne
<1>13. na = 0 /\ nb = 0 /\ nc = 0 /\ nd = 0 /\ ne = 0
  BY <1>11, <1>12
<1>14. ASSUME NEW v \in V, Len(v.rest) = 0
       PROVE  v.rest = << >>
  <2>1. v.rest \in Seq(W)
    BY DEF V
  <2> QED
    BY <1>14, <2>1, EmptySeq
<1> QED
  BY <1>1, <1>13, <1>14 DEF na, nb, nc, nd, ne

\* Without spaces, the words are the fields.
LEMMA SevenWords ==
  ASSUME NEW T, NEW W, NEW id \in IdentitiesOver(T, W),
         id.app.rest = << >>, id.version.rest = << >>, id.platform.rest = << >>,
         id.representation.rest = << >>, id.blake3.rest = << >>
  PROVE  Render(id).words =
           << Word("app:", id.app.head), Word("v:", id.version.head),
              Word("plat:", id.platform.head), Word("rep:", id.representation.head),
              Word("b3:", id.blake3.head),
              Word("sz:", Decimal(id.size)), Word("ts:", Decimal(id.signedAt)) >>
<1> DEFINE w1 == Word("app:", id.app.head)
           w2 == Word("v:", id.version.head)
           w3 == Word("plat:", id.platform.head)
           w4 == Word("rep:", id.representation.head)
           w5 == Word("b3:", id.blake3.head)
           w6 == Word("sz:", Decimal(id.size))
           w7 == Word("ts:", Decimal(id.signedAt))
<1>3. /\ Labelled("app:", id.app) = << w1 >> /\ Labelled("v:", id.version) = << w2 >>
      /\ Labelled("plat:", id.platform) = << w3 >>
      /\ Labelled("rep:", id.representation) = << w4 >> /\ Labelled("b3:", id.blake3) = << w5 >>
  BY OneWord
<1>4. Render(id).words = InARow(w1, w2, w3, w4, w5, w6, w7)
  BY <1>3 DEF Render, InARow
<1> HIDE DEF w1, w2, w3, w4, w5, w6, w7
<1>6. Render(id).words = << w1, w2, w3, w4, w5, w6, w7 >>
  BY <1>4, SevenInARow
<1> QED
  BY <1>6 DEF w1, w2, w3, w4, w5, w6, w7

\* A comment is read as the identity it was written for, or refused: a value that
\* contains spaces, and so could spell the fields after it, makes a text of more
\* than seven words (parse_trusted_comment, to_trusted_comment).
THEOREM ReadIsWhatWasWritten ==
  ASSUME NEW T, NEW W, NEW id \in IdentitiesOver(T, W), IsIdentity(Parse(Render(id)))
  PROVE  Parse(Render(id)) = id
<1> DEFINE c == Render(id)
<1>1. c.tag \in Family /\ Readable(c)
  BY DEF Parse, IsIdentity
<1>2. Len(c.words) = 7
  BY <1>1 DEF Readable, Ordered
<1>3. /\ id.app.rest = << >> /\ id.version.rest = << >> /\ id.platform.rest = << >>
      /\ id.representation.rest = << >> /\ id.blake3.rest = << >>
  BY <1>2, WordCount
<1>4. c.words =
        << Word("app:", id.app.head), Word("v:", id.version.head),
           Word("plat:", id.platform.head), Word("rep:", id.representation.head),
           Word("b3:", id.blake3.head),
           Word("sz:", Decimal(id.size)), Word("ts:", Decimal(id.signedAt)) >>
  BY <1>3, SevenWords
<1>5. Parse(c) =
        [app |-> Value(c.words[1].text), version |-> Value(c.words[2].text),
         platform |-> Value(c.words[3].text), representation |-> Value(c.words[4].text),
         blake3 |-> Value(c.words[5].text),
         size |-> c.words[6].text.of, signedAt |-> c.words[7].text.of]
  BY <1>1 DEF Parse
<1> HIDE DEF c
<1>6. /\ c.words[1].text = id.app.head /\ c.words[2].text = id.version.head
      /\ c.words[3].text = id.platform.head /\ c.words[4].text = id.representation.head
      /\ c.words[5].text = id.blake3.head
      /\ c.words[6].text = Decimal(id.size) /\ c.words[7].text = Decimal(id.signedAt)
  BY <1>4 DEF Word
<1>7. Decimal(id.size).of = id.size /\ Decimal(id.signedAt).of = id.signedAt
  BY DEF Decimal, Text
<1>8. ASSUME NEW v \in [head : T, rest : Seq(W)], v.rest = << >>
      PROVE  Value(v.head) = v
  BY <1>8 DEF Value
<1>9. /\ Value(id.app.head) = id.app /\ Value(id.version.head) = id.version
      /\ Value(id.platform.head) = id.platform
      /\ Value(id.representation.head) = id.representation /\ Value(id.blake3.head) = id.blake3
  BY <1>3, <1>8 DEF IdentitiesOver
<1>10. Parse(c) = [app |-> id.app, version |-> id.version, platform |-> id.platform,
                   representation |-> id.representation, blake3 |-> id.blake3,
                   size |-> id.size, signedAt |-> id.signedAt]
  BY <1>5, <1>6, <1>7, <1>9
<1>11. id = [app |-> id.app, version |-> id.version, platform |-> id.platform,
             representation |-> id.representation, blake3 |-> id.blake3,
             size |-> id.size, signedAt |-> id.signedAt]
  BY DEF IdentitiesOver
<1> QED
  BY <1>10, <1>11 DEF c

\* Comments over texts of some set.  Of what a text is, this is all that matters: it
\* is digits and nothing else, and no zero comes first, only when it is the decimal
\* of a number.
CommentsOver(T) == [tag : STRING, words : Seq([key : STRING, text : T])]
AsDigits(text) ==
  (text.len > 0 /\ text.with = {"0-9"} /\ text.zeros = 0 /\ text.of <= MaxU64)
    => text = Decimal(text.of)

\* An identity has one spelling: whatever was read as it is what it is written as,
\* so two comments that differ never state the same release
\* (release_identity.rs, canonical form).
THEOREM OneSpelling ==
  ASSUME NEW T, \A text \in T : AsDigits(text),
         NEW c \in CommentsOver(T), IsIdentity(Parse(c))
  PROVE  Render(Parse(c)) = c
<1> DEFINE K == [key : STRING, text : T]
           id == Parse(c)
           w(i) == c.words[i]
<1>1. /\ c.tag = PROTOCOL_V1 /\ Len(c.words) = 7
      /\ \A i \in 1 .. 7 : w(i).key = Keys[i]
      /\ IsDecimal(w(6).text) /\ IsDecimal(w(7).text)
      /\ id = [app |-> Value(w(1).text), version |-> Value(w(2).text),
               platform |-> Value(w(3).text), representation |-> Value(w(4).text),
               blake3 |-> Value(w(5).text),
               size |-> w(6).text.of, signedAt |-> w(7).text.of]
  BY DEF Parse, IsIdentity, Readable, Ordered, FieldsHold
<1>2. c.words \in Seq(K) /\ c \in [tag : STRING, words : Seq(K)]
  BY DEF CommentsOver
<1>3. /\ w(1).key = "app:" /\ w(2).key = "v:" /\ w(3).key = "plat:" /\ w(4).key = "rep:"
      /\ w(5).key = "b3:" /\ w(6).key = "sz:" /\ w(7).key = "ts:"
  BY <1>1 DEF Keys
<1>4. ASSUME NEW i \in 1 .. 7
      PROVE  w(i) \in K /\ w(i) = Word(w(i).key, w(i).text)
  <2>1. c.words[i] \in K
    BY <1>1, <1>2, ElementOfSeq
  <2> QED
    BY <2>1 DEF Word
<1>5. w(6).text = Decimal(w(6).text.of) /\ w(7).text = Decimal(w(7).text.of)
  <2>1. w(6).text \in T /\ w(7).text \in T
    BY <1>4
  <2> QED
    BY <1>1, <2>1 DEF AsDigits, IsDecimal
<1> HIDE DEF id
<1>6. /\ Labelled("app:", id.app) = << w(1) >> /\ Labelled("v:", id.version) = << w(2) >>
      /\ Labelled("plat:", id.platform) = << w(3) >>
      /\ Labelled("rep:", id.representation) = << w(4) >> /\ Labelled("b3:", id.blake3) = << w(5) >>
  <2>1. ASSUME NEW key \in KeySet, NEW i \in 1 .. 7, w(i).key = key
        PROVE  Labelled(key, Value(w(i).text)) = << w(i) >>
    <3>1. Labelled(key, Value(w(i).text)) = << Word(key, w(i).text) >>
      BY OneWord DEF Value
    <3> QED
      BY <1>4, <2>1, <3>1
  <2> QED
    BY <1>1, <1>3, <2>1 DEF KeySet
<1>7. Word("sz:", Decimal(id.size)) = w(6) /\ Word("ts:", Decimal(id.signedAt)) = w(7)
  BY <1>1, <1>3, <1>4, <1>5
<1>8. Render(id).words = InARow(w(1), w(2), w(3), w(4), w(5), w(6), w(7))
  BY <1>6, <1>7 DEF Render, InARow
<1>9. Render(id).words = << w(1), w(2), w(3), w(4), w(5), w(6), w(7) >>
  <2> QED
    BY <1>8, SevenInARow
<1>10. c.words = << w(1), w(2), w(3), w(4), w(5), w(6), w(7) >>
  <2> DEFINE t == << w(1), w(2), w(3), w(4), w(5), w(6), w(7) >>
  <2>1. t \in Seq(K) /\ Len(t) = 7 /\ \A i \in 1 .. 7 : t[i] = w(i)
    BY <1>4
  <2> HIDE DEF t, K
  <2> QED
    BY <1>1, <1>2, <2>1, SeqEqual DEF t
<1>11. Render(id) = [tag |-> PROTOCOL_V1, words |-> Render(id).words]
  BY DEF Render
<1>12. c = [tag |-> c.tag, words |-> c.words]
  BY <1>2
<1> QED
  BY <1>1, <1>9, <1>10, <1>11, <1>12 DEF id

=============================================================================
