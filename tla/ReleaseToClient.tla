--------------------------- MODULE ReleaseToClient ---------------------------
(***************************************************************************)
(* The release directory and the clients that read what is uploaded from it *)
(* (tests/end_to_end.rs): ReleaseBuild's manifest as the release a client    *)
(* selects and UpdateFlow updates to.                                       *)
(***************************************************************************)
EXTENDS ReleaseBuild

\* A digest names its content, and what a client reads is no marker.
ASSUME ClientAssumption ==
  /\ \A c \in Installers : DigestText[c].of = c
  /\ {Legacy, Malformed} \cap [ours : BOOLEAN, artifact : Installers, repr : {"tar", "opaque"}] = {}

\* What a client that was handed release d makes of it, on a host h.
Client(d, h) == INSTANCE SelectedRelease WITH Bytes <- Installers, doc <- d, host <- h

Sized(content) == [bytes |-> content, size |-> SizeOf[content]]

\* An entry as the client running version from reads it.
ReadDirect(patch) ==
  IF patch = Nil THEN Nil ELSE [base |-> Sized(patch.base), file |-> patch.file]
ReadTar(patch) ==
  IF patch = Nil THEN Nil
  ELSE [installer |-> Sized(patch.installer), tar |-> Sized(patch.tar), file |-> patch.file]
ReadLayer(l, from) ==
  IF l = Nil THEN Nil
  ELSE [supported |-> TRUE, target |-> Sized(l.target), patch |-> ReadTar(l.patches[from])]
ReadEntry(e, signature, from) ==
  IF e = Nil THEN Nil
  ELSE [target |-> Sized(e.target), sameSig |-> e.sig = signature,
        tar |-> ReadLayer(e.layer, from), patch |-> ReadDirect(e.patches[from]),
        copy |-> IF e.full = Nil THEN Nil ELSE [file |-> e.full.file, size |-> 1]]

\* What a client of the application on platform p reads in a signature: an
\* identity, its own or not, or why there is none.
ReadBinding(comment, p) ==
  LET stated == Parse(comment) IN
  IF ~IsIdentity(stated) THEN stated
  ELSE [ours |-> /\ stated.app = Value(AppId) /\ stated.platform = Value(PlatformText[p])
                 /\ stated.version = Value(VersionText[manifest.version]),
        artifact |-> stated.blake3.head.of,
        repr |-> IF stated.representation.head.of = "app-tar-gz-v1" THEN "tar" ELSE "opaque"]

\* The release Tauri's check selects on platform p.
ReadRelease(p, from) ==
  LET s == manifest.full[p].sig IN
  [version |-> "newer",
   sig |-> [over |-> s.over, binding |-> ReadBinding(s.comment, p)],
   parses |-> Valid(manifest), sameVersion |-> TRUE, matches |-> {1},
   delta |-> <<ReadEntry(manifest.delta[p], s, from), Nil>>]

\* A client that has a cache, so that no published path is out of its reach.
WithCache == [cache |-> TRUE, app |-> Nil]

\* What release-check has accepted is, to every client of that platform, a release
\* of the kind UpdateFlow's DeltaNeverFatal is about: no client refuses it, and
\* what its paths lead to is the artifact that was signed and uploaded; nothing in it
\* sends a client to another machine in the clear.
PublishedIsHonest ==
  \A p \in Platforms, from \in Versions :
    accepted[p] # Nil /\ from # manifest.version =>
      /\ manifest.full[p] # Nil /\ manifest.full[p].sig.over = accepted[p].artifact
      /\ \A url \in UrlsOf(manifest, p) :
           url.scheme = "https" \/ (accepted[p].insecure /\ IsLoopback(url))
      /\ Client(ReadRelease(p, from), WithCache)!Honest
=============================================================================
