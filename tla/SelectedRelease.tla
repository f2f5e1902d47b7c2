---------------------------- MODULE SelectedRelease ----------------------------
(***************************************************************************)
(* The release Tauri's check selected, as the client reads it, and what the  *)
(* client makes of it before and after it fetches anything: what it refuses, *)
(* which paths the manifest offers, and whether bytes in hand are the ones   *)
(* the signed identity names (crates/delta-core: manifest.rs, identity.rs,   *)
(* release_identity.rs and the gates of client.rs).                         *)
(***************************************************************************)
EXTENDS Integers

CONSTANTS
  Bytes,        \* contents an installer file may have
  Tars,         \* contents of an uncompressed tar
  Nil,          \* nothing: no file, no entry, no patch, no base
  Legacy, Malformed  \* a trusted comment without an identity, or an unusable one

VARIABLES doc, host  \* this update's release and context

\* A digest and a length the manifest declares, of contents of one kind.
Declared(kind) == [bytes : kind, size : Nat]

\* A patch file, as the digest the manifest declares for it determines it.
File == [from : Bytes \cup Tars \cup {Nil}, to : Bytes \cup Tars]

\* The tar layer's patch, and the direct one, from the running version.
TarPatches == [installer : Declared(Bytes), tar : Declared(Tars), file : File]
Patches == [base : Declared(Bytes) \cup {Nil}, file : File]

\* tar_layer, with the allow-list of representation and recipe as one verdict.
TarLayers == [supported : BOOLEAN, target : Declared(Tars), patch : TarPatches \cup {Nil}]

\* compressed_full, in an encoding this build decodes.
Copies == [file : File, size : Nat]

\* DeltaPlatform; sameSig compares its signature with the one Tauri selected.
Entries == [target : Declared(Bytes), sameSig : BOOLEAN, tar : TarLayers \cup {Nil},
            patch : Patches \cup {Nil}, copy : Copies \cup {Nil}]

\* ReleaseIdentity; ours: application, version and platform are the expected ones.
Identities == [ours : BOOLEAN, artifact : Bytes, repr : {"tar", "opaque"}]

\* The bytes the signature verifies for under the configured key, if any, and
\* what its trusted comment says.
Signatures == [over : Bytes \cup {Nil}, binding : Identities \cup {Legacy, Malformed}]

\* UpdateIdentity and the document it came with.  matches: the platform entries
\* with the URL and signature Tauri selected.
Keyed == 1 .. 2
Releases == [version : {"newer", "same", "older", "unordered"}, sig : Signatures,
             parses : BOOLEAN, sameVersion : BOOLEAN,
             matches : SUBSET Keyed, delta : [Keyed -> Entries \cup {Nil}]]

\* Context: recipe is what recompression produces on this machine, app the tar
\* rebuilt from the installed bundle.
Contexts == [cache : BOOLEAN, cached : Bytes \cup {Nil}, repr : {"tar", "opaque"},
             base : Bytes \cup {Nil}, app : Tars \cup {Nil}, seed : Bytes \cup {Nil},
             recipe : [Tars -> Bytes]]

-----------------------------------------------------------------------------
(* plan_update, up to the first path *)

Published == {doc.delta[key] : key \in doc.matches} \ {Nil}

\* resolve_identity: one document read two ways, or describing two artifacts.
Mismatched ==
  /\ doc.parses
  /\ \/ ~doc.sameVersion
     \/ doc.matches = {}
     \/ \E e, f \in Published : e.target # f.target \/ e.sameSig # f.sameSig
     \/ \E e \in Published : ~e.sameSig

\* The first of the agreeing entries; the caller knows there is one.
DeltaEntry ==
  doc.delta[CHOOSE key \in doc.matches :
              /\ doc.delta[key] # Nil
              /\ \A other \in doc.matches : doc.delta[other] # Nil => key <= other]

Binding == doc.sig.binding
Signed == Binding \notin {Legacy, Malformed}
SignedAs(repr) == Signed => Binding.repr = repr

\* evaluate_version and the advisory reading of the signature's identity.
Unacceptable ==
  \/ Mismatched
  \/ doc.version \in {"older", "unordered"}
  \/ doc.version = "newer" /\ (Binding = Malformed \/ (Signed /\ ~Binding.ours))

Offered == doc.parses /\ Published # {}

Layer == DeltaEntry.tar
TarPatch == Layer.patch

TarUsable ==
  /\ host.cache \/ host.app # Nil
  /\ Layer # Nil /\ Layer.supported /\ TarPatch # Nil

\* Mutant of Contradicted: the digest compared with itself, as at planning.
ContradictedByName(bytes) ==
  Binding = Malformed \/ (Signed /\ ~Binding.ours)

\* check_release_identity, against the bytes in hand.
Contradicted(bytes) ==
  \/ Binding = Malformed
  \/ Signed /\ (~Binding.ours \/ Binding.artifact # bytes)

-----------------------------------------------------------------------------

\* A release whose signature, identity and declared installer are in order.
\* What its manifest says about patches, bases and copies may be anything.
Honest ==
  /\ ~Unacceptable /\ doc.version = "newer"
  /\ doc.sig.over # Nil /\ ~Contradicted(doc.sig.over)
  /\ Offered =>
       /\ DeltaEntry.target.bytes = doc.sig.over
       /\ TarUsable => SignedAs("tar")
=============================================================================
