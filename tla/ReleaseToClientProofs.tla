------------------------ MODULE ReleaseToClientProofs ------------------------
(***************************************************************************)
(* Proofs about ReleaseToClient, for any release directory and any client:   *)
(* what release-check has accepted is an honest release to each of them.     *)
(*                                                                         *)
(* A client judges a release by other rules than release-check, and of       *)
(* another document: its platform's part of the manifest, the comment of     *)
(* the signature, the version it runs.  The lemmas go through those rules    *)
(* one by one.                                                             *)
(***************************************************************************)
EXTENDS ReleaseToClient, ReleaseBuildProofs

\* Everything below is about a platform whose release was accepted.
AcceptedOn(p) ==
  /\ p \in Platforms /\ accepted[p] # Nil
  /\ accepted[p].artifact \in Installers
  /\ Acceptable(p, manifest.version, accepted[p].artifact, accepted[p].insecure)

\* The signature that was accepted is bound to this release, in a client's eyes.
LEMMA BindingIsOurs ==
  ASSUME NEW p \in Platforms, AcceptedOn(p)
  PROVE  LET b == ReadBinding(manifest.full[p].sig.comment, p) IN
         /\ b \notin {Legacy, Malformed} /\ b.ours /\ b.artifact = accepted[p].artifact
         /\ manifest.delta[p] # Nil /\ manifest.delta[p].layer # Nil => b.repr = "tar"
<1> DEFINE stated == Parse(manifest.full[p].sig.comment)
           b == ReadBinding(manifest.full[p].sig.comment, p)
<1>1. /\ IsIdentity(stated)
      /\ States(stated, AppId, VersionText[manifest.version], PlatformText[p],
                DigestText[accepted[p].artifact], SizeOf[accepted[p].artifact])
      /\ manifest.delta[p] # Nil /\ manifest.delta[p].layer # Nil =>
           stated.representation.head.of = "app-tar-gz-v1"
  BY DEF AcceptedOn, Acceptable
<1> HIDE DEF stated
<1>2. stated.blake3.head.of = accepted[p].artifact
  BY <1>1, ClientAssumption DEF States, Value, AcceptedOn
<1>3. b = [ours |-> /\ stated.app = Value(AppId) /\ stated.platform = Value(PlatformText[p])
                    /\ stated.version = Value(VersionText[manifest.version]),
           artifact |-> stated.blake3.head.of,
           repr |-> IF stated.representation.head.of = "app-tar-gz-v1" THEN "tar" ELSE "opaque"]
  BY <1>1 DEF ReadBinding, stated
<1>4. b.ours /\ b.artifact = accepted[p].artifact
  BY <1>1, <1>2, <1>3 DEF States
<1>5. b \in [ours : BOOLEAN, artifact : Installers, repr : {"tar", "opaque"}]
  BY <1>2, <1>3 DEF AcceptedOn
<1>6. manifest.delta[p] # Nil /\ manifest.delta[p].layer # Nil => b.repr = "tar"
  BY <1>1, <1>3
<1> QED
  BY <1>4, <1>5, <1>6, ClientAssumption

\* What a client of that platform reads.
LEMMA ReleaseRead ==
  ASSUME NEW p \in Platforms, AcceptedOn(p), NEW from
  PROVE  LET d == ReadRelease(p, from) IN
         /\ d.version = "newer" /\ d.parses /\ d.sameVersion /\ d.matches = {1}
         /\ d.sig.over = accepted[p].artifact
         /\ d.sig.binding = ReadBinding(manifest.full[p].sig.comment, p)
         /\ d.delta[1] # Nil =>
              /\ manifest.delta[p] # Nil
              /\ d.delta[1].sameSig /\ d.delta[1].target.bytes = accepted[p].artifact
              /\ d.delta[1].tar # Nil => manifest.delta[p].layer # Nil
<1> DEFINE e == manifest.delta[p]
           s == manifest.full[p].sig
           read == ReadEntry(e, s, from)
           d == ReadRelease(p, from)
<1>1. /\ Valid(manifest) /\ s.over = accepted[p].artifact
      /\ e # Nil => e.target = accepted[p].artifact
  BY DEF AcceptedOn, Acceptable
<1>2. e # Nil => s = e.sig
  BY <1>1 DEF Valid
<1>3. /\ d.version = "newer" /\ d.parses /\ d.sameVersion /\ d.matches = {1}
      /\ d.sig.over = s.over /\ d.sig.binding = ReadBinding(s.comment, p)
      /\ d.delta[1] = read
  BY <1>1 DEF ReadRelease
<1>4. read # Nil =>
        /\ e # Nil
        /\ read.sameSig = (e.sig = s) /\ read.target.bytes = e.target
        /\ read.tar = ReadLayer(e.layer, from)
  BY DEF ReadEntry, Sized
<1>5. read # Nil /\ read.tar # Nil => e.layer # Nil
  BY <1>4 DEF ReadLayer
<1> HIDE DEF e, s, read, d
<1> QED
  BY <1>1, <1>2, <1>3, <1>4, <1>5 DEF e, s, d

\* A client's rules, of a release like that.
LEMMA HonestRead ==
  ASSUME NEW p \in Platforms, AcceptedOn(p), NEW from, Nil \notin Installers
  PROVE  Client(ReadRelease(p, from), WithCache)!Honest
<1> DEFINE d == ReadRelease(p, from)
           b == d.sig.binding
<1>1. /\ d.version = "newer" /\ d.parses /\ d.sameVersion /\ d.matches = {1}
      /\ d.sig.over = accepted[p].artifact
      /\ d.delta[1] # Nil =>
           /\ d.delta[1].sameSig /\ d.delta[1].target.bytes = accepted[p].artifact
  BY ReleaseRead
<1>2. /\ b \notin {Legacy, Malformed} /\ b.ours /\ b.artifact = accepted[p].artifact
      /\ d.delta[1] # Nil /\ d.delta[1].tar # Nil => b.repr = "tar"
  BY ReleaseRead, BindingIsOurs
<1>3. accepted[p].artifact # Nil
  BY DEF AcceptedOn
<1> HIDE DEF d
<1>4. Client(d, WithCache)!Published = {d.delta[1]} \ {Nil}
  BY <1>1 DEF Client!Published
<1>5. ~Client(d, WithCache)!Mismatched
  BY <1>1, <1>4 DEF Client!Mismatched
<1>6. ~Client(d, WithCache)!Unacceptable /\ ~Client(d, WithCache)!Contradicted(d.sig.over)
  BY <1>1, <1>2, <1>5
     DEF Client!Unacceptable, Client!Contradicted, Client!Binding, Client!Signed
<1>7. d.delta[1] # Nil => Client(d, WithCache)!DeltaEntry = d.delta[1]
  BY <1>1 DEF Client!DeltaEntry
<1>8. Client(d, WithCache)!Offered =>
        /\ Client(d, WithCache)!DeltaEntry.target.bytes = d.sig.over
        /\ Client(d, WithCache)!TarUsable => Client(d, WithCache)!SignedAs("tar")
  BY <1>1, <1>2, <1>4, <1>7
     DEF Client!Offered, Client!TarUsable, Client!Layer, Client!SignedAs, Client!Binding
<1>9. Client(d, WithCache)!Honest
  BY <1>1, <1>3, <1>6, <1>8 DEF Client!Honest
<1> QED
  BY <1>9 DEF d

\* Nothing in it leads a client to another machine in the clear.
LEMMA UrlsSafe ==
  ASSUME NEW p \in Platforms, AcceptedOn(p)
  PROVE  \A url \in UrlsOf(manifest, p) :
           url.scheme = "https" \/ (accepted[p].insecure /\ IsLoopback(url))
BY DEF AcceptedOn, Acceptable, Publishable

\* What release-check has accepted for a platform is, for every client of it and
\* every version that client may run, a release UpdateFlow calls honest, whatever
\* has been done to the release directory since (verify.rs against client.rs).
THEOREM WhatIsAcceptedIsHonest == ReleaseSpec => []PublishedIsHonest
<1>1. ReleaseInv => PublishedIsHonest
  <2> SUFFICES ASSUME ReleaseInv, NEW p \in Platforms, NEW from \in Versions, accepted[p] # Nil
               PROVE  /\ manifest.full[p] # Nil
                      /\ manifest.full[p].sig.over = accepted[p].artifact
                      /\ \A url \in UrlsOf(manifest, p) :
                           url.scheme = "https" \/ (accepted[p].insecure /\ IsLoopback(url))
                      /\ Client(ReadRelease(p, from), WithCache)!Honest
    BY DEF PublishedIsHonest
  <2>1. AcceptedOn(p)
    BY DEF ReleaseInv, ReleaseTypeOK, AcceptedStays, AcceptedOn
  <2>2. manifest.full[p] # Nil /\ manifest.full[p].sig.over = accepted[p].artifact
    BY <2>1 DEF AcceptedOn, Acceptable
  <2>3. Nil \notin Installers
    BY ReleaseAssumption DEF Contents
  <2> QED
    BY <2>1, <2>2, <2>3, UrlsSafe, HonestRead
<1> QED
  BY <1>1, ReleaseInvHolds, PTL
=============================================================================
