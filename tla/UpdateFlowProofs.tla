--------------------------- MODULE UpdateFlowProofs ---------------------------
(***************************************************************************)
(* Proofs about UpdateFlow, for any set of releases and manifests, any       *)
(* hosts, any contents and every fault.                                     *)
(*                                                                         *)
(* The invariant FlowInv says what each place of an update knows: which      *)
(* gates were passed to get there.  The release and the host never change    *)
(* during an update, so neither does anything computed from them (Fixed);    *)
(* each action then only has to account for the place it moves to.          *)
(***************************************************************************)
EXTENDS UpdateFlow, TLAPS

InTar == {"tar_app", "tar_fetch", "tar_apply"}
InDirect == {"direct_fetch", "direct_apply"}
InCopy == {"copy_fetch", "copy_apply"}
Placed == {"verify", "stage", "install"}

\* A plan that was accepted is for a newer version.
KnowsRelease ==
  pc \notin {"plan", "done"} => doc.version = "newer" /\ ~Unacceptable

\* Delta paths are entered only with a usable manifest and a signed identity;
\* the tar layer's only under the size ceilings and a tar signature.
KnowsDelta ==
  /\ pc \in {"tar", "direct"} \cup InTar \cup InDirect => DeltaAllowed /\ Signed
  /\ pc \in InTar => TarUsable /\ Layer.target.size <= MaxTar /\ TarPatch.tar.size <= MaxTar
  /\ "tar" \in attempted => SignedAs("tar")
  /\ pc \in InDirect => Patch # Nil /\ (host.base = Nil => SignedAs("opaque"))
  /\ pc \in InCopy => CopyUsable

\* A source is named exactly when an artifact is in the workspace, and what it
\* names is how the artifact came there.
KnowsSource ==
  /\ pc \in Placed => source # "none"
  /\ source # "none" => pc \in Placed \cup {"done"}
  /\ source \in {"tar-delta", "delta"} => Signed
  /\ source = "delta" /\ host.base = Nil => SignedAs("opaque")
  /\ pc \in {"plan", "tar"} => fetched = << >>
  /\ pc # "done" => outcome = "none"
  /\ source = "full" => fetched # << >> /\ Last(fetched) = "full"

\* Until somebody else writes to it, the workspace holds what was put there.
KnowsDisk ==
  ~tampered =>
    /\ pc \in Placed => disk # Nil
    /\ source \in {"tar-delta", "delta", "compressed-full"} =>
         Offered /\ disk = DeltaEntry.target.bytes

\* Only bytes that passed both checks are ever staged or installed.
KnowsVerified ==
  /\ pc \in {"stage", "install"} => verified # Nil
  /\ verified # Nil => /\ pc \in {"stage", "install", "done"}
                       /\ doc.version = "newer" /\ verified = doc.sig.over
                       /\ ~Contradicted(verified) /\ source # "none"
  /\ staged \in {Nil, verified} /\ installed \in {Nil, verified}

FlowInv ==
  /\ FlowTypeOK /\ KnowsRelease /\ KnowsDelta /\ KnowsSource /\ KnowsDisk /\ KnowsVerified
  /\ PatchOverItsBase /\ WorkBounded /\ DeltaNeverFatal

-----------------------------------------------------------------------------
(* Facts about the data. *)

\* The larger of two sizes.
LEMMA MaxOfTwo ==
  ASSUME NEW a \in Nat, NEW b \in Nat
  PROVE  Max({a, b}) \in Nat /\ Max({a, b}) \in {a, b} /\ a <= Max({a, b}) /\ b <= Max({a, b})
<1>1. \E m \in {a, b} : \A n \in {a, b} : m >= n
  <2>1. CASE a >= b
    BY <2>1
  <2>2. CASE b >= a
    BY <2>2
  <2> QED
    BY <2>1, <2>2
<1> QED
  BY <1>1 DEF Max

\* The smallest key with an entry, which a release is read by.
LEMMA FirstOfKeys ==
  ASSUME NEW S, S \subseteq Keyed, S # {}
  PROVE  \E m \in S : \A n \in S : m <= n
<1>1. CASE 1 \in S
  BY <1>1 DEF Keyed
<1>2. CASE 1 \notin S
  <2>1. ASSUME NEW n \in S
        PROVE  n = 2
    <3>1. n \in 1 .. 2 /\ n # 1
      BY <1>2 DEF Keyed
    <3> QED
      BY <3>1
  <2> QED
    BY <2>1
<1> QED
  BY <1>1, <1>2

\* A release that offers deltas has a well-formed entry.
LEMMA EntryParts ==
  ASSUME FlowTypeOK, Offered
  PROVE  /\ DeltaEntry.target.bytes \in Bytes /\ DeltaEntry.target.size \in Nat
         /\ Layer # Nil => Layer.target.bytes \in Tars /\ Layer.target.size \in Nat
         /\ Layer # Nil /\ TarPatch # Nil => TarPatch.tar.size \in Nat
<1> DEFINE Keys == {key \in doc.matches : doc.delta[key] # Nil}
<1>1. doc \in Releases
  BY WorldAssumption DEF FlowTypeOK
<1>2. doc.matches \subseteq Keyed /\ doc.delta \in [Keyed -> Entries \cup {Nil}]
  BY <1>1 DEF Releases
<1>3. Keys # {} /\ Keys \subseteq Keyed
  BY <1>2 DEF Offered, Published
<1>4. \E key \in Keys : \A other \in Keys : key <= other
  BY <1>3, FirstOfKeys
<1>5. DeltaEntry \in Entries
  BY <1>2, <1>4 DEF DeltaEntry
<1>6. DeltaEntry.target \in Declared(Bytes)
  BY <1>5 DEF Entries
<1>7. Layer \in TarLayers \cup {Nil}
  BY <1>5 DEF Entries, Layer
<1>8. Layer # Nil => Layer.target \in Declared(Tars) /\ TarPatch \in TarPatches \cup {Nil}
  BY <1>7 DEF TarLayers, TarPatch
<1>9. Layer # Nil /\ TarPatch # Nil => TarPatch.tar \in Declared(Tars)
  BY <1>8 DEF TarPatches
<1> QED
  BY <1>6, <1>8, <1>9 DEF Declared

\* What the host hands over is well-formed.
LEMMA HostParts ==
  ASSUME FlowTypeOK
  PROVE  /\ host.cached \in Bytes \cup {Nil} /\ host.base \in Bytes \cup {Nil}
         /\ host.seed \in Bytes \cup {Nil} /\ host.app \in Tars \cup {Nil}
         /\ host.recipe \in [Tars -> Bytes]
BY WorldAssumption DEF FlowTypeOK, Contexts

\* What is computed from the release and the host is fixed for the update.
LEMMA Fixed ==
  ASSUME UNCHANGED world
  PROVE  /\ doc' = doc /\ host' = host
         /\ Binding' = Binding /\ Signed' = Signed
         /\ Offered' = Offered /\ DeltaEntry' = DeltaEntry /\ Layer' = Layer
         /\ TarPatch' = TarPatch /\ Patch' = Patch
         /\ Unacceptable' = Unacceptable /\ DeltaAllowed' = DeltaAllowed
         /\ TarUsable' = TarUsable /\ CopyUsable' = CopyUsable
<1>1. doc' = doc /\ host' = host
  BY DEF world
<1>2. Binding' = Binding /\ Signed' = Signed /\ Offered' = Offered /\ Published' = Published
  BY <1>1 DEF Binding, Signed, Offered, Published
<1>3. DeltaEntry' = DeltaEntry
  BY <1>1 DEF DeltaEntry
<1>4. Layer' = Layer /\ Patch' = Patch
  BY <1>3 DEF Layer, Patch
<1>5. TarPatch' = TarPatch
  BY <1>4 DEF TarPatch
<1>6. Mismatched' = Mismatched
  BY <1>1, <1>2 DEF Mismatched
<1>7. Unacceptable' = Unacceptable
  BY <1>1, <1>2, <1>6 DEF Unacceptable
<1>8. DeltaAllowed' = DeltaAllowed
  BY <1>2, <1>3 DEF DeltaAllowed
<1>9. TarUsable' = TarUsable
  BY <1>1, <1>4, <1>5 DEF TarUsable
<1>10. CopyUsable' = CopyUsable
  BY <1>2, <1>3, <1>6 DEF CopyUsable, Copy
<1> QED
  BY <1>1, <1>2, <1>3, <1>4, <1>5, <1>7, <1>8, <1>9, <1>10

\* A decoder under one of the ceilings keeps the work under the larger of them.
LEMMA Decoding ==
  ASSUME FlowTypeOK, WorkBounded, NEW bound \in Nat, bound <= MaxTarget \/ bound <= MaxTar,
         Decode(bound)
  PROVE  work' \in Nat /\ work' <= Max({MaxTarget, MaxTar})
<1>1. /\ Max({MaxTarget, MaxTar}) \in Nat
      /\ MaxTarget <= Max({MaxTarget, MaxTar}) /\ MaxTar <= Max({MaxTarget, MaxTar})
  BY DataAssumption, MaxOfTwo
<1>2. work \in Nat /\ work' = Max({work, bound})
  BY DEF FlowTypeOK, Decode
<1>3. work' \in Nat /\ work' \in {work, bound}
  BY <1>2, MaxOfTwo
<1>4. work <= Max({MaxTarget, MaxTar})
  BY DEF WorkBounded
<1> QED
  BY <1>1, <1>2, <1>3, <1>4, DataAssumption

-----------------------------------------------------------------------------
\* Every step of an update preserves FlowInv.
LEMMA FlowInvStep ==
  ASSUME FlowInv, [FlowNext]_vars
  PROVE  FlowInv'
<1>0. UNCHANGED world
  BY DEF FlowNext, vars, world, PlanRefused, PlanUpToDate, PlanProceed, TarUnavailable,
       TarRefused, TarFromApp, TarApply, DirectUnavailable, DirectApply, NoWorkspace,
       FullWorkspace, CopyApply, FullFetchFails, Verify, Stage, Install, Tamper,
       TarFromCache, DirectBase, DirectFrom, TarFetch, DirectFetch, CopyFetch, FullFetch
<1> USE <1>0, Fixed DEF FlowInv, InTar, InDirect, InCopy, Placed, Goto, Finish, world,
      SignedAs, Meets, Contradicted, Last
<1>1. CASE PlanRefused
  BY <1>1 DEF PlanRefused, FlowTypeOK, KnowsRelease, KnowsSource, KnowsDelta, KnowsDisk,
       KnowsVerified, PatchOverItsBase, WorkBounded, DeltaNeverFatal, Honest
<1>2. CASE PlanUpToDate
  BY <1>2 DEF PlanUpToDate, FlowTypeOK, KnowsRelease, KnowsSource, KnowsDelta, KnowsDisk,
       KnowsVerified, PatchOverItsBase, WorkBounded, DeltaNeverFatal, Honest
<1>3. CASE PlanProceed
  <2>1. KnowsDelta'
    BY <1>3 DEF PlanProceed, KnowsDelta, Unacceptable, DeltaAllowed, Signed
  <2>2. /\ FlowTypeOK' /\ KnowsRelease' /\ KnowsSource' /\ KnowsDisk'
        /\ KnowsVerified' /\ PatchOverItsBase' /\ WorkBounded' /\ DeltaNeverFatal'
    BY <1>3 DEF PlanProceed, FlowTypeOK, KnowsRelease, KnowsSource, KnowsDelta, KnowsDisk,
         KnowsVerified, PatchOverItsBase, WorkBounded, DeltaNeverFatal, Honest
  <2> QED
    BY <2>1, <2>2
<1>4. CASE TarUnavailable
  BY <1>4 DEF TarUnavailable, FlowTypeOK, KnowsRelease, KnowsSource, KnowsDelta,
       KnowsDisk, KnowsVerified, PatchOverItsBase, WorkBounded, DeltaNeverFatal, Honest
<1>5. CASE TarRefused
  <2>1. DeltaNeverFatal'
    BY <1>5 DEF TarRefused, DeltaNeverFatal, Honest, KnowsDelta, DeltaAllowed
  <2>2. /\ FlowTypeOK' /\ KnowsRelease' /\ KnowsDelta' /\ KnowsSource'
        /\ KnowsDisk' /\ KnowsVerified' /\ PatchOverItsBase' /\ WorkBounded'
    BY <1>5 DEF TarRefused, FlowTypeOK, KnowsRelease, KnowsSource, KnowsDelta, KnowsDisk,
         KnowsVerified, PatchOverItsBase, WorkBounded
  <2> QED
    BY <2>1, <2>2
<1>6. CASE TarFromApp
  <2>1. TarPatch.tar.size \in Nat
    BY <1>6, EntryParts DEF TarFromApp, KnowsDelta, DeltaAllowed, TarUsable
  <2>2. work' \in Nat /\ work' <= Max({MaxTarget, MaxTar})
    <3>1. \/ work' = work
          \/ /\ Decode(TarPatch.tar.size)
             /\ TarPatch.tar.size <= MaxTarget \/ TarPatch.tar.size <= MaxTar
      BY <1>6, <2>1, DataAssumption DEF TarFromApp, KnowsDelta, DeltaAllowed, TarUsable
    <3> QED
      BY <2>1, <3>1, Decoding DEF FlowTypeOK, WorkBounded
  <2>3. base' \in Bytes \cup Tars \cup {Nil}
    BY <1>6, HostParts, DataAssumption DEF TarFromApp, FlowTypeOK
  <2>4. FlowTypeOK'
    BY <1>6, <2>2, <2>3 DEF TarFromApp, FlowTypeOK
  <2>5. WorkBounded'
    BY <1>6, <2>2 DEF TarFromApp, WorkBounded
  <2>6. /\ KnowsRelease' /\ KnowsDelta' /\ KnowsSource' /\ KnowsDisk'
        /\ KnowsVerified' /\ PatchOverItsBase' /\ DeltaNeverFatal'
    BY <1>6 DEF TarFromApp, KnowsRelease, KnowsSource, KnowsDelta, FlowTypeOK, KnowsDisk,
         KnowsVerified, PatchOverItsBase, DeltaNeverFatal, Honest
  <2> QED
    BY <2>4, <2>5, <2>6
<1>7. CASE TarApply
  <2>1. Layer.target.size \in Nat
    BY <1>7, EntryParts DEF TarApply, KnowsDelta, DeltaAllowed, TarUsable
  <2>2. work' \in Nat /\ work' <= Max({MaxTarget, MaxTar})
    <3>1. \/ work' = work
          \/ /\ Decode(Layer.target.size)
             /\ Layer.target.size <= MaxTarget \/ Layer.target.size <= MaxTar
      BY <1>7, <2>1, DataAssumption DEF TarApply, KnowsDelta, DeltaAllowed, TarUsable
    <3> QED
      BY <2>1, <3>1, Decoding DEF FlowTypeOK, WorkBounded
  <2>3. disk' \in Bytes \cup {Nil}
    BY <1>7, EntryParts, HostParts, DataAssumption DEF TarApply, FlowTypeOK, KnowsDelta,
         DeltaAllowed, TarUsable, Reconstructs
  <2>4. FlowTypeOK'
    BY <1>7, <2>2, <2>3 DEF TarApply, FlowTypeOK
  <2>5. KnowsDisk'
    BY <1>7, DataAssumption, EntryParts, HostParts DEF TarApply, FlowTypeOK, KnowsDisk,
         KnowsSource, KnowsDelta, DeltaAllowed, TarUsable, Reconstructs
  <2>6. WorkBounded'
    BY <1>7, <2>2 DEF TarApply, WorkBounded
  <2>7. /\ KnowsRelease' /\ KnowsDelta' /\ KnowsSource' /\ KnowsVerified'
        /\ PatchOverItsBase' /\ DeltaNeverFatal'
    BY <1>7 DEF TarApply, KnowsRelease, KnowsSource, KnowsDelta, FlowTypeOK,
         KnowsVerified, PatchOverItsBase, DeltaNeverFatal, Honest
  <2> QED
    BY <2>4, <2>5, <2>6, <2>7
<1>8. CASE DirectUnavailable
  BY <1>8 DEF DirectUnavailable, FlowTypeOK, KnowsRelease, KnowsSource, KnowsDelta,
       KnowsDisk, KnowsVerified, PatchOverItsBase, WorkBounded, DeltaNeverFatal, Honest
<1>9. CASE DirectApply
  <2>1. DeltaEntry.target.size \in Nat
    BY <1>9, EntryParts DEF DirectApply, KnowsDelta, DeltaAllowed
  <2>2. work' \in Nat /\ work' <= Max({MaxTarget, MaxTar})
    <3>1. \/ work' = work
          \/ /\ Decode(DeltaEntry.target.size)
             /\ DeltaEntry.target.size <= MaxTarget \/ DeltaEntry.target.size <= MaxTar
      BY <1>9, <2>1, DataAssumption DEF DirectApply, KnowsDelta, DeltaAllowed
    <3> QED
      BY <2>1, <3>1, Decoding DEF FlowTypeOK, WorkBounded
  <2>3. disk' \in Bytes \cup {Nil}
    BY <1>9, EntryParts, DataAssumption DEF DirectApply, FlowTypeOK, KnowsDelta,
         DeltaAllowed, Reconstructs
  <2>4. FlowTypeOK'
    BY <1>9, <2>2, <2>3 DEF DirectApply, FlowTypeOK
  <2>5. KnowsDisk'
    BY <1>9, DataAssumption, EntryParts DEF DirectApply, FlowTypeOK, KnowsDisk,
         KnowsSource, KnowsDelta, DeltaAllowed, Reconstructs
  <2>6. WorkBounded'
    BY <1>9, <2>2 DEF DirectApply, WorkBounded
  <2>7. /\ KnowsRelease' /\ KnowsDelta' /\ KnowsSource' /\ KnowsVerified'
        /\ PatchOverItsBase' /\ DeltaNeverFatal'
    BY <1>9 DEF DirectApply, KnowsRelease, KnowsSource, KnowsDelta, FlowTypeOK,
         KnowsVerified, PatchOverItsBase, DeltaNeverFatal, Honest
  <2> QED
    BY <2>4, <2>5, <2>6, <2>7
<1>10. CASE NoWorkspace
  <2>1. attempted' \subseteq {"tar", "direct"}
    BY <1>10 DEF NoWorkspace, FlowTypeOK
  <2>2. FlowTypeOK'
    BY <1>10, <2>1 DEF NoWorkspace, FlowTypeOK
  <2>3. /\ KnowsRelease' /\ KnowsDelta' /\ KnowsSource' /\ KnowsDisk'
        /\ KnowsVerified' /\ PatchOverItsBase' /\ WorkBounded' /\ DeltaNeverFatal'
    BY <1>10 DEF NoWorkspace, KnowsRelease, KnowsSource, KnowsDelta, FlowTypeOK,
         KnowsDisk, KnowsVerified, PatchOverItsBase, WorkBounded, DeltaNeverFatal, Honest
  <2> QED
    BY <2>2, <2>3
<1>11. CASE FullWorkspace
  BY <1>11 DEF FullWorkspace, FlowTypeOK, KnowsRelease, KnowsSource, KnowsDelta,
       KnowsDisk, KnowsVerified, PatchOverItsBase, WorkBounded, DeltaNeverFatal, Honest
<1>12. CASE CopyApply
  <2>1. DeltaEntry.target.size \in Nat
    BY <1>12, EntryParts DEF CopyApply, KnowsDelta, CopyUsable
  <2>2. work' \in Nat /\ work' <= Max({MaxTarget, MaxTar})
    <3>1. \/ work' = work
          \/ /\ Decode(DeltaEntry.target.size)
             /\ DeltaEntry.target.size <= MaxTarget \/ DeltaEntry.target.size <= MaxTar
      BY <1>12, <2>1, DataAssumption DEF CopyApply, KnowsDelta, CopyUsable
    <3> QED
      BY <2>1, <3>1, Decoding DEF FlowTypeOK, WorkBounded
  <2>3. disk' \in Bytes \cup {Nil}
    BY <1>12, EntryParts, DataAssumption DEF CopyApply, FlowTypeOK, KnowsDelta,
         CopyUsable, Reconstructs
  <2>4. FlowTypeOK'
    BY <1>12, <2>2, <2>3 DEF CopyApply, FlowTypeOK
  <2>5. KnowsDisk'
    BY <1>12, DataAssumption, EntryParts DEF CopyApply, FlowTypeOK, KnowsDisk,
         KnowsSource, KnowsDelta, CopyUsable
  <2>6. WorkBounded'
    BY <1>12, <2>2 DEF CopyApply, WorkBounded
  <2>7. /\ KnowsRelease' /\ KnowsDelta' /\ KnowsSource' /\ KnowsVerified'
        /\ PatchOverItsBase' /\ DeltaNeverFatal'
    BY <1>12 DEF CopyApply, KnowsRelease, KnowsSource, KnowsDelta, FlowTypeOK,
         KnowsVerified, PatchOverItsBase, DeltaNeverFatal, Honest
  <2> QED
    BY <2>4, <2>5, <2>6, <2>7
<1>13. CASE FullFetchFails
  <2>1. DeltaNeverFatal'
    BY <1>13 DEF FullFetchFails, DeltaNeverFatal, Honest, FlowTypeOK
  <2>2. /\ FlowTypeOK' /\ KnowsRelease' /\ KnowsDelta' /\ KnowsSource'
        /\ KnowsDisk' /\ KnowsVerified' /\ PatchOverItsBase' /\ WorkBounded'
    BY <1>13 DEF FullFetchFails, FlowTypeOK, KnowsRelease, KnowsSource, KnowsDelta,
         KnowsDisk, KnowsVerified, PatchOverItsBase, WorkBounded
  <2> QED
    BY <2>1, <2>2
<1>14. CASE Verify
  <2>1. KnowsVerified'
    BY <1>14 DEF Verify, KnowsVerified, KnowsSource, KnowsRelease
  <2>2. DeltaNeverFatal'
    BY <1>14 DEF Verify, DeltaNeverFatal, Honest, FlowTypeOK, KnowsSource, KnowsDisk
  <2>3. /\ FlowTypeOK' /\ KnowsRelease' /\ KnowsDelta' /\ KnowsSource'
        /\ KnowsDisk' /\ PatchOverItsBase' /\ WorkBounded'
    BY <1>14 DEF Verify, FlowTypeOK, KnowsRelease, KnowsSource, KnowsDelta, KnowsDisk,
         PatchOverItsBase, WorkBounded
  <2> QED
    BY <2>1, <2>2, <2>3
<1>15. CASE Stage
  BY <1>15 DEF Stage, FlowTypeOK, KnowsRelease, KnowsSource, KnowsDelta, KnowsDisk,
       KnowsVerified, PatchOverItsBase, WorkBounded, DeltaNeverFatal, Honest
<1>16. CASE Install
  BY <1>16 DEF Install, FlowTypeOK, KnowsRelease, KnowsSource, KnowsDelta, KnowsDisk,
       KnowsVerified, PatchOverItsBase, WorkBounded, DeltaNeverFatal, Honest
<1>17. CASE Tamper
  BY <1>17 DEF Tamper, FlowTypeOK, KnowsRelease, KnowsSource, KnowsDelta, KnowsDisk,
       KnowsVerified, PatchOverItsBase, WorkBounded, DeltaNeverFatal, Honest
<1>18. ASSUME NEW got \in {host.cached, Nil}, TarFromCache(got)
      PROVE  FlowInv'
  <2>1. Layer.target.size \in Nat /\ TarPatch.tar.size \in Nat
    BY <1>18, EntryParts DEF TarFromCache, KnowsDelta, DeltaAllowed, TarUsable
  <2>2. work' \in Nat /\ work' <= Max({MaxTarget, MaxTar})
    <3>1. \/ work' = work
          \/ /\ Decode(TarPatch.tar.size)
             /\ TarPatch.tar.size <= MaxTarget \/ TarPatch.tar.size <= MaxTar
      BY <1>18, <2>1, DataAssumption DEF TarFromCache, KnowsDelta, DeltaAllowed, TarUsable
    <3> QED
      BY <2>1, <3>1, Decoding DEF FlowTypeOK, WorkBounded
  <2>3. base' \in Bytes \cup Tars \cup {Nil}
    BY <1>18, HostParts, DataAssumption DEF TarFromCache, FlowTypeOK
  <2>4. FlowTypeOK'
    BY <1>18, <2>2, <2>3 DEF TarFromCache, FlowTypeOK
  <2>5. KnowsDelta'
    BY <1>18, <2>1, DataAssumption DEF TarFromCache, KnowsDelta, KnowsRelease
  <2>6. WorkBounded'
    BY <1>18, <2>2 DEF TarFromCache, WorkBounded
  <2>7. /\ KnowsRelease' /\ KnowsSource' /\ KnowsDisk' /\ KnowsVerified'
        /\ PatchOverItsBase' /\ DeltaNeverFatal'
    BY <1>18 DEF TarFromCache, KnowsRelease, KnowsSource, KnowsDelta, FlowTypeOK,
         KnowsDisk, KnowsVerified, PatchOverItsBase, DeltaNeverFatal, Honest
  <2> QED
    BY <2>4, <2>5, <2>6, <2>7
<1>19. ASSUME NEW got \in {host.cached, Nil}, DirectBase(got)
      PROVE  FlowInv'
  <2>1. FlowTypeOK'
    BY <1>19, HostParts DEF DirectBase, DirectFrom, FlowTypeOK, CachedBase, SeededBase
  <2>2. KnowsDelta'
    BY <1>19 DEF DirectBase, DirectFrom, KnowsDelta, CachedBase, SeededBase
  <2>3. PatchOverItsBase'
    BY <1>19 DEF DirectBase, DirectFrom, PatchOverItsBase, CachedBase, SeededBase
  <2>4. /\ KnowsRelease' /\ KnowsSource' /\ KnowsDisk' /\ KnowsVerified'
        /\ WorkBounded' /\ DeltaNeverFatal'
    BY <1>19 DEF DirectBase, DirectFrom, KnowsRelease, KnowsSource, KnowsDelta,
         FlowTypeOK, KnowsDisk, KnowsVerified, WorkBounded, DeltaNeverFatal, Honest
  <2> QED
    BY <2>1, <2>2, <2>3, <2>4
<1>20. ASSUME NEW served \in BOOLEAN, TarFetch(served)
      PROVE  FlowInv'
  BY <1>20 DEF TarFetch, FlowTypeOK, KnowsRelease, KnowsSource, KnowsDelta, KnowsDisk,
       KnowsVerified, PatchOverItsBase, WorkBounded, DeltaNeverFatal, Honest
<1>21. ASSUME NEW served \in BOOLEAN, DirectFetch(served)
      PROVE  FlowInv'
  BY <1>21 DEF DirectFetch, FlowTypeOK, KnowsRelease, KnowsSource, KnowsDelta, KnowsDisk,
       KnowsVerified, PatchOverItsBase, WorkBounded, DeltaNeverFatal, Honest
<1>22. ASSUME NEW served \in BOOLEAN, CopyFetch(served)
      PROVE  FlowInv'
  BY <1>22 DEF CopyFetch, FlowTypeOK, KnowsRelease, KnowsSource, KnowsDelta, KnowsDisk,
       KnowsVerified, PatchOverItsBase, WorkBounded, DeltaNeverFatal, Honest
<1>23. ASSUME NEW bytes \in Bytes, FullFetch(bytes)
      PROVE  FlowInv'
  <2>1. KnowsDisk'
    BY <1>23, DataAssumption DEF FullFetch, KnowsDisk, KnowsSource
  <2>2. /\ FlowTypeOK' /\ KnowsRelease' /\ KnowsDelta' /\ KnowsSource'
        /\ KnowsVerified' /\ PatchOverItsBase' /\ WorkBounded' /\ DeltaNeverFatal'
    BY <1>23 DEF FullFetch, FlowTypeOK, KnowsRelease, KnowsSource, KnowsDelta,
         KnowsVerified, PatchOverItsBase, WorkBounded, DeltaNeverFatal, Honest
  <2> QED
    BY <2>1, <2>2
<1>24. CASE UNCHANGED vars
  BY <1>24 DEF vars, FlowTypeOK, KnowsRelease, KnowsSource, KnowsDelta, KnowsDisk,
       KnowsVerified, PatchOverItsBase, WorkBounded, DeltaNeverFatal, Honest
<1> QED
  BY <1>1, <1>2, <1>3, <1>4, <1>5, <1>6, <1>7, <1>8, <1>9, <1>10, <1>11, <1>12, <1>13,
       <1>14, <1>15, <1>16, <1>17, <1>18, <1>19, <1>20, <1>21, <1>22, <1>23, <1>24 DEF
       FlowNext

\* An update starts in FlowInv.
LEMMA FlowInvInit ==
  ASSUME FlowInit
  PROVE  FlowInv
<1>1. Max({MaxTarget, MaxTar}) \in Nat
  BY DataAssumption, MaxOfTwo
<1>2. FlowTypeOK
  <2>1. << >> \in Seq({"tar_patch", "patch", "copy", "full"})
    OBVIOUS
  <2>2. attempted \subseteq {"tar", "direct"} /\ tampered \in BOOLEAN /\ work \in Nat
    BY DEF FlowInit
  <2> QED
    BY <2>1, <2>2 DEF FlowInit, FlowTypeOK
<1>3. WorkBounded
  BY <1>1 DEF FlowInit, WorkBounded
<1>4. KnowsRelease /\ KnowsDelta /\ KnowsSource /\ KnowsDisk /\ KnowsVerified
  BY DEF FlowInit, KnowsRelease, KnowsDelta, KnowsSource, KnowsDisk, KnowsVerified, InTar,
       InDirect, InCopy, Placed
<1>5. PatchOverItsBase /\ DeltaNeverFatal
  BY DEF FlowInit, PatchOverItsBase, DeltaNeverFatal
<1> QED
  BY <1>2, <1>3, <1>4, <1>5 DEF FlowInv

\* FlowInv holds throughout an update.
LEMMA FlowInvHolds == FlowSpec => []FlowInv
BY FlowInvInit, FlowInvStep, PTL DEF FlowSpec

-----------------------------------------------------------------------------
(* The theorems. *)

\* Every state of an update is well-typed: in particular what is handed on as
\* an installer never is a bare tar, whichever path made it (TarApply).
THEOREM FlowTypeCorrect == FlowSpec => []FlowTypeOK
<1>1. FlowInv => FlowTypeOK
  BY DEF FlowInv
<1> QED
  BY <1>1, FlowInvHolds, PTL

\* Only bytes the configured key signed, as this newer release, are ever staged
\* or installed, whatever the manifest, the network and the workspace do
\* (flow.rs, verify_artifact and what follows it).
THEOREM InstalledOnlyRelease == FlowSpec => []InstalledIsRelease
<1>1. FlowInv => InstalledIsRelease
  <2> SUFFICES ASSUME FlowInv, NEW bytes \in {installed, staged} \ {Nil}
               PROVE  /\ bytes = doc.sig.over
                      /\ doc.version = "newer"
                      /\ \/ Binding = Legacy /\ source \in {"full", "compressed-full"}
                         \/ Signed /\ Binding.ours /\ Binding.artifact = bytes
    BY DEF InstalledIsRelease
  <2>1. bytes = verified /\ verified # Nil
    BY DEF FlowInv, KnowsVerified
  <2>2. /\ doc.version = "newer" /\ bytes = doc.sig.over
        /\ ~Contradicted(bytes) /\ source # "none"
    BY <2>1 DEF FlowInv, KnowsVerified
  <2>3. Signed => Binding.ours /\ Binding.artifact = bytes
    BY <2>2 DEF Contradicted
  <2>4. ~Signed => Binding = Legacy /\ source \in {"full", "compressed-full"}
    BY <2>2 DEF Contradicted, Signed, FlowInv, KnowsSource, FlowTypeOK
  <2> QED
    BY <2>2, <2>3, <2>4
<1> QED
  BY <1>1, FlowInvHolds, PTL

\* An update to a release in order never ends in an error because of a delta:
\* every path that gives up leads to the full download.
THEOREM DeltaIsNeverFatal == FlowSpec => []DeltaNeverFatal
<1>1. FlowInv => DeltaNeverFatal
  BY DEF FlowInv
<1> QED
  BY <1>1, FlowInvHolds, PTL

\* No patch is downloaded over a base it was not made against, unless the host
\* supplied the base itself.
THEOREM PatchesOverTheirBase == FlowSpec => []PatchOverItsBase
<1>1. FlowInv => PatchOverItsBase
  BY DEF FlowInv
<1> QED
  BY <1>1, FlowInvHolds, PTL

\* The tar layer and the cached or seeded direct base answer to different signed
\* representations: an update that tried the first never reports the second.
THEOREM NothingRelabelled == FlowSpec => []NoRelabelling
<1>1. FlowInv => NoRelabelling
  BY DEF FlowInv, KnowsDelta, KnowsSource, NoRelabelling, SignedAs
<1> QED
  BY <1>1, FlowInvHolds, PTL

\* Every decoder and rebuild runs under one of the local ceilings, whatever
\* sizes a manifest declares.
THEOREM WorkIsBounded == FlowSpec => []WorkBounded
<1>1. FlowInv => WorkBounded
  BY DEF FlowInv
<1> QED
  BY <1>1, FlowInvHolds, PTL

\* One artifact per update: what a check says never leads to another download.
THEOREM OneArtifact == FlowSpec => NoSecondAttempt
<1>1. FlowInv /\ [FlowNext]_vars =>
        [/\ source # "none" => UNCHANGED <<source, fetched>>
         /\ outcome' = "refused" /\ source = "none" => fetched' = << >>]_vars
  <2> SUFFICES ASSUME FlowInv, FlowNext
               PROVE  /\ source # "none" => UNCHANGED <<source, fetched>>
                      /\ outcome' = "refused" /\ source = "none" => fetched' = << >>
    OBVIOUS
  <2>1. KnowsSource
    BY DEF FlowInv
  <2> QED
    BY <2>1 DEF KnowsSource, Placed, Goto, Finish, FlowNext, PlanRefused, PlanUpToDate,
         PlanProceed, TarUnavailable, TarRefused, TarFromApp, TarApply, DirectUnavailable,
         DirectApply, NoWorkspace, FullWorkspace, CopyApply, FullFetchFails, Verify, Stage,
         Install, Tamper, TarFromCache, DirectBase, DirectFrom, TarFetch, DirectFetch,
         CopyFetch, FullFetch
<1> QED
  BY <1>1, FlowInvHolds, PTL DEF FlowSpec, NoSecondAttempt

-----------------------------------------------------------------------------
(* The order of downloads: FetchInv, on top of FlowInv. *)

\* Everything downloaded so far is one of the first n - 1 sources; the last
\* download is the n-th; sources were tried in their order.
Below(n) == \A i \in DOMAIN fetched : \E m \in 1 .. 4 : m < n /\ fetched[i] = Sources[m]
LastIs(n) == fetched # << >> /\ Last(fetched) = Sources[n]
InOrder ==
  \A i, j \in DOMAIN fetched : i < j =>
    \E m, n \in 1 .. 4 : m < n /\ fetched[i] = Sources[m] /\ fetched[j] = Sources[n]

\* Each place of an update knows which sources it has left behind.
FetchInv ==
  /\ InOrder
  /\ pc \in {"plan", "tar", "tar_app", "tar_fetch"} => Below(1)
  /\ pc \in {"tar_apply", "direct", "direct_fetch"} => Below(2)
  /\ pc \in {"direct_apply", "full", "copy_fetch"} => Below(3)
  /\ pc \in {"copy_apply", "full_fetch"} => Below(4)
  /\ pc = "tar_apply" \/ source = "tar-delta" => LastIs(1)
  /\ pc = "direct_apply" \/ source = "delta" => LastIs(2)
  /\ pc = "copy_apply" \/ source = "compressed-full" => LastIs(3)
  /\ source = "full" => LastIs(4)
  /\ outcome = "installed" => source # "none"

\* Nothing downloaded: what was downloaded stays as it was.
LEMMA Unfetched ==
  ASSUME fetched' = fetched
  PROVE  /\ InOrder' = InOrder
         /\ Below(1)' = Below(1) /\ Below(2)' = Below(2)
         /\ Below(3)' = Below(3) /\ Below(4)' = Below(4)
         /\ LastIs(1)' = LastIs(1) /\ LastIs(2)' = LastIs(2)
         /\ LastIs(3)' = LastIs(3) /\ LastIs(4)' = LastIs(4)
BY DEF InOrder, Below, LastIs, Last

\* A path that was skipped leaves the bound of the next one.
LEMMA BelowMore ==
  /\ Below(1) => Below(2)
  /\ Below(2) => Below(3)
  /\ Below(3) => Below(4)
BY DEF Below

\* A download from the n-th source when only earlier ones were used.
LEMMA Downloads ==
  ASSUME FlowTypeOK, InOrder, NEW n \in 1 .. 4, Below(n),
         fetched' = Append(fetched, Sources[n])
  PROVE  InOrder' /\ Below(n + 1)' /\ LastIs(n)'
<1>1. /\ fetched \in Seq({"tar_patch", "patch", "copy", "full"})
      /\ Sources[n] \in {"tar_patch", "patch", "copy", "full"}
  BY DEF FlowTypeOK, Sources
<1>2. /\ Len(fetched') = Len(fetched) + 1 /\ fetched'[Len(fetched) + 1] = Sources[n]
      /\ Len(fetched) \in Nat
      /\ DOMAIN fetched = 1 .. Len(fetched) /\ DOMAIN fetched' = 1 .. (Len(fetched) + 1)
      /\ \A i \in DOMAIN fetched : fetched'[i] = fetched[i]
  BY <1>1
<1>3. LastIs(n)'
  BY <1>1, <1>2 DEF LastIs, Last
<1>4. Below(n + 1)'
  <2> SUFFICES ASSUME NEW i \in DOMAIN fetched'
               PROVE  \E m \in 1 .. 4 : m < n + 1 /\ fetched'[i] = Sources[m]
    BY DEF Below
  <2>1. CASE i \in DOMAIN fetched
    BY <1>2, <2>1 DEF Below
  <2>2. CASE i = Len(fetched) + 1
    BY <1>2, <2>2
  <2> QED
    BY <1>2, <2>1, <2>2
<1>5. InOrder'
  <2> SUFFICES ASSUME NEW i \in DOMAIN fetched', NEW j \in DOMAIN fetched', i < j
               PROVE  \E l, m \in 1 .. 4 : /\ l < m /\ fetched'[i] = Sources[l]
                                           /\ fetched'[j] = Sources[m]
    BY DEF InOrder
  <2>1. CASE j \in DOMAIN fetched
    BY <1>2, <2>1 DEF InOrder
  <2>2. CASE j = Len(fetched) + 1
    <3>1. i \in DOMAIN fetched
      BY <1>2, <2>2
    <3>2. PICK l \in 1 .. 4 : l < n /\ fetched[i] = Sources[l]
      BY <3>1 DEF Below
    <3> QED
      BY <1>2, <2>2, <3>1, <3>2
  <2> QED
    BY <1>2, <2>1, <2>2
<1> QED
  BY <1>3, <1>4, <1>5

\* Every step of an update preserves FetchInv.
LEMMA FetchInvStep ==
  ASSUME FlowInv, FetchInv, [FlowNext]_vars
  PROVE  FetchInv'
<1>0. FlowTypeOK /\ KnowsSource /\ InOrder
  BY DEF FlowInv, FetchInv
<1>1. CASE fetched' = fetched
  BY <1>0, <1>1, Unfetched, BelowMore
  DEF FetchInv, KnowsSource, Placed, Goto, Finish, FlowNext, vars, PlanRefused, PlanUpToDate,
      PlanProceed, TarUnavailable, TarRefused, TarFromApp, TarApply, DirectUnavailable,
      DirectApply, NoWorkspace, FullWorkspace, CopyApply, FullFetchFails, Verify, Stage,
      Install, Tamper, TarFromCache, DirectBase, DirectFrom, TarFetch, DirectFetch,
      CopyFetch, FullFetch
<1>2. ASSUME NEW served \in BOOLEAN, TarFetch(served)
      PROVE  FetchInv'
  <2>1. fetched' = Append(fetched, Sources[1]) /\ Below(1)
    BY <1>2 DEF TarFetch, Sources, FetchInv
  <2>2. InOrder' /\ Below(2)' /\ LastIs(1)'
    BY <1>0, <2>1, Downloads
  <2> QED
    BY <1>0, <1>2, <2>2 DEF TarFetch, FetchInv, KnowsSource, Placed, Goto
<1>3. ASSUME NEW served \in BOOLEAN, DirectFetch(served)
      PROVE  FetchInv'
  <2>1. fetched' = Append(fetched, Sources[2]) /\ Below(2)
    BY <1>3 DEF DirectFetch, Sources, FetchInv
  <2>2. InOrder' /\ Below(3)' /\ LastIs(2)'
    BY <1>0, <2>1, Downloads
  <2> QED
    BY <1>0, <1>3, <2>2 DEF DirectFetch, FetchInv, KnowsSource, Placed, Goto
<1>4. ASSUME NEW served \in BOOLEAN, CopyFetch(served)
      PROVE  FetchInv'
  <2>1. fetched' = Append(fetched, Sources[3]) /\ Below(3)
    BY <1>4 DEF CopyFetch, Sources, FetchInv
  <2>2. InOrder' /\ Below(4)' /\ LastIs(3)'
    BY <1>0, <2>1, Downloads
  <2> QED
    BY <1>0, <1>4, <2>2 DEF CopyFetch, FetchInv, KnowsSource, Placed, Goto
<1>5. CASE FullFetchFails \/ \E bytes \in Bytes : FullFetch(bytes)
  <2>1. fetched' = Append(fetched, Sources[4]) /\ Below(4)
    BY <1>5 DEF FullFetch, FullFetchFails, Sources, FetchInv
  <2>2. InOrder' /\ LastIs(4)'
    BY <1>0, <2>1, Downloads
  <2> QED
    BY <1>0, <1>5, <2>2 DEF FullFetch, FullFetchFails, FetchInv, KnowsSource, Placed, Goto,
         Finish
<1>6. \/ fetched' = fetched
      \/ \E served \in BOOLEAN : TarFetch(served) \/ DirectFetch(served) \/ CopyFetch(served)
      \/ FullFetchFails \/ \E bytes \in Bytes : FullFetch(bytes)
  BY DEF FlowNext, vars, PlanRefused, PlanUpToDate, PlanProceed, TarUnavailable, TarRefused,
      TarFromApp, TarApply, DirectUnavailable, DirectApply, NoWorkspace, FullWorkspace,
      CopyApply, Verify, Stage, Install, Tamper, TarFromCache, DirectBase
<1> QED
  BY <1>1, <1>2, <1>3, <1>4, <1>5, <1>6

\* Sources are downloaded cheapest first, each at most once, and the path an
\* update reports is the one its bytes came by.
THEOREM OutcomeIsItsPath == FlowSpec => []OutcomeNamesPath
<1>1. FlowInit => FetchInv
  BY DEF FlowInit, FetchInv, InOrder, Below
<1>2. FlowInv /\ FetchInv => OutcomeNamesPath
  <2> SUFFICES ASSUME FlowInv, FetchInv
               PROVE  OutcomeNamesPath
    OBVIOUS
  <2>1. source \in {"none", "tar-delta", "delta", "compressed-full", "full"}
    BY DEF FlowInv, FlowTypeOK
  <2>2. outcome = "installed" =>
          \E n \in 1 .. 4 : source = Paths[n] /\ Last(fetched) = Sources[n]
    BY <2>1 DEF FetchInv, LastIs, Paths
  <2> QED
    BY <2>2 DEF FetchInv, InOrder, OutcomeNamesPath
<1>3. FlowInv /\ FetchInv /\ [FlowNext]_vars => FetchInv'
  BY FetchInvStep
<1> QED
  BY <1>1, <1>2, <1>3, FlowInvHolds, PTL DEF FlowSpec
=============================================================================
