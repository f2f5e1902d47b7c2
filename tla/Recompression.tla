----------------------------- MODULE Recompression -----------------------------
(***************************************************************************)
(* The gzip layer of a macOS bundle (crates/delta-core/src/recompress.rs): a  *)
(* tar is expanded from the published artifact, or rebuilt from the installed *)
(* bundle, under a ceiling; then its writer's calls are replayed, because the *)
(* compressed bytes depend on the pieces the encoder was handed.             *)
(*                                                                         *)
(* A file is its length and what its headers say.  The output is the lengths  *)
(* of the pieces written to the encoder: each piece but the trailer is the    *)
(* next bytes of the tar, in order.                                         *)
(***************************************************************************)
EXTENDS Naturals, Sequences, SequencesExt

CONSTANTS
  Block,       \* BLOCK
  CopyChunk,   \* COPY_CHUNK
  Trailer,     \* TRAILER
  Limits,      \* the ceilings a tar is expanded or rebuilt under
  MaxTarBytes, \* max_tar_bytes of the recompression
  Cases,       \* what there is to work on: see Given
  Claims,      \* what a block that is no header may say, read as one
  Faults,      \* "io"
  NotOctal, Zeros, None

ASSUME RecompressionAssumption ==
  /\ Block \in Nat \ {0, 1} /\ CopyChunk \in Nat \ {0}
  /\ Trailer \in Nat \ {0} /\ Trailer % Block = 0
  /\ Limits \subseteq Nat /\ MaxTarBytes \in Nat /\ Claims \subseteq Nat
  /\ None \notin Nat /\ NotOctal \notin Nat

\* entries: what the archive holds, in order; a long name is an entry of its own,
\* and its size is the name's, without the NUL that is written after it.
\* says: what the size fields of their headers say.  length: where the archive ends.
\* via: it is expanded ("gz"), rebuilt ("app"), or the result of a patch ("patch").
Entry == [size : Nat, long : BOOLEAN]
Said == Nat \cup {NotOctal}

ASSUME ZerosAssumption == Zeros \notin [says : Said, long : BOOLEAN]

VARIABLES
  given,    \* [via, entries, says, length], the input, and its limit
  phase,
  tar,      \* bytes of the tar on disk, or None
  pos,      \* bytes of it that have been read
  consumed, \* consumed of replay: what its sizes say was read
  entry,    \* [declared, long, left] of the entry being copied
  pieces    \* what the encoder was handed

vars == <<given, phase, tar, pos, consumed, entry, pieces>>

NoEntry == [declared |-> 0, long |-> FALSE, left |-> 0]

-----------------------------------------------------------------------------
(* The writer: tar::Builder (tar 0.4) streaming into an encoder, through io::copy. *)

\* What an entry's header declares: of a long name, the NUL too.
Payload(e) == IF e.long THEN e.size + 1 ELSE e.size
PadOf(n) == (Block - (n % Block)) % Block
Span(e) == Block + Payload(e) + PadOf(Payload(e))

Smaller(a, b) == IF a <= b THEN a ELSE b
Chunks(n) ==
  [i \in 1 .. (n + CopyChunk - 1) \div CopyChunk |-> Smaller(CopyChunk, n - (i - 1) * CopyChunk)]
OneUnless(none, n) == IF none THEN <<>> ELSE <<n>>

\* A long name is followed by its NUL from a second reader, so in a second write.
EntryPieces(e) ==
  <<Block>> \o Chunks(e.size) \o OneUnless(~e.long, 1)
    \o OneUnless(PadOf(Payload(e)) = 0, PadOf(Payload(e)))

WriterPieces(entries) ==
  FlattenSeq([i \in DOMAIN entries |-> EntryPieces(entries[i])]) \o <<Trailer>>

Total(lengths) ==
  LET sum[i \in 0 .. Len(lengths)] == IF i = 0 THEN 0 ELSE sum[i - 1] + lengths[i]
  IN  sum[Len(lengths)]
Start(entries, i) == Total([j \in 1 .. i - 1 |-> Span(entries[j])])
End(entries) == Start(entries, Len(entries) + 1)

Declared(entries) == [i \in DOMAIN entries |-> Payload(entries[i])]

\* What a writer makes.
Intact(g) == g.says = Declared(g.entries) /\ g.length = End(g.entries) + Trailer

\* A header for each entry; what is rebuilt is what a writer makes of the bundle.
ASSUME CasesAssumption ==
  \A c \in Cases :
    /\ c \in [via : {"gz", "app", "patch"}, entries : Seq(Entry), says : Seq(Said), length : Nat]
    /\ Len(c.says) = Len(c.entries)
    /\ c.via = "app" => Intact(c)

-----------------------------------------------------------------------------
(* Obtaining the tar *)

Obtained == /\ phase' = "stat"
            /\ UNCHANGED <<given, tar, pos, consumed, entry, pieces>>

\* The partial file is removed: the input was refused, or an operation failed.
Removed(outcome) ==
  /\ phase' = outcome /\ tar' = None
  /\ UNCHANGED <<given, pos, consumed, entry, pieces>>

\* Mutant of Ample: the ceiling is met when it has been passed.
AmpleSoFar(n) == tar <= given.limit

\* n more bytes are within the ceiling: looked at before they are written.
Ample(n) == tar + n <= given.limit

Grows(n) == /\ tar' = tar + n
            /\ UNCHANGED <<given, phase, pos, consumed, entry, pieces>>

\* decompress_reader_bounded: one read of the decoder, of at most a buffer.
Expand ==
  /\ phase = "obtain" /\ given.via = "gz"
  /\ IF tar = given.length THEN Obtained
     ELSE \E n \in 1 .. Smaller(CopyChunk, given.length - tar) :
            IF Ample(n) THEN Grows(n) ELSE Removed("refused")

\* Mutant of Rebuild: a write that does not fit is cut short.
RebuildCut ==
  /\ phase = "obtain" /\ given.via = "app"
  /\ LET all == WriterPieces(given.entries)
         next == CHOOSE i \in 1 .. Len(all) + 1 : Total(SubSeq(all, 1, i - 1)) = tar
     IN IF next > Len(all) THEN Obtained
        ELSE IF Ample(all[next]) THEN Grows(all[next]) ELSE Obtained

\* rebuild_tar_from_app_bundle: one write of tar::Builder to the BoundedWriter.
Rebuild ==
  /\ phase = "obtain" /\ given.via = "app"
  /\ LET all == WriterPieces(given.entries)
         next == CHOOSE i \in 1 .. Len(all) + 1 : Total(SubSeq(all, 1, i - 1)) = tar
     IN IF next > Len(all) THEN Obtained
        ELSE IF Ample(all[next]) THEN Grows(all[next]) ELSE Removed("refused")

\* The patch's result is there, whole, by its digest.
Patched == phase = "obtain" /\ given.via = "patch" /\ tar = given.length /\ Obtained

\* The decoder, the bundle or the disk fails.
ObtainFails == "io" \in Faults /\ phase = "obtain" /\ given.via # "patch" /\ Removed("broken")

-----------------------------------------------------------------------------
(* recompress_with_limit and its replay *)

Fails(outcome) == /\ phase' = outcome
                  /\ UNCHANGED <<given, tar, pos, consumed, entry, pieces>>

Stat ==
  /\ phase = "stat"
  /\ IF tar > MaxTarBytes THEN Fails("refused")
     ELSE /\ phase' = "header"
          /\ UNCHANGED <<given, tar, pos, consumed, entry, pieces>>

\* read_full brings n bytes.
Brings(n) == tar - pos >= n

\* The next n bytes go to the encoder as one piece.
Copies(n) == pos' = pos + n /\ pieces' = Append(pieces, n)

\* What the block at pos is, read as a header.
Sees ==
  LET at == {i \in DOMAIN given.entries : Start(given.entries, i) = pos}
  IN IF pos >= End(given.entries)
     THEN {Zeros}
     ELSE IF at # {}
          THEN {[says |-> given.says[i], long |-> given.entries[i].long] : i \in at}
          ELSE {Zeros} \cup [says : Claims \cup {NotOctal}, long : BOOLEAN]

\* Mutant of Written: the NUL is forgotten.
WrittenDeclared(e) == e.declared

\* Bytes of an entry beyond its header, as this module reckons them: a NUL more than
\* a long name declares, though the writer has declared it.
Written(e) == IF e.long THEN e.declared + 1 ELSE e.declared

\* An entry's header, if the archive has room for what it declares.
BeginEntry(seen) ==
  LET e == [declared |-> seen.says, long |-> seen.long, left |-> seen.says] IN
  IF seen.says = NotOctal \/ consumed + Block + Written(e) > tar
  THEN Fails("refused")
  ELSE /\ Copies(Block)
       /\ consumed' = consumed + Block /\ entry' = e /\ phase' = "payload"
       /\ UNCHANGED <<given, tar>>

\* The archive's end: a trailer is written as the writer does, whatever follows.
Finish ==
  /\ pos' = pos + Block /\ consumed' = consumed + Block
  /\ pieces' = Append(pieces, Trailer) /\ phase' = "done"
  /\ UNCHANGED <<given, tar, entry>>

\* Mutant of Header: at the end of the file, the archive's end is taken for granted.
HeaderOrEnd ==
  /\ phase = "header"
  /\ IF ~Brings(1) THEN Finish
     ELSE IF ~Brings(Block) THEN Fails("refused")
     ELSE \E seen \in Sees : IF seen = Zeros THEN Finish ELSE BeginEntry(seen)

\* Mutant of Header: at the end of the file, it is read again.
HeaderAgain ==
  /\ phase = "header"
  /\ Brings(1)
  /\ IF ~Brings(Block) THEN Fails("refused")
     ELSE \E seen \in Sees : IF seen = Zeros THEN Finish ELSE BeginEntry(seen)

Header ==
  /\ phase = "header"
  /\ IF ~Brings(Block) THEN Fails("refused")
     ELSE \E seen \in Sees : IF seen = Zeros THEN Finish ELSE BeginEntry(seen)

\* One chunk of the payload.
CopyPayload ==
  /\ phase = "payload" /\ entry.left > 0
  /\ LET want == Smaller(CopyChunk, entry.left) IN
     IF ~Brings(want) THEN Fails("refused")
     ELSE /\ Copies(want) /\ entry' = [entry EXCEPT !.left = @ - want]
          /\ UNCHANGED <<given, phase, tar, consumed>>

\* One more byte after a long name, a write of its own: it is meant to be the NUL.
CopyNul ==
  /\ phase = "payload" /\ entry.left = 0
  /\ IF ~entry.long
     THEN phase' = "padding" /\ UNCHANGED <<pos, pieces>>
     ELSE IF Brings(1) THEN phase' = "padding" /\ Copies(1)
          ELSE phase' = "refused" /\ UNCHANGED <<pos, pieces>>
  /\ UNCHANGED <<given, tar, consumed, entry>>

\* Mutant of Padding: against what was declared, without the byte after a name.
PaddingOfDeclared(e) == PadOf(e.declared)

\* One write up to the block's end, against what was written; none when it is there.
Padding(e) == PadOf(Written(e))

CopyPadding ==
  /\ phase = "padding"
  /\ LET n == Padding(entry) IN
     IF ~Brings(n) THEN Fails("refused")
     ELSE /\ IF n = 0 THEN UNCHANGED <<pos, pieces>> ELSE Copies(n)
          /\ consumed' = consumed + Written(entry) + n
          /\ phase' = "header" /\ entry' = NoEntry
          /\ UNCHANGED <<given, tar>>

\* A read of the tar or a write of the output fails.
ReplayFails == "io" \in Faults /\ phase \in {"stat", "header", "payload", "padding"} /\ Fails("broken")

-----------------------------------------------------------------------------

RecompressionInit ==
  /\ \E c \in Cases, l \in Limits :
       given = [via |-> c.via, entries |-> c.entries, says |-> c.says, length |-> c.length,
                limit |-> l]
  /\ phase = "obtain"
  /\ tar = IF given.via = "patch" THEN given.length ELSE 0
  /\ pos = 0 /\ consumed = 0 /\ entry = NoEntry /\ pieces = <<>>

Replay == Stat \/ Header \/ CopyPayload \/ CopyNul \/ CopyPadding
Obtain == Expand \/ Rebuild \/ Patched

RecompressionNext == Obtain \/ ObtainFails \/ Replay \/ ReplayFails

RecompressionSpec ==
  RecompressionInit /\ [][RecompressionNext]_vars /\ WF_vars(Obtain) /\ WF_vars(Replay)

-----------------------------------------------------------------------------
(* Properties *)

RecompressionTypeOK ==
  /\ given.entries \in Seq(Entry) /\ given.says \in Seq(Said)
  /\ Len(given.says) = Len(given.entries)
  /\ phase \in {"obtain", "stat", "header", "payload", "padding", "done", "refused", "broken"}
  /\ tar \in Nat \cup {None} /\ pos \in Nat /\ consumed \in Nat
  /\ entry \in [declared : Nat, long : BOOLEAN, left : Nat]
  /\ entry.left <= entry.declared
  /\ pieces \in Seq(Nat \ {0})
  /\ phase \in {"header", "padding"} => pos = consumed + IF phase = "padding" THEN Written(entry) ELSE 0

\* recompress.rs: what the encoder is handed is what the writer handed it, piece by
\* piece, for every archive without long names whose headers are true; one that was
\* cut short is refused and never silently shortened.
ReplayedAsWritten ==
  LET all == WriterPieces(given.entries) IN
  /\ given.says = Declared(given.entries)
  /\ \A i \in DOMAIN given.entries : ~given.entries[i].long
  /\ phase \in {"header", "payload", "padding", "done"}
  => IF phase = "done" THEN pieces = all ELSE IsStrictPrefix(pieces, all)

\* No long name and its NUL fill their last block.
NamesArePadded(entries) ==
  \A i \in DOMAIN entries : entries[i].long => PadOf(Payload(entries[i])) # 0

\* An archive the writer made is never refused but for its size, and is read up to
\* its end, unless a long name is not padded.
IntactIsReplayed ==
  Intact(given) /\ NamesArePadded(given.entries) =>
    /\ phase = "refused" => given.length > given.limit \/ given.length > MaxTarBytes
    /\ phase = "done" => pos = End(given.entries) + Block

\* The ceiling bounds what reaches the disk.
TarBounded == phase = "obtain" /\ given.via # "patch" => tar <= given.limit

\* A tar that was obtained is whole, and of one that was not nothing is left.
TarWholeOrGone ==
  /\ phase \in {"header", "payload", "padding", "done"} => tar = given.length
  /\ phase \in {"refused", "broken"} => tar \in {given.length, None}

\* Whatever the tar says, the replay ends.
ReplayEnds == <>(phase \in {"done", "refused", "broken"})
=============================================================================
