---------------------------- MODULE MCRecompression ----------------------------
(***************************************************************************)
(* Instance of the recompression for TLC: blocks of three bytes, chunks of    *)
(* four, a trailer of two blocks, and up to two entries of each archive.      *)
(***************************************************************************)
EXTENDS Recompression

\* Empty, within a chunk, at its end and beyond it; on a block's end and off it.
Sizes == 0 .. 5
MCEntries == UNION {[1 .. n -> [size : Sizes, long : BOOLEAN]] : n \in 0 .. 2}

\* Every archive a writer makes, obtained in each way.
WholeArchives == {[via |-> v, entries |-> es, says |-> Declared(es), length |-> End(es) + Trailer] :
               v \in {"gz", "app", "patch"}, es \in MCEntries}

\* Cut anywhere, or followed by further zeros.
OtherEnds == UNION {{[via |-> "patch", entries |-> es, says |-> Declared(es), length |-> l] :
                        l \in 0 .. End(es) + Trailer + Block} : es \in MCEntries}

\* A size field that says something else.
OtherSizes == UNION {{[via |-> "patch", entries |-> es, says |-> [Declared(es) EXCEPT ![i] = s],
                       length |-> End(es) + Trailer] :
                        i \in DOMAIN es, s \in {0, 1, 3, 9, NotOctal}} : es \in MCEntries}

MCCases == WholeArchives \cup OtherEnds \cup OtherSizes
=============================================================================
