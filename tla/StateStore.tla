------------------------------ MODULE StateStore ------------------------------
(***************************************************************************)
(* The compare-and-set state store of the artifact cache                   *)
(* (crates/delta-core/src/cache/state.rs).                                 *)
(*                                                                         *)
(* The store is a directory of files  state.<generation>.json.  Its        *)
(* current state is the file with the highest generation.  Processes share *)
(* the directory and nothing else: every step below is one access to it    *)
(* (a listing, a read, a hard_link, an unlink), and steps of different     *)
(* processes interleave freely.                                            *)
(*                                                                         *)
(* A process goes through the calls of StateStore:                         *)
(*   initialise       LoadList, LoadRead, InitList, InitPublish            *)
(*   compare_and_set  CasWin, CasConflict                                  *)
(*   prune            PruneCall, PruneList, PruneRemove                    *)
(* The temporary file a publish writes first has a name of its own and is  *)
(* read by nobody; writing, syncing and unlinking it are part of the step  *)
(* that links it.                                                          *)
(***************************************************************************)
EXTENDS Integers, FiniteSets, FiniteSetsExt

CONSTANTS
  Procs,          \* processes that share the cache directory
  States,         \* the CacheState values this build reads
  Blanks,         \* those initialise may publish: CacheState::empty(namespace)
  Unusable,       \* content this build cannot parse, or of another format
  NoFile,         \* no file of that generation
  Nothing,        \* a process that holds no Versioned
  MaxGen,         \* bound of the model on the u64 generation numbers
  Attempts,       \* INITIALISE_ATTEMPTS
  Keep,           \* the argument of prune
  Found,          \* what the directory may hold when the first process opens it
  Faults          \* what may go wrong: "io", "prune", "damage"

ASSUME GenAssumption == MaxGen \in Nat /\ Attempts \in Nat \ {0}
ASSUME KeepAssumption == Keep \in Nat \ {0}
ASSUME ContentAssumption ==
  /\ Blanks \subseteq States
  /\ Unusable \notin States /\ NoFile \notin States /\ NoFile # Unusable
  /\ Found \subseteq States \cup {Unusable, NoFile}
ASSUME NothingAssumption == Nothing \notin [gen : Nat, state : States]

Gens == 0 .. MaxGen
Contents == States \cup {Unusable}
Versioned == [gen : Gens, state : States]

VARIABLES
  files,    \* the directory: content of each generation, or NoFile
  at,       \* where each process is in its store call
  seen,     \* the generation its last listing gave it
  held,     \* the Versioned it holds
  tries,    \* publications its initialise has lost so far
  doomed,   \* generations its prune has still to remove
  began     \* history: Top when its initialise was called

storeVars == <<files, at, seen, held, tries, doomed, began>>

InInitialise == {"load_list", "load_read", "init_list", "init_publish"}
Places == InInitialise \cup {"idle", "ready", "won", "lost", "failed", "prune_list", "pruning"}

StoreTypeOK ==
  /\ files \in [Gens -> Contents \cup {NoFile}]
  /\ at \in [Procs -> Places]
  /\ seen \in [Procs -> Nat]
  /\ held \in [Procs -> Versioned \cup {Nothing}]
  /\ tries \in [Procs -> 0 .. Attempts]
  /\ doomed \in [Procs -> SUBSET Gens]
  /\ began \in [Procs -> Nat]

-----------------------------------------------------------------------------
(* The directory. *)

Present == {g \in Gens : files[g] # NoFile}

\* The first generation above every one present: what initialise publishes at.
Top == IF Present = {} THEN 0 ELSE Max(Present) + 1

\* The content of the current generation.
Current == IF Present = {} THEN NoFile ELSE files[Max(Present)]

\* Mutant of Superseded: keeps the first of a listing instead of the last.
SupersededNewest == {g \in Present : Cardinality({h \in Present : h < g}) >= Keep}

\* What prune(keep) removes: all but the last Keep of a listing.
Superseded == {g \in Present : Cardinality({h \in Present : h > g}) >= Keep}

\* hard_link of a complete file to a generation name succeeds only when the
\* name is free.
Free(g) == g \in Gens /\ files[g] = NoFile

Goto(p, place) == at' = [at EXCEPT ![p] = place]

-----------------------------------------------------------------------------
(* initialise *)

InitialiseCall(p) ==
  /\ at[p] \in {"idle", "ready", "lost"}
  /\ Goto(p, "load_list")
  /\ tries' = [tries EXCEPT ![p] = 0]
  /\ began' = [began EXCEPT ![p] = Top]
  /\ held' = [held EXCEPT ![p] = Nothing]
  /\ seen' = [seen EXCEPT ![p] = 0]
  /\ UNCHANGED <<files, doomed>>

\* load: the highest generation listed is the only candidate.
LoadList(p) ==
  /\ at[p] = "load_list"
  /\ IF Present = {}
     THEN Goto(p, "init_list") /\ UNCHANGED seen
     ELSE Goto(p, "load_read") /\ seen' = [seen EXCEPT ![p] = Max(Present)]
  /\ UNCHANGED <<files, held, tries, doomed, began>>

\* Mutant of LoadRead: a file that cannot be used is looked for again.
LoadReadRetry(p) ==
  /\ at[p] = "load_read"
  /\ IF files[seen[p]] \in States
     THEN /\ held' = [held EXCEPT ![p] = [gen |-> seen[p], state |-> files[seen[p]]]]
          /\ Goto(p, "ready")
     ELSE Goto(p, "load_list") /\ UNCHANGED held
  /\ UNCHANGED <<files, seen, tries, doomed, began>>

\* load: a file that is gone by now or unusable reads as "no state".
LoadRead(p) ==
  /\ at[p] = "load_read"
  /\ IF files[seen[p]] \in States
     THEN /\ held' = [held EXCEPT ![p] = [gen |-> seen[p], state |-> files[seen[p]]]]
          /\ Goto(p, "ready")
     ELSE Goto(p, "init_list") /\ UNCHANGED held
  /\ UNCHANGED <<files, seen, tries, doomed, began>>

\* Nor does load tell a file it could not read from one it cannot use.
ReadError(p) ==
  /\ "io" \in Faults
  /\ at[p] = "load_read"
  /\ Goto(p, "init_list")
  /\ UNCHANGED <<files, seen, held, tries, doomed, began>>

\* Mutant of InitList: the last generation instead of the one above it.
InitListLast(p) ==
  /\ at[p] = "init_list"
  /\ seen' = [seen EXCEPT ![p] = IF Present = {} THEN 0 ELSE Max(Present)]
  /\ Goto(p, "init_publish")
  /\ UNCHANGED <<files, held, tries, doomed, began>>

\* initialise: a second listing, to step over whatever is there.
InitList(p) ==
  /\ at[p] = "init_list"
  /\ seen' = [seen EXCEPT ![p] = Top]
  /\ Goto(p, "init_publish")
  /\ UNCHANGED <<files, held, tries, doomed, began>>

InitPublish(p, blank) ==
  /\ at[p] = "init_publish"
  /\ Free(seen[p])
  /\ files' = [files EXCEPT ![seen[p]] = blank]
  /\ held' = [held EXCEPT ![p] = [gen |-> seen[p], state |-> blank]]
  /\ Goto(p, "ready")
  /\ UNCHANGED <<seen, tries, doomed, began>>

\* Mutant of InitConflict: without INITIALISE_ATTEMPTS.
InitConflictForever(p) ==
  /\ at[p] = "init_publish"
  /\ seen[p] \in Present
  /\ tries' = [tries EXCEPT ![p] = @ + 1]
  /\ Goto(p, "load_list")
  /\ UNCHANGED <<files, seen, held, doomed, began>>

InitConflict(p) ==
  /\ at[p] = "init_publish"
  /\ seen[p] \in Present
  /\ tries' = [tries EXCEPT ![p] = @ + 1]
  /\ Goto(p, IF tries[p] + 1 < Attempts THEN "load_list" ELSE "failed")
  /\ UNCHANGED <<files, seen, held, doomed, began>>

-----------------------------------------------------------------------------
(* compare_and_set(expected, state): publish at expected + 1. *)

\* Mutants of CasWin: rename instead of hard_link; publishing above whatever is
\* there instead of above what was read.
CasRename(p, state) ==
  /\ at[p] = "ready"
  /\ held[p].gen + 1 \in Gens
  /\ files' = [files EXCEPT ![held[p].gen + 1] = state]
  /\ held' = [held EXCEPT ![p] = [gen |-> held[p].gen + 1, state |-> state]]
  /\ Goto(p, "won")
  /\ UNCHANGED <<seen, tries, doomed, began>>

CasAtTop(p, state) ==
  /\ at[p] = "ready"
  /\ Free(Top)
  /\ files' = [files EXCEPT ![Top] = state]
  /\ held' = [held EXCEPT ![p] = [gen |-> Top, state |-> state]]
  /\ Goto(p, "won")
  /\ UNCHANGED <<seen, tries, doomed, began>>

CasWin(p, state) ==
  /\ at[p] = "ready"
  /\ Free(held[p].gen + 1)
  /\ files' = [files EXCEPT ![held[p].gen + 1] = state]
  /\ held' = [held EXCEPT ![p] = [gen |-> held[p].gen + 1, state |-> state]]
  /\ Goto(p, "won")
  /\ UNCHANGED <<seen, tries, doomed, began>>

CasConflict(p) ==
  /\ at[p] = "ready"
  /\ held[p].gen + 1 \in Present
  /\ Goto(p, "lost")
  /\ UNCHANGED <<files, seen, held, tries, doomed, began>>

\* Listing, writing or linking failed, or the model's generations ran out.
StoreError(p) ==
  /\ \/ /\ "io" \in Faults
        /\ at[p] \in {"load_list", "init_list", "init_publish", "ready"}
     \/ at[p] = "init_publish" /\ seen[p] \notin Gens
     \/ at[p] = "ready" /\ held[p].gen + 1 \notin Gens
  /\ Goto(p, "failed")
  /\ UNCHANGED <<files, seen, held, tries, doomed, began>>

-----------------------------------------------------------------------------
(* prune(keep): one listing, then one unlink per superseded generation in   *)
(* ascending order.  A file that is gone already, or that cannot be removed, is  *)
(* skipped; a listing that fails is the caller's to ignore.                   *)

PruneCall(p) ==
  /\ at[p] = "won"
  /\ Goto(p, "prune_list")
  /\ UNCHANGED <<files, seen, held, tries, doomed, began>>

PruneList(p) ==
  /\ at[p] = "prune_list"
  /\ \/ doomed' = [doomed EXCEPT ![p] = Superseded]
     \/ "prune" \in Faults /\ doomed' = [doomed EXCEPT ![p] = {}]
  /\ Goto(p, "pruning")
  /\ UNCHANGED <<files, seen, held, tries, began>>

PruneRemove(p) ==
  /\ at[p] = "pruning"
  /\ \E g \in doomed[p] :
       /\ \A h \in doomed[p] : g <= h
       /\ \/ files' = [files EXCEPT ![g] = NoFile]
          \/ "prune" \in Faults /\ UNCHANGED files
       /\ doomed' = [doomed EXCEPT ![p] = @ \ {g}]
  /\ UNCHANGED <<at, seen, held, tries, began>>

\* The caller goes on from the Versioned it has just published.
Proceed(p) ==
  /\ at[p] = "won"
  /\ Goto(p, "ready")
  /\ UNCHANGED <<files, seen, held, tries, doomed, began>>

\* The call returns, or the process dies at any point: what it knew is gone.
StoreReturn(p) ==
  /\ at[p] # "idle"
  /\ Goto(p, "idle")
  /\ seen' = [seen EXCEPT ![p] = 0]
  /\ held' = [held EXCEPT ![p] = Nothing]
  /\ tries' = [tries EXCEPT ![p] = 0]
  /\ doomed' = [doomed EXCEPT ![p] = {}]
  /\ began' = [began EXCEPT ![p] = 0]
  /\ UNCHANGED files

\* A disk fault, or a build with another format, makes a file unreadable here.
Damage(g) ==
  /\ "damage" \in Faults
  /\ files[g] \in States
  /\ files' = [files EXCEPT ![g] = Unusable]
  /\ UNCHANGED <<at, seen, held, tries, doomed, began>>

-----------------------------------------------------------------------------

StoreInit ==
  /\ \E content \in Found :
       files = [g \in Gens |-> IF g = 0 THEN content ELSE NoFile]
  /\ at = [p \in Procs |-> "idle"]
  /\ seen = [p \in Procs |-> 0]
  /\ held = [p \in Procs |-> Nothing]
  /\ tries = [p \in Procs |-> 0]
  /\ doomed = [p \in Procs |-> {}]
  /\ began = [p \in Procs |-> 0]

\* The steps that carry a call on to its end.
StoreStep(p) ==
  \/ LoadList(p) \/ LoadRead(p) \/ ReadError(p)
  \/ InitList(p) \/ (\E blank \in Blanks : InitPublish(p, blank)) \/ InitConflict(p)
  \/ StoreError(p)
  \/ PruneList(p) \/ PruneRemove(p)

StoreNext ==
  \/ \E p \in Procs :
       \/ InitialiseCall(p)
       \/ StoreStep(p)
       \/ (\E state \in States : CasWin(p, state)) \/ CasConflict(p)
       \/ PruneCall(p) \/ Proceed(p)
       \/ StoreReturn(p)
  \/ \E g \in Gens : Damage(g)

StoreSpec == StoreInit /\ [][StoreNext]_storeVars

-----------------------------------------------------------------------------
(* Properties. *)

\* The current generation is only ever superseded: no prune, publish or late
\* writer removes it or replaces it in place.  (Disk damage may make it
\* unreadable.)  This is what hard_link is used for instead of rename, and what
\* prune keeps when its listing is old.
CurrentOnlySuperseded ==
  [][Present # {} =>
       LET head == Max(Present)
       IN  files'[head] \in {files[head], Unusable}]_storeVars

\* A compare_and_set that becomes the current state was computed from the very
\* state it replaces: no transition is lost at the head of the store.
HeadCommitReadHead ==
  [][\A p \in Procs :
       (at[p] = "ready" /\ at'[p] = "won" /\ held'[p].gen >= Top) =>
         /\ Top = held[p].gen + 1
         /\ Current \in {held[p].state, Unusable}]_storeVars

\* A publication initialise loses was lost to another process that moved the
\* store on during this call, so giving up after Attempts conflicts means the
\* store moved at least that often.
ConflictsArePaidFor ==
  \A p \in Procs : at[p] # "idle" => tries[p] <= Top - began[p]

\* What a process holds is the current state, or the store has moved on since.
HeldIsCurrentOrPast ==
  \A p \in Procs :
    held[p] # Nothing =>
      /\ held[p].gen < Top
      /\ held[p].gen + 1 = Top => Current \in {held[p].state, Unusable}

\* "Return the current state, creating an empty one if there is none this build
\* can use": initialise never publishes an empty state over a transition that a
\* compare_and_set committed.
InitialiseBuriesNoCommit ==
  [][\A p \in Procs :
       (at[p] = "init_publish" /\ at'[p] = "ready") =>
         Current \notin States \ Blanks]_storeVars
=============================================================================
