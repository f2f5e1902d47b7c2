------------------------------ MODULE Workspaces ------------------------------
(***************************************************************************)
(* The scratch directories of concurrent updates (transaction_workspace and  *)
(* its sweep, crates/delta-core/src/client.rs) with what is downloaded into  *)
(* them (Transport).  A process works through one transaction after another: *)
(* each delta path, and the full download, has a directory of its own.       *)
(*                                                                         *)
(* A directory is the time since its modification time moved: an entry of it *)
(* was created, renamed or removed.  Writing to a file in it does not count. *)
(***************************************************************************)
EXTENDS Transport, FiniteSets

CONSTANTS
  Names,      \* the names update-*; tempdir_in never gives one that exists
  AgeLimit,   \* ABANDONED_WORKSPACE_AGE
  Fetchers,   \* bound: the processes that use the network
  MaxFetches, \* requests of one transaction: a patch, or a compressed copy and the full one
  Pause,      \* the longest a running process goes without one of its steps here
  Patience,   \* the longest a request is reckoned to take: nothing in the code bounds it
  MaxWrecks,  \* bound: directories left behind at a time
  Faults      \* "io", "crash", "suspend"

VARIABLES
  dirs,    \* the update-* directories of work_dir, with their ages
  at,      \* where each process is
  ws,      \* the directory of its transaction
  todo, doomed, \* its sweep: entries still to look at, the one found stale
  fetches, \* how many requests the transaction has made
  exempt   \* the directories in use when the machine was suspended, or while a
           \* request went on for longer than Patience

places == <<at, ws, todo, doomed, fetches>>
vars == <<transportVars, dirs, places, exempt>>

\* Ages beyond this are alike: stale however long a sweep has been going on.
Aged == AgeLimit + Pause

\* Patience is what 24 hours leave to each request of a transaction, with the work
\* between them.
ASSUME WorkspaceAssumption ==
  /\ AgeLimit \in Nat /\ Pause \in Nat /\ Patience \in Nat /\ MaxWrecks \in Nat
  /\ MaxFetches \in Nat /\ Fetchers \subseteq Procs
  /\ MaxFetches * (Pause + Patience) + Pause < AgeLimit
  /\ IsFiniteSet(Names) /\ IsFiniteSet(Procs)
  /\ Cardinality(Names) >= Cardinality(Procs) + MaxWrecks
  /\ Nil \notin Names

WorkspacesTypeOK ==
  /\ TransportTypeOK
  /\ DOMAIN dirs \subseteq Names /\ \A n \in DOMAIN dirs : dirs[n] \in 0 .. Aged
  /\ at \in [Procs -> {"idle", "sweep", "work", "using"}]
  /\ ws \in [Procs -> Names \cup {Nil}]
  /\ todo \in [Procs -> SUBSET Names] /\ doomed \in [Procs -> Names \cup {Nil}]
  /\ fetches \in [Procs -> 0 .. MaxFetches]
  /\ exempt \subseteq Names

Live == {ws[p] : p \in Procs} \ {Nil}
Wrecks == DOMAIN dirs \ Live
Reaches(p) == ws[p] \in DOMAIN dirs

\* The directory's modification time moves.
Touched(n) == IF n \in DOMAIN dirs THEN [dirs EXCEPT ![n] = 0] ELSE dirs
Without(n) == [m \in DOMAIN dirs \ {n} |-> dirs[m]]

Rested(p) ==
  /\ waited' = [waited EXCEPT ![p] = 0]
  /\ stalled' = [stalled EXCEPT ![p] = 0]

-----------------------------------------------------------------------------
(* transaction_workspace *)

\* The listing, and now.  An unreadable directory is swept of nothing.
Open(p) ==
  /\ at[p] = "idle"
  /\ todo' \in {[todo EXCEPT ![p] = seen] :
                  seen \in {DOMAIN dirs} \cup (IF "io" \in Faults THEN {{}} ELSE {})}
  /\ at' = [at EXCEPT ![p] = "sweep"] /\ Rested(p)
  /\ UNCHANGED <<transfer, dirs, ws, doomed, fetches, exempt>>

\* Mutant of Stale: the threshold of the cache's blobs, which nothing outlives.
StaleSoon(p, n) == dirs[n] - waited[p] >= RequestTimeout

\* Older than the limit when the sweep began.
Stale(p, n) == dirs[n] - waited[p] >= AgeLimit

\* An entry's modification time is read; one that has gone is passed over.
SweepLook(p, n) ==
  /\ at[p] = "sweep" /\ doomed[p] = Nil /\ n \in todo[p]
  /\ todo' = [todo EXCEPT ![p] = @ \ {n}]
  /\ doomed' = [doomed EXCEPT ![p] = IF n \in DOMAIN dirs /\ Stale(p, n) THEN n ELSE Nil]
  /\ UNCHANGED <<transportVars, dirs, at, ws, fetches, exempt>>

\* remove_dir_all of it.
SweepRemove(p) ==
  /\ at[p] = "sweep" /\ doomed[p] # Nil
  /\ dirs' = Without(doomed[p])
  /\ doomed' = [doomed EXCEPT ![p] = Nil]
  /\ UNCHANGED <<transportVars, at, ws, todo, fetches, exempt>>

\* The same failing, with some of the contents removed or none.
SweepFails(p) ==
  /\ "io" \in Faults
  /\ at[p] = "sweep" /\ doomed[p] # Nil
  /\ dirs' \in {dirs, Touched(doomed[p])}
  /\ doomed' = [doomed EXCEPT ![p] = Nil]
  /\ UNCHANGED <<transportVars, at, ws, todo, fetches, exempt>>

\* Names that stand for a directory, there or not: a random name repeats none, and
\* which of the others it is makes no difference.
Taken == DOMAIN dirs \cup Live \cup {doomed[q] : q \in Procs}

\* tempdir_in
Create(p) ==
  /\ at[p] = "sweep" /\ todo[p] = {} /\ doomed[p] = Nil
  /\ \/ LET n == CHOOSE n \in Names : n \notin Taken IN
          /\ Names \ Taken # {}
          /\ dirs' = [m \in DOMAIN dirs \cup {n} |-> IF m = n THEN 0 ELSE dirs[m]]
          /\ ws' = [ws EXCEPT ![p] = n] /\ at' = [at EXCEPT ![p] = "work"]
     \/ /\ "io" \in Faults
        /\ at' = [at EXCEPT ![p] = "idle"]
        /\ UNCHANGED <<dirs, ws>>
  /\ Rested(p)
  /\ UNCHANGED <<transfer, todo, doomed, fetches, exempt>>

-----------------------------------------------------------------------------
(* The transaction *)

\* A file is made from files at hand: a base, an artifact, a tar, a patch's
\* result.  One that cannot be made ends its path and nothing else.
MakeFile(p) ==
  /\ at[p] = "work" /\ ~Fetching(p)
  /\ dirs' = Touched(ws[p]) /\ Release(p) /\ Rested(p)
  /\ UNCHANGED <<places, exempt>>

Fetch(p) ==
  /\ p \in Fetchers /\ at[p] = "work" /\ fetches[p] < MaxFetches
  /\ fetches' = [fetches EXCEPT ![p] = @ + 1]
  /\ \E policy \in Policies, scheme \in Schemes : Send(p, policy, scheme)
  /\ Rested(p)
  /\ UNCHANGED <<dirs, at, ws, todo, doomed, exempt>>

\* A step of a request is no event of the directory ...
Quietly(p) ==
  /\ \/ \E target \in Schemes : Redirect(p, target)
     \/ Unanswered(p) \/ Eof(p)
     \/ \E n \in 1 .. Buffer : Read(p, n) /\ Reading(p)'
     \/ \E a \in Answers : Respond(p, a, Reaches(p)) /\ ~Reading(p)'
     \/ Deadline(p) /\ Asking(p)
  /\ UNCHANGED dirs

\* ... unless it creates, renames or removes the .part file.
Visibly(p) ==
  /\ \/ \E a \in Answers : Respond(p, a, Reaches(p)) /\ Reading(p)'
     \/ \E n \in 1 .. Buffer : Read(p, n) /\ ~Reading(p)'
     \/ Breaks(p) \/ Promote(p, Reaches(p))
     \/ Deadline(p) /\ Reading(p)
  /\ dirs' = Touched(ws[p])

FetchGoesOn(p) ==
  /\ Quietly(p) \/ Visibly(p)
  /\ waited' = [waited EXCEPT ![p] = IF Fetching(p)' THEN @ ELSE 0]
  /\ stalled' = [stalled EXCEPT ![p] = IF Fetching(p)' /\ ~Heard(p) THEN @ ELSE 0]
  /\ UNCHANGED <<places, exempt>>

\* The artifact is in memory: it is verified, staged and installed from there.
Use(p) ==
  /\ at[p] = "work" /\ ~Fetching(p)
  /\ at' = [at EXCEPT ![p] = "using"] /\ Release(p) /\ Rested(p)
  /\ UNCHANGED <<dirs, ws, todo, doomed, fetches, exempt>>

Ended(p) ==
  /\ at' = [at EXCEPT ![p] = "idle"] /\ ws' = [ws EXCEPT ![p] = Nil]
  /\ todo' = [todo EXCEPT ![p] = {}] /\ doomed' = [doomed EXCEPT ![p] = Nil]
  /\ fetches' = [fetches EXCEPT ![p] = 0]
  /\ exempt' = exempt \ {ws[p]}
  /\ Release(p) /\ Rested(p)

\* The TempDir is dropped, after success or failure alike.
Drop(p) ==
  /\ at[p] \in {"work", "using"} /\ ~Fetching(p)
  /\ \/ dirs' = Without(ws[p])
     \/ "io" \in Faults /\ Cardinality(Wrecks) < MaxWrecks /\ dirs' = Touched(ws[p])
  /\ Ended(p)

\* The process is killed, or the installer ends it.
Crash(p) ==
  /\ "crash" \in Faults /\ at[p] # "idle"
  /\ Cardinality(Wrecks) < MaxWrecks
  /\ UNCHANGED dirs
  /\ Ended(p)

-----------------------------------------------------------------------------
(* Time *)

\* A process may stay where it is: a request until its timeout, local work for its
\* pause.
Waits(p) ==
  \/ at[p] \in {"idle", "using"}
  \/ IF Fetching(p) THEN ~Due(p) ELSE waited[p] < Pause

\* The longest time of a request that has to be told from a longer one; of a call
\* under way that is RequestTimeout.
Longest == Patience + Pause

\* A server that sends a little at a time keeps its request past any Patience.
Tick ==
  /\ \A p \in Procs : Waits(p)
  /\ dirs' = [n \in DOMAIN dirs |-> IF dirs[n] < Aged THEN dirs[n] + 1 ELSE Aged]
  /\ waited' = [p \in Procs |->
                  IF at[p] \in {"idle", "using"} THEN 0
                  ELSE IF waited[p] < Longest THEN waited[p] + 1 ELSE Longest]
  /\ stalled' = [p \in Procs |->
                   IF ~Fetching(p) THEN 0
                   ELSE IF stalled[p] < RequestTimeout THEN stalled[p] + 1 ELSE RequestTimeout]
  /\ exempt' = exempt \cup {ws[p] : p \in {q \in Procs : Fetching(q) /\ waited[q] >= Patience}}
  /\ UNCHANGED <<transfer, places>>

\* The machine sleeps for a day.  A timeout does not count it.
Suspend ==
  /\ "suspend" \in Faults
  /\ \A p \in Procs : at[p] # "sweep"
  /\ dirs' = [n \in DOMAIN dirs |-> Aged]
  /\ exempt' = Live
  /\ UNCHANGED <<transportVars, places>>

-----------------------------------------------------------------------------

Sweeps(p) == (\E n \in Names : SweepLook(p, n)) \/ SweepRemove(p) \/ SweepFails(p)
Works(p) == Create(p) \/ MakeFile(p) \/ Fetch(p) \/ Use(p) \/ Drop(p)

WorkspacesInit ==
  /\ TransportInit
  /\ dirs = [n \in {} |-> 0]
  /\ at = [p \in Procs |-> "idle"] /\ ws = [p \in Procs |-> Nil]
  /\ todo = [p \in Procs |-> {}] /\ doomed = [p \in Procs |-> Nil]
  /\ fetches = [p \in Procs |-> 0]
  /\ exempt = {}

WorkspacesNext ==
  \/ \E p \in Procs : Open(p) \/ Sweeps(p) \/ Works(p) \/ FetchGoesOn(p) \/ Crash(p)
  \/ Tick \/ Suspend

WorkspacesSpec == WorkspacesInit /\ [][WorkspacesNext]_vars

\* Threads are scheduled, but a server owes no answer: of a request only what is
\* due, or needs no server, is certain.
FairWorkspacesSpec ==
  /\ WorkspacesSpec
  /\ \A p \in Procs : WF_vars(Sweeps(p) \/ Works(p))
  /\ \A p \in Fetchers : WF_vars(FetchGoesOn(p) /\ (Due(p) \/ complete[p]))
  /\ SF_vars(Tick)

-----------------------------------------------------------------------------
(* Properties *)

\* client.rs: a sweep removes what a dead process left and never the directory an
\* update is still writing to, unless the machine slept through the limit or one of
\* the update's requests outlasted what the limit leaves it.
LiveIsKept ==
  \A p \in Procs : at[p] = "work" /\ ws[p] \notin exempt => Reaches(p)

\* http.rs: a file under its own name is one a whole transfer made, within the
\* ceiling; only a server that does not say how much it sends can cut it short.
FetchedIsWhole ==
  \A p \in Procs : out[p] # Nil =>
    /\ out[p].size <= MaxBytes
    /\ out[p].answer.framing # "close" => out[p].size = out[p].answer.total

\* http.rs's table: no body takes more of the disk than the ceiling, at any time.
DiskBounded == \A p \in Procs : part[p] # Nil => part[p] <= MaxBytes

\* No chain that was on HTTPS leaves it, in any build and with the opt-in, and a
\* release build never starts one elsewhere.
HttpsIsKept ==
  \A p \in Procs : Asking(p) =>
    /\ chain[p].secured => chain[p].scheme = "https"
    /\ chain[p].policy.strict /\ ~chain[p].policy.insecure => chain[p].secured

\* lib.rs's DownloadProgress: what is reported never runs ahead of the file, is
\* behind it by less than the step, and is its size at the end.
ProgressIsTrue ==
  \A p \in Procs :
    /\ reported[p] <= received[p] /\ received[p] - reported[p] < ProgressStep
    /\ complete[p] => reported[p] = received[p]

\* A request ends: silence ends it by the timeout of send or of a read, a server
\* that sends a little at a time by the end of its body or by the size ceiling; as
\* long as the other processes let time pass.
FetchEnds ==
  \A p \in Fetchers :
    []<>(\A q \in Procs \ {p} : Waits(q)) => Fetching(p) ~> ~Fetching(p)

\* http.rs: max_redirects is how many redirects are followed before giving up.
BudgetIsUsable ==
  \A p \in Procs : Asking(p) /\ chain[p].spent => chain[p].followed >= MaxRedirects
=============================================================================
