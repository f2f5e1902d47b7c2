--------------------------- MODULE WorkspacesProofs ---------------------------
(***************************************************************************)
(* Proofs about the update workspaces and the transfers into them, for any   *)
(* processes, servers, ceilings, ages and time limits that the assumptions   *)
(* of Transport and Workspaces allow.                                       *)
(***************************************************************************)
EXTENDS Workspaces, TLAPS

-----------------------------------------------------------------------------
(* The transfers.  A step of one is a step of one process.                   *)

TransferTypes ==
  /\ chain \in [Procs -> Chains \cup {Nil}] /\ answer \in [Procs -> Answers \cup {Nil}]
  /\ complete \in [Procs -> BOOLEAN]
  /\ received \in [Procs -> Nat] /\ reported \in [Procs -> Nat]
  /\ part \in [Procs -> Nat \cup {Nil}] /\ out \in [Procs -> Outs \cup {Nil}]

\* What process p knows of its request.
KnowsRequest(p) ==
  /\ part[p] # Nil <=> answer[p] # Nil
  /\ answer[p] # Nil => chain[p] = Nil
  /\ complete[p] => answer[p] # Nil
  /\ chain[p] # Nil =>
       /\ chain[p].secured => chain[p].scheme = "https"
       /\ chain[p].policy.strict /\ ~chain[p].policy.insecure => chain[p].secured

\* What it knows of the file.
KnowsFile(p) ==
  /\ answer[p] = Nil => received[p] = 0 /\ reported[p] = 0
  /\ answer[p] # Nil =>
       /\ part[p] = received[p] /\ received[p] <= MaxBytes
       /\ received[p] <= answer[p].total
  /\ reported[p] <= received[p] /\ received[p] - reported[p] < ProgressStep
  /\ complete[p] => reported[p] = received[p] /\ BodyEnds(p)
  /\ out[p] # Nil =>
       /\ out[p].size <= MaxBytes
       /\ out[p].answer.framing # "close" => out[p].size = out[p].answer.total

TransferInv == TransferTypes /\ \A p \in Procs : KnowsRequest(p) /\ KnowsFile(p)

TransferStep(p) ==
  \/ \E policy \in Policies, scheme \in Schemes : Send(p, policy, scheme)
  \/ \E target \in Schemes : Redirect(p, target)
  \/ \E a \in Answers, reaches \in BOOLEAN : Respond(p, a, reaches)
  \/ \E n \in 1 .. Buffer : Read(p, n)
  \/ Asking(p) /\ SendFails(p)
  \/ Reading(p) /\ StreamFails(p)
  \/ Eof(p)
  \/ \E reaches \in BOOLEAN : Promote(p, reaches)
  \/ Release(p)

\* What p knows, and so what a step of another process leaves alone.
MineOf(p) == <<chain[p], answer[p], complete[p], received[p], reported[p], part[p], out[p]>>

\* A transfer's step changes only what its process has.
LEMMA OthersTransfer ==
  ASSUME TransferTypes, NEW p \in Procs, NEW q \in Procs, q # p, TransferStep(p)
  PROVE  MineOf(q)' = MineOf(q)
<1> USE DEF TransferTypes, MineOf
<1>1. CASE \E policy \in Policies, scheme \in Schemes : Send(p, policy, scheme)
  BY <1>1 DEF Send
<1>2. CASE \E target \in Schemes : Redirect(p, target)
  BY <1>2 DEF Redirect, SendFails
<1>3. CASE \E a \in Answers, reaches \in BOOLEAN : Respond(p, a, reaches)
  BY <1>3 DEF Respond, SendFails
<1>4. CASE \E n \in 1 .. Buffer : Read(p, n)
  BY <1>4 DEF Read, StreamFails, Forgotten
<1>5. CASE Asking(p) /\ SendFails(p)
  BY <1>5 DEF SendFails
<1>6. CASE Reading(p) /\ StreamFails(p)
  BY <1>6 DEF StreamFails, Forgotten
<1>7. CASE Eof(p)
  BY <1>7 DEF Eof
<1>8. CASE \E reaches \in BOOLEAN : Promote(p, reaches)
  BY <1>8 DEF Promote, Forgotten
<1>9. CASE Release(p)
  BY <1>9 DEF Release
<1> QED
  BY <1>1, <1>2, <1>3, <1>4, <1>5, <1>6, <1>7, <1>8, <1>9 DEF TransferStep

\* So the process that moved answers for itself alone.
LEMMA OneTransfer ==
  ASSUME TransferInv, NEW p \in Procs, TransferStep(p), TransferTypes',
         KnowsRequest(p)', KnowsFile(p)'
  PROVE  TransferInv'
<1>1. ASSUME NEW q \in Procs, q # p
      PROVE  KnowsRequest(q)' /\ KnowsFile(q)'
  <2>1. MineOf(q)' = MineOf(q)
    BY <1>1, OthersTransfer DEF TransferInv
  <2>2. KnowsRequest(q) /\ KnowsFile(q)
    BY DEF TransferInv
  <2> QED
    BY <2>1, <2>2 DEF MineOf, KnowsRequest, KnowsFile, BodyEnds
<1> QED
  BY <1>1 DEF TransferInv

\* The two ways in which an answer of the server changes a chain.
Followed(c, target) ==
  [c EXCEPT !.scheme = target, !.followed = @ + 1, !.secured = @ \/ target = "https"]

LEMMA ChainSpent ==
  ASSUME NEW c \in Chains
  PROVE  /\ [c EXCEPT !.spent = TRUE] \in Chains
         /\ [c EXCEPT !.spent = TRUE].scheme = c.scheme
         /\ [c EXCEPT !.spent = TRUE].secured = c.secured
         /\ [c EXCEPT !.spent = TRUE].policy = c.policy
  BY Zenon DEF Chains

LEMMA ChainFollowed ==
  ASSUME NEW c \in Chains, NEW target \in Schemes
  PROVE  /\ Followed(c, target) \in Chains
         /\ Followed(c, target).scheme = target
         /\ Followed(c, target).secured = (c.secured \/ target = "https")
         /\ Followed(c, target).policy = c.policy
<1>1. c.followed + 1 \in Nat /\ (c.secured \/ target = "https") \in BOOLEAN
  BY DEF Chains
<1>2. Followed(c, target) \in Chains
  BY <1>1, Zenon DEF Chains, Followed
<1>3. /\ Followed(c, target).scheme = target
      /\ Followed(c, target).secured = (c.secured \/ target = "https")
      /\ Followed(c, target).policy = c.policy
  BY Zenon DEF Chains, Followed
<1> QED  BY <1>2, <1>3

LEMMA TransferStepTypes ==
  ASSUME TransferInv, NEW p \in Procs, TransferStep(p)
  PROVE  TransferTypes'
<1> USE TransportAssumption DEF TransferInv, TransferTypes
<1>1. CASE \E policy \in Policies, scheme \in Schemes : Send(p, policy, scheme)
  <2> PICK policy \in Policies, scheme \in Schemes : Send(p, policy, scheme)  BY <1>1
  <2>1. [policy |-> policy, scheme |-> scheme, followed |-> 0,
         secured |-> scheme = "https", spent |-> FALSE] \in Chains
    BY DEF Chains
  <2> QED  BY <2>1 DEF Send
<1>2. CASE \E target \in Schemes : Redirect(p, target)
  <2> PICK target \in Schemes : Redirect(p, target)  BY <1>2
  <2>1. chain[p] \in Chains  BY DEF Redirect, Asking
  <2>2. \/ chain' = [chain EXCEPT ![p] = Nil]
        \/ chain' = [chain EXCEPT ![p] = [chain[p] EXCEPT !.spent = TRUE]]
        \/ chain' = [chain EXCEPT ![p] = Followed(chain[p], target)]
    BY Zenon DEF Redirect, SendFails, Followed
  <2>3. PICK c \in Chains \cup {Nil} : chain' = [chain EXCEPT ![p] = c]
    BY <2>1, <2>2, ChainSpent, ChainFollowed, Zenon
  <2> QED  BY <2>3 DEF Redirect, SendFails
<1>3. CASE \E a \in Answers, reaches \in BOOLEAN : Respond(p, a, reaches)
  BY <1>3 DEF Respond, SendFails
<1>4. CASE \E n \in 1 .. Buffer : Read(p, n)
  <2> PICK n \in 1 .. Buffer : Read(p, n)  BY <1>4
  <2>1. CASE received[p] + n > MaxBytes
    <3>1. StreamFails(p)  BY <2>1 DEF Read
    <3> QED  BY <3>1 DEF StreamFails, Forgotten
  <2>2. CASE ~(received[p] + n > MaxBytes)
    <3>1. received[p] + n \in Nat  OBVIOUS
    <3>2. PICK r \in Nat : reported' = [reported EXCEPT ![p] = r]
      BY <2>2, <3>1 DEF Read
    <3> QED  BY <2>2, <3>1, <3>2 DEF Read
  <2> QED  BY <2>1, <2>2
<1>5. CASE Asking(p) /\ SendFails(p)
  BY <1>5 DEF SendFails
<1>6. CASE Reading(p) /\ StreamFails(p)
  BY <1>6 DEF StreamFails, Forgotten
<1>7. CASE Eof(p)
  BY <1>7 DEF Eof
<1>8. CASE \E reaches \in BOOLEAN : Promote(p, reaches)
  <2>1. answer[p] \in Answers
    BY <1>8 DEF Promote, KnowsRequest
  <2>2. [size |-> received[p], answer |-> answer[p]] \in Outs
    BY <2>1 DEF Outs
  <2>3. out' \in [Procs -> Outs \cup {Nil}]
    BY <1>8, <2>2 DEF Promote
  <2>4. PICK reaches \in BOOLEAN : Promote(p, reaches)  BY <1>8
  <2> QED  BY <2>3, <2>4 DEF Promote, Forgotten
<1>9. CASE Release(p)
  BY <1>9 DEF Release
<1> QED
  BY <1>1, <1>2, <1>3, <1>4, <1>5, <1>6, <1>7, <1>8, <1>9 DEF TransferStep

LEMMA TransferStepKeeps ==
  ASSUME TransferInv, NEW p \in Procs, TransferStep(p)
  PROVE  TransferInv'
<1> USE TransportAssumption DEF TransferTypes
<1>0. TransferTypes'
  BY TransferStepTypes
<1>a. TransferTypes /\ KnowsRequest(p) /\ KnowsFile(p)
  BY DEF TransferInv
<1>1. CASE \E policy \in Policies, scheme \in Schemes : Send(p, policy, scheme)
  <2> PICK policy \in Policies, scheme \in Schemes : Send(p, policy, scheme)  BY <1>1
  <2>1. answer[p] = Nil /\ chain[p] = Nil  BY DEF Send, Fetching, Asking, Reading
  <2>2. KnowsRequest(p)'
    BY <1>0, <1>a, <2>1 DEF Send, KnowsRequest, SchemeAllowed
  <2>3. KnowsFile(p)'
    BY <1>0, <1>a, <2>1 DEF Send, KnowsFile, KnowsRequest, BodyEnds
  <2> QED  BY <1>0, <2>2, <2>3, OneTransfer
<1>2. CASE \E target \in Schemes : Redirect(p, target)
  <2> PICK target \in Schemes : Redirect(p, target)  BY <1>2
  <2>1. chain[p] \in Chains /\ chain[p] # Nil  BY <1>a DEF Redirect, Asking
  <2>2. answer'[p] = answer[p] /\ complete'[p] = complete[p] /\ received'[p] = received[p]
        /\ reported'[p] = reported[p] /\ part'[p] = part[p] /\ out'[p] = out[p]
    BY DEF Redirect, SendFails
  <2>3. \/ chain'[p] = Nil
        \/ chain'[p] = [chain[p] EXCEPT !.spent = TRUE]
        \/ /\ chain[p].scheme = "https" => target = "https"
           /\ chain'[p] = Followed(chain[p], target)
    BY <1>a, <2>1, Zenon DEF Redirect, SendFails, MayFollow, Followed
  <2>4. KnowsRequest(p)'
    <3>1. CASE chain'[p] = Nil
      BY <1>a, <2>2, <3>1 DEF KnowsRequest
    <3>2. CASE chain'[p] = [chain[p] EXCEPT !.spent = TRUE]
      BY <1>a, <2>1, <2>2, <3>2, ChainSpent DEF KnowsRequest
    <3>3. CASE /\ chain[p].scheme = "https" => target = "https"
               /\ chain'[p] = Followed(chain[p], target)
      <4>1. /\ chain'[p].scheme = target /\ chain'[p].policy = chain[p].policy
            /\ chain'[p].secured = (chain[p].secured \/ target = "https")
        BY <2>1, <3>3, ChainFollowed
      <4> QED  BY <1>a, <2>1, <2>2, <3>3, <4>1, Zenon DEF KnowsRequest
    <3> QED  BY <2>3, <3>1, <3>2, <3>3
  <2>5. KnowsFile(p)'
    BY <1>0, <1>a, <2>2 DEF KnowsFile, BodyEnds
  <2> QED  BY <1>0, <2>4, <2>5, OneTransfer
<1>3. CASE \E a \in Answers, reaches \in BOOLEAN : Respond(p, a, reaches)
  <2> PICK a \in Answers, reaches \in BOOLEAN : Respond(p, a, reaches)  BY <1>3
  <2>1. answer[p] = Nil /\ ~complete[p]  BY <1>a DEF Respond, Asking, KnowsRequest
  <2>2. KnowsRequest(p)'
    BY <1>0, <1>a, <2>1 DEF Respond, SendFails, KnowsRequest
  <2>3. KnowsFile(p)'
    BY <1>0, <1>a, <2>1 DEF Respond, SendFails, KnowsFile, BodyEnds
  <2> QED  BY <1>0, <2>2, <2>3, OneTransfer
<1>4. CASE \E n \in 1 .. Buffer : Read(p, n)
  <2> PICK n \in 1 .. Buffer : Read(p, n)  BY <1>4
  <2>1. KnowsRequest(p)'
    BY <1>0, <1>a DEF Read, Reading, StreamFails, Forgotten, KnowsRequest
  <2>2. KnowsFile(p)'
    BY <1>0, <1>a DEF Read, Reading, StreamFails, Forgotten, KnowsFile, BodyEnds
  <2> QED  BY <1>0, <2>1, <2>2, OneTransfer
<1>5. CASE Asking(p) /\ SendFails(p)
  <2>1. KnowsRequest(p)' /\ KnowsFile(p)'
    BY <1>0, <1>5, <1>a DEF SendFails, KnowsRequest, KnowsFile, BodyEnds
  <2> QED  BY <1>0, <1>5, <2>1, OneTransfer
<1>6. CASE Reading(p) /\ StreamFails(p)
  <2>1. KnowsRequest(p)' /\ KnowsFile(p)'
    BY <1>0, <1>6, <1>a DEF Reading, StreamFails, Forgotten, KnowsRequest, KnowsFile, BodyEnds
  <2> QED  BY <1>0, <1>6, <2>1, OneTransfer
<1>7. CASE Eof(p)
  <2>1. KnowsRequest(p)' /\ KnowsFile(p)'
    BY <1>0, <1>7, <1>a DEF Eof, Reading, KnowsRequest, KnowsFile, BodyEnds
  <2> QED  BY <1>0, <1>7, <2>1, OneTransfer
<1>8. CASE \E reaches \in BOOLEAN : Promote(p, reaches)
  <2> PICK reaches \in BOOLEAN : Promote(p, reaches)  BY <1>8
  <2>1. KnowsRequest(p)'
    BY <1>0, <1>a DEF Promote, Forgotten, KnowsRequest
  <2>2. KnowsFile(p)'
    BY <1>0, <1>a DEF Promote, Forgotten, KnowsFile, KnowsRequest, BodyEnds
  <2> QED  BY <1>0, <2>1, <2>2, OneTransfer
<1>9. CASE Release(p)
  <2>1. KnowsRequest(p)' /\ KnowsFile(p)'
    BY <1>0, <1>9, <1>a DEF Release, KnowsRequest, KnowsFile, BodyEnds
  <2> QED  BY <1>0, <1>9, <2>1, OneTransfer
<1> QED
  BY <1>1, <1>2, <1>3, <1>4, <1>5, <1>6, <1>7, <1>8, <1>9 DEF TransferStep
-----------------------------------------------------------------------------
(* The directories and those who work in them.                              *)

SpaceTypes ==
  /\ DOMAIN dirs \subseteq Names /\ \A n \in DOMAIN dirs : dirs[n] \in 0 .. Aged
  /\ at \in [Procs -> {"idle", "sweep", "work", "using"}]
  /\ ws \in [Procs -> Names \cup {Nil}]
  /\ todo \in [Procs -> SUBSET Names] /\ doomed \in [Procs -> Names \cup {Nil}]
  /\ fetches \in [Procs -> 0 .. MaxFetches]
  /\ exempt \subseteq Names
  /\ waited \in [Procs -> Nat] /\ stalled \in [Procs -> Nat]

\* The longest that a request is reckoned with, and the work before it.
Share == Pause + Patience

\* How old the directory of p can be: every request that is over, and the work
\* before each, and what p has been at since.
Allowance(p) ==
  IF Fetching(p) THEN (fetches[p] - 1) * Share + Pause + waited[p]
                 ELSE fetches[p] * Share + waited[p]

\* What a process that has a directory knows.
KnowsSpace(p) ==
  /\ ws[p] # Nil <=> at[p] \in {"work", "using"}
  /\ Fetching(p) => at[p] = "work" /\ fetches[p] > 0
  /\ at[p] = "work" /\ (Fetching(p) => ws[p] \notin exempt) =>
       waited[p] <= IF Fetching(p) THEN Patience ELSE Pause
  /\ at[p] = "work" /\ ws[p] \notin exempt => Reaches(p) /\ dirs[ws[p]] <= Allowance(p)

\* No two have the same one.
Separate == \A p, q \in Procs : ws[p] # Nil /\ ws[p] = ws[q] => p = q

\* None that is about to be removed is in use.
Condemned ==
  \A p, q \in Procs : doomed[q] # Nil /\ ws[p] = doomed[q] /\ at[p] = "work" => ws[p] \in exempt

SpaceInv ==
  /\ TransferInv /\ SpaceTypes
  /\ \A p \in Procs : KnowsSpace(p)
  /\ Separate /\ Condemned

\* Products of natural numbers.
LEMMA Products ==
  ASSUME NEW f \in Nat, NEW g \in Nat, NEW s \in Nat, f <= g
  PROVE  f * s \in Nat /\ f * s <= g * s /\ (f + 1) * s = f * s + s
<1>1. f * s \in Nat /\ (g - f) * s \in Nat
  OBVIOUS
<1>2. (g - f) * s = g * s - f * s
  OBVIOUS
<1>3. (f + 1) * s = f * s + s
  OBVIOUS
<1> QED  BY <1>1, <1>2, <1>3

\* An allowance is never as long as the limit, while no request outlasts its share.
LEMMA AllowanceBelowLimit ==
  ASSUME SpaceTypes, NEW p \in Procs, KnowsSpace(p), at[p] = "work", ws[p] \notin exempt
  PROVE  Allowance(p) \in Nat /\ Allowance(p) < AgeLimit
<1> USE TransportAssumption, WorkspaceAssumption
<1> DEFINE f == fetches[p]  M == MaxFetches
<1>1. f \in Nat /\ f <= M /\ M \in Nat /\ Share \in Nat /\ waited[p] \in Nat
  BY DEF SpaceTypes, Share
<1>2. M * Share + Pause < AgeLimit
  BY DEF Share
<1>3. CASE Fetching(p)
  <2>1. f - 1 \in Nat /\ f - 1 <= M /\ waited[p] <= Patience
    BY <1>1, <1>3 DEF KnowsSpace
  <2>2. (f - 1) * Share \in Nat /\ ((f - 1) + 1) * Share = (f - 1) * Share + Share
    BY <1>1, <2>1, Products
  <2>3. f * Share <= M * Share /\ (f - 1) + 1 = f
    BY <1>1, Products
  <2>4. f * Share = (f - 1) * Share + Share
    BY <2>2, <2>3
  <2>5. Allowance(p) = (f - 1) * Share + Pause + waited[p]
    BY <1>3 DEF Allowance
  <2> HIDE DEF f, M
  <2>6. M * Share \in Nat  BY <1>1, Products
  <2> QED  BY <1>1, <1>2, <2>1, <2>2, <2>3, <2>4, <2>5, <2>6 DEF Share
<1>4. CASE ~Fetching(p)
  <2>1. f * Share \in Nat /\ f * Share <= M * Share /\ waited[p] <= Pause
    BY <1>1, <1>4, Products DEF KnowsSpace
  <2>2. Allowance(p) = f * Share + waited[p]
    BY <1>4 DEF Allowance
  <2> HIDE DEF f, M
  <2>3. M * Share \in Nat  BY <1>1, Products
  <2> QED  BY <1>1, <1>2, <2>1, <2>2, <2>3
<1> QED  BY <1>3, <1>4

\* What the steps of the others leave of q's.
Untouched(q) ==
  /\ MineOf(q)' = MineOf(q)
  /\ at'[q] = at[q] /\ ws'[q] = ws[q] /\ fetches'[q] = fetches[q]
  /\ waited'[q] = waited[q] /\ doomed'[q] = doomed[q]

\* Steps that make nothing older and exempt no directory in use, or cease to.
Younger(q) ==
  at[q] = "work" /\ ws[q] \notin exempt' =>
    /\ ws[q] \notin exempt
    /\ Reaches(q) => ws[q] \in DOMAIN dirs' /\ dirs'[ws[q]] <= dirs[ws[q]]

\* A process that did not move keeps what it knows.
LEMMA Bystander ==
  ASSUME SpaceInv, SpaceTypes', NEW q \in Procs, Untouched(q), Younger(q)
  PROVE  KnowsSpace(q)'
<1>1. KnowsSpace(q)  BY DEF SpaceInv
<1>2. /\ Fetching(q)' <=> Fetching(q)
      /\ Allowance(q)' = Allowance(q)
  BY DEF Untouched, MineOf, Fetching, Asking, Reading, Allowance
<1>3. at[q] = "work" /\ ws[q] \notin exempt => Allowance(q) \in Nat
  BY <1>1, AllowanceBelowLimit DEF SpaceInv
<1>4. Reaches(q) => dirs[ws[q]] \in Nat
  BY WorkspaceAssumption, TransportAssumption DEF SpaceInv, SpaceTypes, Reaches
<1>5. at[q] = "work" /\ ws[q] \in DOMAIN dirs' => dirs'[ws[q]] \in Nat
  BY WorkspaceAssumption, TransportAssumption DEF SpaceTypes
<1> QED
  BY <1>1, <1>2, <1>3, <1>4, <1>5 DEF KnowsSpace, Untouched, Younger, Reaches

\* What the places of the others are left at.
PlacesKept(p) ==
  \A q \in Procs \ {p} :
    /\ at'[q] = at[q] /\ ws'[q] = ws[q] /\ fetches'[q] = fetches[q]
    /\ waited'[q] = waited[q] /\ doomed'[q] = doomed[q]

LEMMA TransferKept ==
  ASSUME TransferInv, NEW p \in Procs, TransferStep(p) \/ UNCHANGED transfer
  PROVE  TransferInv' /\ \A q \in Procs \ {p} : MineOf(q)' = MineOf(q)
<1>1. CASE TransferStep(p)
  BY <1>1, TransferStepKeeps, OthersTransfer DEF TransferInv
<1>2. CASE UNCHANGED transfer
  BY <1>2 DEF transfer, TransferInv, TransferTypes, KnowsRequest, KnowsFile, BodyEnds, MineOf
<1> QED  BY <1>1, <1>2

\* So the process that moved answers for its directory, and for the names.
LEMMA OneMoves ==
  ASSUME SpaceInv, SpaceTypes', NEW p \in Procs, TransferStep(p) \/ UNCHANGED transfer,
         PlacesKept(p), \A q \in Procs \ {p} : Younger(q),
         KnowsSpace(p)', Separate', Condemned'
  PROVE  SpaceInv'
<1>1. TransferInv' /\ \A q \in Procs \ {p} : MineOf(q)' = MineOf(q)
  BY TransferKept DEF SpaceInv
<1>2. ASSUME NEW q \in Procs, q # p  PROVE KnowsSpace(q)'
  <2>1. Untouched(q) /\ Younger(q)
    BY <1>1, <1>2 DEF PlacesKept, Untouched
  <2> QED  BY <2>1, Bystander
<1> QED  BY <1>1, <1>2 DEF SpaceInv

\* A step that takes no name and condemns none, and may give one back.
LEMMA NamesKept ==
  ASSUME SpaceInv, NEW p \in Procs, PlacesKept(p),
         SpaceTypes', exempt' = exempt \/ (ws'[p] = Nil /\ exempt' = exempt \ {ws[p]}),
         ws'[p] \in {ws[p], Nil}, doomed'[p] \in {doomed[p], Nil},
         at'[p] = "work" /\ ws'[p] # Nil => at[p] = "work"
  PROVE  Separate' /\ Condemned'
<1>1. Separate /\ Condemned /\ SpaceTypes  BY DEF SpaceInv
<1>2. \A q \in Procs : ws'[q] \in {ws[q], Nil} /\ doomed'[q] \in {doomed[q], Nil}
  BY DEF PlacesKept
<1>3. \A q \in Procs : at'[q] = "work" /\ ws'[q] # Nil => at[q] = "work"
  BY DEF PlacesKept
<1>4. Separate'
  BY <1>1, <1>2 DEF Separate
<1>5. ASSUME NEW q \in Procs, ws'[q] # Nil, ws[q] \in exempt
      PROVE  ws'[q] \in exempt'
  <2>1. ws'[q] = ws[q]
    BY <1>2, <1>5
  <2>2. exempt' # exempt => q # p
    BY <1>5
  <2> QED  BY <1>1, <1>5, <2>1, <2>2 DEF Separate
<1>6. ASSUME NEW q \in Procs, NEW r \in Procs, doomed'[r] # Nil, ws'[q] = doomed'[r], at'[q] = "work"
      PROVE  ws'[q] \in exempt'
  <2>1. ws'[q] = ws[q] /\ doomed'[r] = doomed[r] /\ at[q] = "work" /\ ws'[q] # Nil
    BY <1>2, <1>3, <1>6
  <2> QED  BY <1>1, <1>5, <1>6, <2>1 DEF Condemned
<1>7. Condemned'
  BY <1>6 DEF Condemned
<1> QED  BY <1>4, <1>7

LEMMA OpenKeeps ==
  ASSUME SpaceInv, NEW p \in Procs, Open(p)
  PROVE  SpaceInv'
<1> USE DEF Open, Rested, transfer
<1>1. SpaceTypes'
  BY DEF SpaceInv, SpaceTypes
<1>2. PlacesKept(p) /\ \A q \in Procs \ {p} : Younger(q)
  BY DEF SpaceInv, SpaceTypes, PlacesKept, Younger, Reaches
<1>3. KnowsSpace(p)'
  BY DEF SpaceInv, SpaceTypes, KnowsSpace, Fetching, Asking, Reading
<1>4. Separate' /\ Condemned'
  BY <1>1, <1>2, NamesKept DEF SpaceInv, SpaceTypes
<1> QED  BY <1>1, <1>2, <1>3, <1>4, OneMoves

LEMMA SweepsKeep ==
  ASSUME SpaceInv, NEW p \in Procs, Sweeps(p)
  PROVE  SpaceInv'
<1> USE DEF transfer, transportVars
<1>a. SpaceTypes /\ KnowsSpace(p) /\ Separate /\ Condemned  BY DEF SpaceInv
<1>1. ASSUME NEW n \in Names, SweepLook(p, n)  PROVE SpaceInv'
  <2> USE <1>1 DEF SweepLook
  <2>1. SpaceTypes'
    BY <1>a DEF SpaceTypes
  <2>2. PlacesKept(p) /\ \A q \in Procs \ {p} : Younger(q)
    BY <1>a, <2>1 DEF SpaceTypes, PlacesKept, Younger, Reaches
  <2>3. KnowsSpace(p)'
    BY <1>a DEF SpaceTypes, KnowsSpace, Fetching, Asking, Reading
  <2>4. Separate'
    BY <1>a DEF Separate
  <2>5. Condemned'
    <3>1. ASSUME NEW q \in Procs, at[q] = "work", n \in DOMAIN dirs, Stale(p, n), ws[q] = n,
                 ws[q] \notin exempt
          PROVE  FALSE
      <4>1. KnowsSpace(q)  BY DEF SpaceInv
      <4>2. Allowance(q) \in Nat /\ Allowance(q) < AgeLimit
        BY <1>a, <3>1, <4>1, AllowanceBelowLimit
      <4>3. dirs[n] >= AgeLimit
        BY <1>a, <3>1, WorkspaceAssumption, TransportAssumption DEF Stale, SpaceTypes
      <4>4. dirs[n] \in Nat /\ AgeLimit \in Nat
        BY <1>a, <3>1, WorkspaceAssumption, TransportAssumption DEF SpaceTypes
      <4> QED  BY <3>1, <4>1, <4>2, <4>3, <4>4 DEF KnowsSpace
    <3>2. doomed' = [doomed EXCEPT ![p] = IF n \in DOMAIN dirs /\ Stale(p, n) THEN n ELSE Nil]
          /\ UNCHANGED <<at, ws, exempt>>
      OBVIOUS
    <3> QED  BY <1>a, <3>1, <3>2 DEF Condemned, SpaceTypes
  <2> QED  BY <2>1, <2>2, <2>3, <2>4, <2>5, OneMoves
<1>2. ASSUME SweepRemove(p)  PROVE SpaceInv'
  <2> USE <1>2 DEF SweepRemove, Without
  <2>1. SpaceTypes'
    BY <1>a DEF SpaceTypes
  <2>2. PlacesKept(p)
    BY <1>a DEF SpaceTypes, PlacesKept
  <2>3. \A q \in Procs \ {p} : Younger(q)
    BY <1>a, WorkspaceAssumption, TransportAssumption DEF SpaceTypes, Younger, Reaches, Condemned
  <2>4. KnowsSpace(p)'
    BY <1>a DEF SpaceTypes, KnowsSpace, Fetching, Asking, Reading
  <2>5. Separate' /\ Condemned'
    BY <1>a, <2>1, <2>2, NamesKept DEF SpaceTypes
  <2> QED  BY <2>1, <2>2, <2>3, <2>4, <2>5, OneMoves
<1>3. ASSUME SweepFails(p)  PROVE SpaceInv'
  <2> USE <1>3 DEF SweepFails, Touched
  <2>1. SpaceTypes'
    BY <1>a, WorkspaceAssumption, TransportAssumption DEF SpaceTypes, Aged
  <2>2. PlacesKept(p)
    BY <1>a DEF SpaceTypes, PlacesKept
  <2>3. \A q \in Procs \ {p} : Younger(q)
    BY <1>a, WorkspaceAssumption, TransportAssumption DEF SpaceTypes, Younger, Reaches
  <2>4. KnowsSpace(p)'
    BY <1>a DEF SpaceTypes, KnowsSpace, Fetching, Asking, Reading
  <2>5. Separate' /\ Condemned'
    BY <1>a, <2>1, <2>2, NamesKept DEF SpaceTypes
  <2> QED  BY <2>1, <2>2, <2>3, <2>4, <2>5, OneMoves
<1> QED  BY <1>1, <1>2, <1>3 DEF Sweeps

LEMMA CreateKeeps ==
  ASSUME SpaceInv, NEW p \in Procs, Create(p)
  PROVE  SpaceInv'
<1> USE DEF transfer
<1>a. SpaceTypes /\ KnowsSpace(p) /\ Separate /\ Condemned  BY DEF SpaceInv
<1>0. UNCHANGED transfer /\ PlacesKept(p) /\ exempt' = exempt
  BY <1>a DEF Create, Rested, SpaceTypes, PlacesKept
<1>b. ~Fetching(p) /\ fetches[p] \in Nat /\ Share \in Nat
  BY <1>a, WorkspaceAssumption, TransportAssumption
     DEF Create, KnowsSpace, SpaceTypes, Share
<1>c. fetches[p] * Share \in Nat
  BY <1>b, Products
<1>1. CASE at' = [at EXCEPT ![p] = "idle"] /\ UNCHANGED <<dirs, ws>>
  <2>1. SpaceTypes'
    BY <1>1, <1>a DEF Create, Rested, SpaceTypes
  <2>2. \A q \in Procs \ {p} : Younger(q)
    BY <1>0, <1>1, <1>a DEF SpaceTypes, Younger, Reaches
  <2>3. KnowsSpace(p)'
    BY <1>1, <1>a, <1>b DEF Create, SpaceTypes, KnowsSpace, Fetching, Asking, Reading
  <2>4. Separate' /\ Condemned'
    BY <1>1, <1>0, <1>a, <2>1, NamesKept DEF Create, SpaceTypes
  <2> QED  BY <1>0, <2>1, <2>2, <2>3, <2>4, OneMoves
<1>2. ASSUME NEW n \in Names, n \notin Taken,
             dirs' = [m \in DOMAIN dirs \cup {n} |-> IF m = n THEN 0 ELSE dirs[m]],
             ws' = [ws EXCEPT ![p] = n], at' = [at EXCEPT ![p] = "work"]
      PROVE  SpaceInv'
  <2> USE WorkspaceAssumption, TransportAssumption
  <2>1. SpaceTypes'
    BY <1>2, <1>a DEF Create, Rested, SpaceTypes, Aged
  <2>2. \A q \in Procs : ws[q] # n /\ doomed[q] # n
    BY <1>2 DEF Taken, Live
  <2>3. \A q \in Procs \ {p} : Younger(q)
    BY <1>0, <1>2, <1>a, <2>2 DEF SpaceTypes, Younger, Reaches
  <2>4. KnowsSpace(p)'
    <3>1. /\ at'[p] = "work" /\ ws'[p] = n /\ n \in DOMAIN dirs' /\ dirs'[n] = 0
          /\ waited'[p] = 0 /\ fetches'[p] = fetches[p]
      BY <1>2, <1>a DEF Create, Rested, SpaceTypes
    <3>2. ~Fetching(p)'
      BY <1>0, <1>b DEF Fetching, Asking, Reading
    <3>3. Allowance(p)' = fetches[p] * Share
      BY <3>1, <3>2, <1>b, <1>c DEF Allowance, Share
    <3> QED  BY <1>c, <3>1, <3>2, <3>3 DEF KnowsSpace, Reaches
  <2>5. Separate'
    BY <1>2, <1>a, <2>2 DEF Separate, SpaceTypes
  <2>6. Condemned'
    BY <1>2, <1>0, <1>a, <2>2 DEF Condemned, SpaceTypes, Create
  <2> QED  BY <1>0, <2>1, <2>3, <2>4, <2>5, <2>6, OneMoves
<1> QED
  <2>1. CASE Names \ Taken # {}
    <3> DEFINE n == CHOOSE n \in Names : n \notin Taken
    <3>1. n \in Names /\ n \notin Taken  BY <2>1
    <3> HIDE DEF n
    <3> QED  BY <1>1, <1>2, <3>1 DEF Create, n
  <2>2. CASE Names \ Taken = {}
    BY <1>1, <2>2 DEF Create
  <2> QED  BY <2>1, <2>2

LEMMA MakeFileKeeps ==
  ASSUME SpaceInv, NEW p \in Procs, MakeFile(p)
  PROVE  SpaceInv'
<1> USE WorkspaceAssumption, TransportAssumption DEF MakeFile, Rested, Touched
<1>a. SpaceTypes /\ KnowsSpace(p) /\ Separate /\ Condemned  BY DEF SpaceInv
<1>1. SpaceTypes'
  BY <1>a DEF SpaceTypes, Aged, places
<1>2. PlacesKept(p)
  BY <1>a DEF SpaceTypes, PlacesKept, places
<1>3. \A q \in Procs \ {p} : Younger(q)
  BY <1>a DEF SpaceTypes, Younger, Reaches
<1>4. KnowsSpace(p)'
  <2>1. ~Fetching(p)' /\ waited'[p] = 0
    BY <1>a DEF SpaceInv, TransferInv, TransferTypes, SpaceTypes, Release, Fetching, Asking, Reading
  <2>2. at' = at /\ ws' = ws /\ fetches' = fetches /\ exempt' = exempt
    BY DEF places
  <2>3. fetches[p] \in Nat /\ Share \in Nat
    BY <1>a DEF SpaceTypes, Share
  <2>4. fetches[p] * Share \in Nat /\ Allowance(p)' = fetches[p] * Share
    BY <2>1, <2>2, <2>3, Products DEF Allowance, Share
  <2> QED  BY <1>a, <2>1, <2>2, <2>4 DEF KnowsSpace, Reaches
<1>5. Separate' /\ Condemned'
  BY <1>a, <1>1, <1>2, NamesKept DEF SpaceTypes, places
<1> QED  BY <1>1, <1>2, <1>3, <1>4, <1>5, OneMoves DEF TransferStep

LEMMA FetchKeeps ==
  ASSUME SpaceInv, NEW p \in Procs, Fetch(p)
  PROVE  SpaceInv'
<1> USE WorkspaceAssumption, TransportAssumption DEF Fetch, Rested
<1>a. SpaceTypes /\ KnowsSpace(p) /\ Separate /\ Condemned  BY DEF SpaceInv
<1>0. TransferStep(p)
  BY DEF TransferStep
<1>1. SpaceTypes'
  BY <1>a DEF SpaceTypes
<1>2. PlacesKept(p)
  BY <1>a DEF SpaceTypes, PlacesKept
<1>3. \A q \in Procs \ {p} : Younger(q)
  BY <1>a DEF SpaceTypes, Younger, Reaches
<1>4. KnowsSpace(p)'
  <2> DEFINE f == fetches[p]
  <2>1. /\ ~Fetching(p) /\ at[p] = "work" /\ at' = at /\ ws' = ws /\ dirs' = dirs /\ exempt' = exempt
        /\ f \in Nat /\ fetches'[p] = f + 1 /\ waited'[p] = 0 /\ waited[p] \in 0 .. Pause
        /\ Share \in Nat /\ Pause \in Nat /\ Pause <= Share
    BY <1>a DEF SpaceTypes, KnowsSpace, Share, Send
  <2> HIDE DEF f
  <2>a. f \in Nat => f <= f /\ (f + 1) - 1 = f
    OBVIOUS
  <2>2. f * Share \in Nat /\ (f + 1) * Share = f * Share + Share /\ (f + 1) - 1 = f
    BY <2>1, <2>a, Products
  <2>3. Allowance(p) = f * Share + waited[p]
    BY <2>1 DEF Allowance, f
  <2>4. Allowance(p)' = IF Fetching(p)' THEN ((f + 1) - 1) * Share + Pause + 0
                                        ELSE (f + 1) * Share + 0
    BY <2>1 DEF Allowance, Share, f
  <2>5. Allowance(p) <= Allowance(p)'
    BY <2>1, <2>2, <2>3, <2>4
  <2>6. Reaches(p) => dirs[ws[p]] \in Nat
    BY <1>a DEF SpaceTypes, Reaches
  <2>7. Allowance(p) \in Nat /\ Allowance(p)' \in Nat
    BY <2>1, <2>2, <2>3, <2>4
  <2> QED  BY <1>a, <2>1, <2>5, <2>6, <2>7 DEF KnowsSpace, Reaches
<1>5. Separate' /\ Condemned'
  BY <1>a, <1>1, <1>2, NamesKept DEF SpaceTypes
<1> QED  BY <1>0, <1>1, <1>2, <1>3, <1>4, <1>5, OneMoves

LEMMA UseKeeps ==
  ASSUME SpaceInv, NEW p \in Procs, Use(p)
  PROVE  SpaceInv'
<1> USE WorkspaceAssumption, TransportAssumption DEF Use, Rested
<1>a. SpaceTypes /\ KnowsSpace(p) /\ Separate /\ Condemned  BY DEF SpaceInv
<1>1. SpaceTypes'
  BY <1>a DEF SpaceTypes
<1>2. PlacesKept(p)
  BY <1>a DEF SpaceTypes, PlacesKept
<1>3. \A q \in Procs \ {p} : Younger(q)
  BY <1>a DEF SpaceTypes, Younger, Reaches
<1>4. ~Fetching(p)'
  BY DEF SpaceInv, TransferInv, TransferTypes, Release, Fetching, Asking, Reading
<1>5. KnowsSpace(p)'
  BY <1>a, <1>4 DEF SpaceTypes, KnowsSpace
<1>6. Separate' /\ Condemned'
  BY <1>a, <1>1, <1>2, NamesKept DEF SpaceTypes
<1> QED  BY <1>1, <1>2, <1>3, <1>5, <1>6, OneMoves DEF TransferStep

\* A transaction's end, which may take its directory with it.
LEMMA EndedKeeps ==
  ASSUME SpaceInv, NEW p \in Procs, Ended(p),
         \/ dirs' = dirs \/ dirs' = Touched(ws[p])
         \/ ws[p] # Nil /\ dirs' = Without(ws[p])
  PROVE  SpaceInv'
<1> USE WorkspaceAssumption, TransportAssumption DEF Ended, Rested
<1>a. SpaceTypes /\ KnowsSpace(p) /\ Separate /\ Condemned  BY DEF SpaceInv
<1>1. SpaceTypes'
  BY <1>a DEF SpaceTypes, Touched, Without, Aged
<1>2. PlacesKept(p)
  BY <1>a DEF SpaceTypes, PlacesKept
<1>3. ASSUME NEW q \in Procs \ {p}  PROVE Younger(q)
  <2>1. at[q] = "work" => ws[q] # Nil /\ ws[q] # ws[p]
    BY <1>a DEF SpaceInv, KnowsSpace, Separate
  <2> QED
    BY <1>a, <2>1 DEF SpaceTypes, Younger, Reaches, Touched, Without
<1>4. ~Fetching(p)'
  BY DEF SpaceInv, TransferInv, TransferTypes, Release, Fetching, Asking, Reading
<1>5. KnowsSpace(p)'
  BY <1>a, <1>4 DEF SpaceTypes, KnowsSpace
<1>6. Separate' /\ Condemned'
  BY <1>a, <1>1, <1>2, NamesKept DEF SpaceTypes
<1> QED  BY <1>1, <1>2, <1>3, <1>5, <1>6, OneMoves DEF TransferStep

LEMMA FetchGoesOnKeeps ==
  ASSUME SpaceInv, NEW p \in Procs, FetchGoesOn(p)
  PROVE  SpaceInv'
<1> USE WorkspaceAssumption, TransportAssumption
<1>a. SpaceTypes /\ KnowsSpace(p) /\ Separate /\ Condemned /\ TransferInv  BY DEF SpaceInv
<1>0. TransferStep(p) /\ Fetching(p)
  <2>1. CASE Quietly(p)
    BY <2>1 DEF Quietly, TransferStep, Redirect, Unanswered, Eof, Read, Respond, Deadline, Due,
                Breaks, Fetching, Asking, Reading, Reaches
  <2>2. CASE Visibly(p)
    <3>1. complete[p] => Reading(p)
      BY <1>a DEF TransferInv, KnowsRequest, Reading
    <3> QED
      BY <2>2, <3>1 DEF Visibly, TransferStep, Read, Respond, Deadline, Due, Unanswered,
                  Breaks, Promote, Fetching, Asking, Reading, Reaches
  <2> QED  BY <2>1, <2>2 DEF FetchGoesOn
<1>1. dirs' = dirs \/ dirs' = Touched(ws[p])
  BY DEF FetchGoesOn, Quietly, Visibly
<1>2. /\ waited' = [waited EXCEPT ![p] = IF Fetching(p)' THEN @ ELSE 0]
      /\ stalled' = [stalled EXCEPT ![p] = IF Fetching(p)' /\ ~Heard(p) THEN @ ELSE 0]
      /\ UNCHANGED <<at, ws, todo, doomed, fetches, exempt>>
  BY DEF FetchGoesOn, places
<1>3. SpaceTypes'
  BY <1>a, <1>1, <1>2 DEF SpaceTypes, Touched, Aged
<1>4. PlacesKept(p)
  BY <1>a, <1>2 DEF SpaceTypes, PlacesKept
<1>5. \A q \in Procs \ {p} : Younger(q)
  BY <1>a, <1>1, <1>2 DEF SpaceTypes, Younger, Reaches, Touched
<1>6. KnowsSpace(p)'
  <2> DEFINE f == fetches[p]
  <2>1. /\ at[p] = "work" /\ f \in Nat /\ f > 0 /\ f - 1 \in Nat
        /\ waited[p] \in Nat /\ (ws[p] \notin exempt => waited[p] <= Patience)
        /\ Share \in Nat /\ Share = Pause + Patience
    BY <1>0, <1>a DEF KnowsSpace, SpaceTypes, Share
  <2>2. (f - 1) * Share \in Nat /\ ((f - 1) + 1) * Share = (f - 1) * Share + Share
        /\ (f - 1) + 1 = f
    BY <2>1, Products
  <2>3. Allowance(p) = (f - 1) * Share + Pause + waited[p]
    BY <1>0 DEF Allowance
  <2>4. waited'[p] = IF Fetching(p)' THEN waited[p] ELSE 0
    BY <1>2, <1>a DEF SpaceTypes
  <2>5. Allowance(p)' = IF Fetching(p)' THEN (f - 1) * Share + Pause + waited'[p]
                                        ELSE f * Share + waited'[p]
    BY <1>2 DEF Allowance, Share
  <2> HIDE DEF f
  <2>6. f * Share = (f - 1) * Share + Share
    BY <2>2
  <2>7. ws[p] \notin exempt =>
          Allowance(p) <= Allowance(p)' /\ Allowance(p) \in Nat /\ Allowance(p)' \in Nat
    BY <2>1, <2>2, <2>3, <2>4, <2>5, <2>6
  <2>8. ws[p] \in DOMAIN dirs =>
          ws[p] \in DOMAIN dirs' /\ dirs'[ws[p]] <= dirs[ws[p]]
          /\ dirs[ws[p]] \in Nat /\ dirs'[ws[p]] \in Nat
    BY <1>a, <1>1, <1>3 DEF SpaceTypes, Touched
  <2> QED  BY <1>a, <1>0, <1>2, <2>1, <2>4, <2>7, <2>8 DEF KnowsSpace, Reaches, f
<1>7. Separate' /\ Condemned'
  BY <1>a, <1>2, <1>3, <1>4, NamesKept DEF SpaceTypes
<1> QED  BY <1>0, <1>3, <1>4, <1>5, <1>6, <1>7, OneMoves

\* Time: nobody waits longer than it may or its directory is exempt, so that no
\* other directory in use is older than allowed.
LEMMA TickKeeps ==
  ASSUME SpaceInv, Tick
  PROVE  SpaceInv'
<1> USE WorkspaceAssumption, TransportAssumption
<1>a. SpaceTypes /\ Separate /\ Condemned /\ TransferInv  BY DEF SpaceInv
<1>1. UNCHANGED <<transfer, at, ws, todo, doomed, fetches>> /\ exempt \subseteq exempt'
  BY DEF Tick, places
<1>2. \A n \in DOMAIN dirs : n \in DOMAIN dirs' /\ dirs'[n] <= dirs[n] + 1
                             /\ dirs[n] \in Nat /\ dirs'[n] \in Nat
  BY <1>a DEF Tick, SpaceTypes, Aged
<1>b. exempt' \subseteq Names
  <2>1. \A q \in Procs : Fetching(q) => ws[q] \in Names
    BY <1>a DEF SpaceInv, KnowsSpace, SpaceTypes
  <2> QED  BY <1>a, <2>1 DEF Tick, SpaceTypes
<1>c. waited' \in [Procs -> Nat] /\ stalled' \in [Procs -> Nat]
  BY <1>a DEF Tick, SpaceTypes, Longest
<1>3. SpaceTypes'
  BY <1>a, <1>b, <1>c, <1>1 DEF Tick, SpaceTypes, Aged
<1>4. TransferInv'
  BY <1>a, <1>1 DEF transfer, TransferInv, TransferTypes, KnowsRequest, KnowsFile, BodyEnds
<1>5. ASSUME NEW p \in Procs  PROVE KnowsSpace(p)'
  <2>1. KnowsSpace(p) /\ waited[p] \in Nat /\ fetches[p] \in Nat  BY <1>a DEF SpaceInv, SpaceTypes
  <2>2. Fetching(p)' <=> Fetching(p)
    BY <1>1 DEF transfer, Fetching, Asking, Reading
  <2>a. at[p] = "work" /\ ~Fetching(p) => waited[p] < Pause
    BY DEF Tick, Waits
  <2>b. at[p] = "work" /\ Fetching(p) /\ ws[p] \notin exempt' => waited[p] < Patience
    BY <2>1 DEF Tick
  <2>3. CASE at[p] = "work" /\ (Fetching(p) => ws[p] \notin exempt')
    <3>1. waited[p] < IF Fetching(p) THEN Patience ELSE Pause
      BY <2>3, <2>a, <2>b
    <3>2. waited'[p] = waited[p] + 1
      BY <1>a, <2>1, <2>3, <3>1 DEF Tick, Longest
    <3>3. Allowance(p)' = Allowance(p) + 1
      <4> DEFINE a == (fetches[p] - 1) * Share
                 b == fetches[p] * Share
      <4>0. Share \in Nat /\ (Fetching(p) => fetches[p] - 1 \in Nat)
        BY <2>1 DEF Share, KnowsSpace
      <4>1. b \in Nat /\ (Fetching(p) => a \in Nat)
        BY <2>1, <4>0, Products
      <4>2. /\ Allowance(p) = IF Fetching(p) THEN a + Pause + waited[p] ELSE b + waited[p]
            /\ Allowance(p)' = IF Fetching(p) THEN a + Pause + waited'[p] ELSE b + waited'[p]
        BY <1>1, <2>2 DEF Allowance, Share
      <4> HIDE DEF a, b
      <4> QED  BY <2>1, <3>2, <4>1, <4>2
    <3>4. ws[p] \notin exempt' => Allowance(p) \in Nat
      BY <1>1, <1>a, <2>1, <2>3, AllowanceBelowLimit
    <3> QED
      BY <1>1, <1>2, <2>1, <2>2, <2>3, <3>1, <3>2, <3>3, <3>4 DEF KnowsSpace, Reaches
  <2>4. CASE at[p] # "work"
    BY <1>1, <2>1, <2>2, <2>4 DEF KnowsSpace
  <2>5. CASE at[p] = "work" /\ Fetching(p) /\ ws[p] \in exempt'
    BY <1>1, <2>1, <2>2, <2>5 DEF KnowsSpace
  <2> QED  BY <2>3, <2>4, <2>5
<1>6. Separate' /\ Condemned'
  BY <1>1, <1>a DEF Separate, Condemned
<1> QED  BY <1>3, <1>4, <1>5, <1>6 DEF SpaceInv

LEMMA SuspendKeeps ==
  ASSUME SpaceInv, Suspend
  PROVE  SpaceInv'
<1> USE WorkspaceAssumption, TransportAssumption
<1>a. SpaceTypes /\ Separate /\ Condemned /\ TransferInv  BY DEF SpaceInv
<1>1. UNCHANGED <<transfer, waited, stalled, at, ws, todo, doomed, fetches>> /\ exempt' = Live
  BY DEF Suspend, places, transportVars
<1>2. SpaceTypes'
  BY <1>a, <1>1 DEF Suspend, SpaceTypes, Aged, Live
<1>3. TransferInv'
  BY <1>a, <1>1 DEF transfer, TransferInv, TransferTypes, KnowsRequest, KnowsFile, BodyEnds
<1>4. ASSUME NEW p \in Procs  PROVE KnowsSpace(p)'
  <2>1. KnowsSpace(p)  BY DEF SpaceInv
  <2>2. Fetching(p)' <=> Fetching(p)
    BY <1>1 DEF transfer, Fetching, Asking, Reading
  <2>3. at[p] = "work" => ws[p] \in exempt'
    BY <1>1, <2>1 DEF KnowsSpace, Live
  <2> QED  BY <1>1, <2>1, <2>2, <2>3 DEF KnowsSpace
<1>5. Separate'
  BY <1>1, <1>a DEF Separate
<1>6. Condemned'
  BY <1>1, <1>a DEF Condemned, Live
<1> QED  BY <1>2, <1>3, <1>4, <1>5, <1>6 DEF SpaceInv

-----------------------------------------------------------------------------
(* The invariant, and what follows from it.                                 *)

LEMMA SpaceInvHolds == WorkspacesSpec => []SpaceInv
<1>1. WorkspacesInit => SpaceInv
  <2> SUFFICES ASSUME WorkspacesInit PROVE SpaceInv  OBVIOUS
  <2> USE WorkspaceAssumption, TransportAssumption DEF WorkspacesInit, TransportInit
  <2>1. TransferInv
    BY DEF TransferInv, TransferTypes, KnowsRequest, KnowsFile, BodyEnds
  <2>2. SpaceTypes
    BY DEF SpaceTypes
  <2>3. \A p \in Procs : KnowsSpace(p)
    BY DEF KnowsSpace, Fetching, Asking, Reading
  <2>4. Separate /\ Condemned
    BY DEF Separate, Condemned
  <2> QED  BY <2>1, <2>2, <2>3, <2>4 DEF SpaceInv
<1>2. SpaceInv /\ [WorkspacesNext]_vars => SpaceInv'
  <2> SUFFICES ASSUME SpaceInv, [WorkspacesNext]_vars PROVE SpaceInv'  OBVIOUS
  <2>1. ASSUME NEW p \in Procs, Works(p)  PROVE SpaceInv'
    <3>1. CASE Drop(p)
      <4>1. ws[p] # Nil
        BY <3>1 DEF SpaceInv, KnowsSpace, Drop
      <4> QED  BY <3>1, <4>1, EndedKeeps DEF Drop
    <3> QED
      BY <2>1, <3>1, CreateKeeps, MakeFileKeeps, FetchKeeps, UseKeeps DEF Works
  <2>2. ASSUME NEW p \in Procs, Crash(p)  PROVE SpaceInv'
    BY <2>2, EndedKeeps DEF Crash
  <2>3. CASE UNCHANGED vars
    <3>1. UNCHANGED <<transfer, waited, stalled, dirs, at, ws, todo, doomed, fetches, exempt>>
      BY <2>3 DEF vars, places, transportVars
    <3> QED
      BY <3>1 DEF transfer, SpaceInv, SpaceTypes, TransferInv, TransferTypes, KnowsRequest,
                  KnowsFile, BodyEnds, KnowsSpace, Allowance, Reaches, Fetching, Asking, Reading,
                  Separate, Condemned
  <2> QED
    BY <2>1, <2>2, <2>3, OpenKeeps, SweepsKeep, FetchGoesOnKeeps, TickKeeps, SuspendKeeps
       DEF WorkspacesNext
<1> QED  BY <1>1, <1>2, PTL DEF WorkspacesSpec

\* Every variable keeps its type, and a partial file is there exactly while a
\* body is being received.
THEOREM WorkspacesTypeCorrect == WorkspacesSpec => []WorkspacesTypeOK
<1>1. SpaceInv => WorkspacesTypeOK
  BY DEF SpaceInv, SpaceTypes, TransferInv, TransferTypes, KnowsRequest, WorkspacesTypeOK,
         TransportTypeOK
<1> QED  BY <1>1, SpaceInvHolds, PTL

\* client.rs: no sweep removes the directory an update writes to, for any time
\* limits of which the sweep's exceeds what the others add up to.  The code bounds
\* a read and not a request, so the directory of a transaction with a request that
\* outlasts Patience is left out, as is one that a suspended machine has aged.
THEOREM LiveDirectoryIsKept == WorkspacesSpec => []LiveIsKept
<1>1. SpaceInv => LiveIsKept
  BY DEF SpaceInv, KnowsSpace, LiveIsKept
<1> QED  BY <1>1, SpaceInvHolds, PTL

\* http.rs: a file under its own name is what a whole transfer made.
THEOREM FetchedFileIsWhole == WorkspacesSpec => []FetchedIsWhole
<1>1. SpaceInv => FetchedIsWhole
  BY DEF SpaceInv, TransferInv, KnowsFile, FetchedIsWhole
<1> QED  BY <1>1, SpaceInvHolds, PTL

\* http.rs: the ceiling bounds the partial file, whatever the server sends.
THEOREM DiskIsBounded == WorkspacesSpec => []DiskBounded
<1>1. SpaceInv => DiskBounded
  BY DEF SpaceInv, TransferInv, KnowsRequest, KnowsFile, DiskBounded
<1> QED  BY <1>1, SpaceInvHolds, PTL

\* http.rs: no chain of redirects leaves HTTPS.
THEOREM HttpsStays == WorkspacesSpec => []HttpsIsKept
<1>1. SpaceInv => HttpsIsKept
  BY DEF SpaceInv, TransferInv, KnowsRequest, HttpsIsKept, Asking
<1> QED  BY <1>1, SpaceInvHolds, PTL

\* lib.rs: progress never runs ahead of the file, lags by less than a step, and
\* ends at the file's size.
THEOREM ProgressStaysTrue == WorkspacesSpec => []ProgressIsTrue
<1>1. SpaceInv => ProgressIsTrue
  BY DEF SpaceInv, TransferInv, TransferTypes, KnowsFile, ProgressIsTrue
<1> QED  BY <1>1, SpaceInvHolds, PTL
=============================================================================
